------------------------------ MODULE Executor ------------------------------
(***************************************************************************)
(* Mirroring a paper book into a broker's account (mt5_executor.py): a     *)
(* loop that reads what the book holds, then what the terminal holds, and  *)
(* sends orders until they agree.  No answer of the terminal is trusted:   *)
(* the next poll reads the account again.  The book, the broker and the    *)
(* week go on between any two calls of a poll.                             *)
(***************************************************************************)
EXTENDS Integers, Sequences, FiniteSets

CONSTANTS
  None,           \* flat, nothing waiting, no answer
  Mirrors,        \* values of --mirror-pending that are looked at
  MaxAdoptBars,   \* --max-adopt-bars
  MaxJoinR,       \* --max-join-r, in quarters of the risk
  AllowFavourable,\* --allow-favourable-join
  LeastStop,      \* the broker's least distance to a stop, in quarters of the risk
  Drifts,         \* how far the price may be from the book's entry, adverse positive
  MaxRatio,       \* --max-notional-ratio
  MinLevel,       \* --min-margin-level, in percent
  Balances,       \* what account_info() may answer
  Orders,         \* what an order may cost: [notional, margin]
  Week,           \* the moments of a week: [day, late, trading]
  Sides,          \* long and short
  Forms,          \* the prices and types a resting order may have
  Validities,     \* for how many bars an order may rest
  MaxBars, MaxDecisions, MaxTickets, MaxFaults  \* bounds

VARIABLES
  bar,       \* the bar that is forming
  moment,    \* where in the week it is
  book,      \* [open, pending, last, decided]: what /api/paper/status shows
  account,   \* [up, positions, orders, closed, tickets]: what the terminal holds
  stopFile,  \* the STOP file of this book exists
  mirror,    \* the loop: [at, then, weekend, seen, held, waiting, queue, ahead,
             \* pending, healthy]
  faults,    \* ends of the loop, of the terminal's answers, and STOP files so far
  cleared    \* this weekend's window saw a poll that found and did all it could
mirrorVars == <<bar, moment, book, account, stopFile, mirror, faults, cleared>>

-----------------------------------------------------------------------------
(* What the loop may send *)

InWeekendWindow(now) ==
  \/ now.day = "friday" /\ now.late
  \/ now.day = "saturday"
  \/ now.day = "sunday" /\ ~now.late
Now == Week[moment]

MayJoin(drift) ==
  IF drift >= 0 THEN drift <= MaxJoinR
  ELSE IF AllowFavourable THEN -drift < 4 /\ 4 + drift >= LeastStop
       ELSE -drift <= MaxJoinR

TooOld(run) == run.open # None /\ run.last - run.open.entry > MaxAdoptBars

BugTaken(open) ==
  \E trade \in account.closed : trade.at = open.entry /\ trade.side = open.side
Taken(open) ==
  \E trade \in account.closed : trade.at >= open.entry /\ trade.side = open.side

SizeGuards(acc, order) ==
  /\ acc # None /\ acc.equity > 0
  /\ order.notional # None /\ order.notional <= MaxRatio * acc.equity
  /\ order.margin # None
  /\ 100 * acc.equity >= MinLevel * (acc.margin + order.margin)

Matches(order, pending) == order.side = pending.side /\ order.form = pending.form

BugWrongSide(held, side) ==
  {CHOOSE p \in held : \A q \in held : p.ticket <= q.ticket} \cap {p \in held : p.side # side}
WrongSide(held, side) == {p \in held : p.side # side}

(* Both are empty when the terminal does not answer. *)
Positions == IF account.up THEN account.positions ELSE {}
PendingOrders == IF account.up THEN account.orders ELSE {}

-----------------------------------------------------------------------------
Polling(at, ahead, pending) ==
  [at |-> at, then |-> None, weekend |-> FALSE, seen |-> None, held |-> {}, waiting |-> {},
   queue |-> {}, ahead |-> ahead, pending |-> pending, healthy |-> TRUE]

MirrorInit ==
  /\ bar = 1 /\ moment = 1 /\ stopFile = FALSE /\ faults = 0 /\ cleared = FALSE
  /\ book = [open |-> None, pending |-> None, last |-> 0, decided |-> 0]
  /\ account = [up |-> TRUE, positions |-> {}, orders |-> {}, closed |-> {}, tickets |-> 0]
  /\ \E pending \in Mirrors : mirror = Polling("off", 0, pending)

Goes(at) == mirror' = [mirror EXCEPT !.at = at]
Sending(loop, requests, then) ==
  [loop EXCEPT !.at = IF requests = {} THEN then ELSE "send", !.queue = requests,
               !.then = IF requests = {} THEN None ELSE then]
Sends(requests, then) ==
  mirror' = Sending([mirror EXCEPT !.healthy = @ /\ account.up], requests, then)
Elsewhere == UNCHANGED <<bar, moment, book, stopFile, faults>>
OnlyMirror == Elsewhere /\ UNCHANGED <<account, cleared>>

(* The account, its login and its AutoTrading button were looked at before. *)
Starts ==
  /\ mirror.at = "off" /\ account.up
  /\ mirror' = Polling("top", 0, mirror.pending)
  /\ OnlyMirror

SeesStop ==
  /\ mirror.at = "top" /\ stopFile
  /\ Sends(Positions, "off")
  /\ OnlyMirror

(* The window comes before the status is read: the feed may have stopped. *)
BugWeekendPoll ==
  /\ mirror.at = "top" /\ ~stopFile /\ InWeekendWindow(Now)
  /\ mirror' = [mirror EXCEPT !.at = "flatten", !.weekend = TRUE, !.healthy = account.up]
  /\ OnlyMirror
WeekendPoll ==
  /\ mirror.at = "top" /\ ~stopFile /\ InWeekendWindow(Now)
  /\ mirror' = Sending([mirror EXCEPT !.weekend = TRUE, !.healthy = account.up],
                       IF mirror.pending THEN PendingOrders ELSE {}, "flatten")
  /\ OnlyMirror

Flattens ==
  /\ mirror.at = "flatten"
  /\ Sends(Positions, "asleep")
  /\ OnlyMirror

(* An unreachable API or a missing run ends the poll where it began. *)
ReadsStatus ==
  /\ mirror.at = "top" /\ ~stopFile /\ ~InWeekendWindow(Now)
  /\ mirror' = [mirror EXCEPT !.at = "positions", !.seen = [open |-> book.open, pending |-> book.pending,
                                                      late |-> TooOld(book)]]
  /\ OnlyMirror

ReadsPositions ==
  /\ mirror.at = "positions"
  /\ mirror' = [mirror EXCEPT !.at = IF mirror.pending THEN "orders" ELSE "reconcile",
                              !.held = Positions, !.healthy = account.up]
  /\ OnlyMirror

ReadsOrders ==
  /\ mirror.at = "orders"
  /\ mirror' = [mirror EXCEPT !.at = "pending", !.waiting = PendingOrders,
                              !.healthy = @ /\ account.up]
  /\ OnlyMirror

(* The book holds, or has given its order up: the terminal's copy goes.     *)
(* The book's order has changed: the copies that differ go first.           *)
ReconcilesPending ==
  /\ mirror.at = "pending"
  /\ LET seen == mirror.seen
         stale == {o \in mirror.waiting : ~Matches(o, seen.pending)}
     IN  \/ /\ seen.open # None \/ seen.pending = None
            /\ Sends(mirror.waiting, "ahead")
         \/ /\ seen.open = None /\ seen.pending # None /\ mirror.held = {}
            /\ Sends(stale, IF stale = mirror.waiting THEN "place" ELSE "ahead")
         \/ /\ seen.open = None /\ seen.pending # None /\ mirror.held # {}
            /\ Goes("ahead")
  /\ OnlyMirror

(* The account holds what the book still waits for: one poll is waited. *)
FilledAhead ==
  /\ mirror.at = "ahead"
  /\ LET early == mirror.seen.open = None /\ mirror.seen.pending # None /\ mirror.held # {}
         polls == IF early THEN IF mirror.ahead < 2 THEN mirror.ahead + 1 ELSE 2 ELSE 0
     IN  mirror' = [mirror EXCEPT !.ahead = polls,
                                  !.at = IF polls = 1 THEN "asleep" ELSE "reconcile"]
  /\ OnlyMirror

Reconciles ==
  /\ mirror.at = "reconcile"
  /\ LET open == mirror.seen.open
         wrong == WrongSide(mirror.held, open.side)
         then(requests, next) ==
           mirror' = Sending([mirror EXCEPT !.held = {}, !.waiting = {}], requests, next)
     IN  \/ open = None /\ then(mirror.held, "asleep")
         \/ open # None /\ mirror.held = {} /\ then({}, "open")
         \/ open # None /\ mirror.held # {} /\ then(wrong, IF wrong = {} THEN "asleep" ELSE "reopen")
  /\ OnlyMirror

Reopens ==
  /\ mirror.at = "reopen"
  /\ Goes(IF Positions = {} THEN "open" ELSE "asleep")
  /\ OnlyMirror

Sleeps ==
  /\ mirror.at = "asleep"
  /\ mirror' = Polling("top", mirror.ahead, mirror.pending)
  /\ cleared' = (cleared \/ (mirror.weekend /\ mirror.healthy /\ InWeekendWindow(Now)))
  /\ Elsewhere /\ UNCHANGED account

-----------------------------------------------------------------------------
(* An order: carried out, whole or in part and whatever is answered, or not *)

Trading == account.up /\ Now.trading
Closed(p) == [ticket |-> p.ticket, of |-> p.of, side |-> p.side, at |-> p.at]
Positioned(acc, side, of) ==
  [acc EXCEPT !.tickets = @ + 1,
              !.positions = @ \cup {[ticket |-> acc.tickets + 1, side |-> side, of |-> of,
                                     at |-> bar]}]

Withdrawn(acc, order) == [acc EXCEPT !.orders = @ \ {order}]
Left(acc, p) == [acc EXCEPT !.positions = @ \ {p}, !.closed = @ \cup {Closed(p)}]

SendsOne ==
  /\ mirror.at = "send" /\ mirror.queue # {}
  /\ \E r \in mirror.queue :
       /\ \/ Trading /\ r \in account.positions /\ account' = Left(account, r)
          \/ Trading /\ r \in account.orders /\ account' = Withdrawn(account, r)
          \/ UNCHANGED account
       /\ mirror' = Sending([mirror EXCEPT !.healthy =
                               @ /\ r \notin account'.positions \cup account'.orders],
                            mirror.queue \ {r}, mirror.then)
  /\ Elsewhere /\ UNCHANGED cleared

PlacesPending ==
  /\ mirror.at = "place"
  /\ Goes("ahead")
  /\ \/ /\ Trading /\ mirror.seen.pending.until > bar
        /\ mirror.waiting # {} => PendingOrders = {}
        /\ \E acc \in Balances, order \in Orders : SizeGuards(acc, order)
        /\ account.tickets < MaxTickets
        /\ account' = [account EXCEPT !.tickets = @ + 1,
             !.orders = @ \cup {[ticket |-> account.tickets + 1, of |-> mirror.seen.pending.id,
                                 side |-> mirror.seen.pending.side,
                                 form |-> mirror.seen.pending.form,
                                 until |-> mirror.seen.pending.until]}]
     \/ UNCHANGED account
  /\ Elsewhere /\ UNCHANGED cleared

Opens ==
  /\ mirror.at = "open"
  /\ Goes("asleep")
  /\ LET open == mirror.seen.open
     IN  \/ /\ Trading /\ ~Taken(open) /\ ~mirror.seen.late
            /\ \E drift \in Drifts, acc \in Balances, order \in Orders :
                 MayJoin(drift) /\ SizeGuards(acc, order)
            /\ account.tickets < MaxTickets
            /\ account' = Positioned(account, open.side, open.id)
         \/ UNCHANGED account
  /\ Elsewhere /\ UNCHANGED cleared

-----------------------------------------------------------------------------
(* The book, as far as its status shows it *)

BookSteps(open, pending, decided) ==
  /\ book' = [book EXCEPT !.open = open, !.pending = pending, !.decided = decided]
  /\ UNCHANGED <<bar, moment, account, stopFile, mirror, faults, cleared>>

Position(id, side, entry) == [id |-> id, side |-> side, entry |-> entry]

(* Filled at the open of the bar that just closed, or of the one that forms. *)
BookOpens ==
  /\ Now.trading /\ book.open = None /\ book.pending = None /\ book.decided < MaxDecisions
  /\ \E side \in Sides, entry \in {book.last, book.last + 1} \cap (1..bar) :
       BookSteps(Position(book.decided + 1, side, entry), None, book.decided + 1)

BookCloses ==
  /\ book.open # None
  /\ BookSteps(None, book.pending, book.decided)

Until(decidedAt, validBars) == decidedAt + validBars

BookRests ==
  /\ book.open = None /\ book.decided < MaxDecisions /\ mirror.pending
  /\ \E side \in Sides, form \in Forms, bars \in Validities :
       BookSteps(None, [id |-> book.decided + 1, side |-> side, form |-> form, left |-> bars,
                        until |-> Until(book.last, bars)], book.decided + 1)

BookFills ==
  /\ Now.trading /\ book.pending # None
  /\ BookSteps(Position(book.pending.id, book.pending.side, bar), None, book.decided)

BookCancels ==
  /\ book.pending # None
  /\ BookSteps(book.open, None, book.decided)

Waited(pending) ==
  IF pending = None \/ pending.left = 1 THEN None ELSE [pending EXCEPT !.left = @ - 1]

(* A bar closes; the feed brings it, or does not. *)
BarCloses ==
  /\ Now.trading /\ bar < MaxBars
  /\ bar' = bar + 1
  /\ \/ book' = [book EXCEPT !.last = bar, !.pending = Waited(@)]
     \/ UNCHANGED book
  /\ UNCHANGED <<moment, account, stopFile, mirror, faults, cleared>>

WeekGoesOn ==
  /\ moment < Len(Week)
  /\ moment' = moment + 1
  /\ cleared' = (cleared /\ InWeekendWindow(Week[moment']))
  /\ UNCHANGED <<bar, book, account, stopFile, mirror, faults>>

-----------------------------------------------------------------------------
(* The broker, the terminal, the person *)

StopsOut ==
  /\ Now.trading
  /\ \E p \in account.positions : account' = Left(account, p)
  /\ Elsewhere /\ UNCHANGED <<mirror, cleared>>

Expired(order) == bar >= order.until

Expires ==
  /\ \E o \in account.orders : Expired(o) /\ account' = Withdrawn(account, o)
  /\ Elsewhere /\ UNCHANGED <<mirror, cleared>>

OrderFills ==
  /\ Now.trading
  /\ \E o \in account.orders :
       /\ ~Expired(o)
       /\ account' = [Withdrawn(account, o) EXCEPT !.positions =
            @ \cup {[ticket |-> o.ticket, side |-> o.side, of |-> o.of, at |-> bar]}]
  /\ mirror' = [mirror EXCEPT !.healthy = FALSE]
  /\ Elsewhere /\ UNCHANGED cleared

Faulty == faults < MaxFaults /\ faults' = faults + 1

(* Assumed: who stopped answering within a poll stays silent until its end. *)
TerminalLost ==
  /\ Faulty /\ account.up
  /\ account' = [account EXCEPT !.up = FALSE]
  /\ UNCHANGED <<bar, moment, book, stopFile, mirror, cleared>>
TerminalBack ==
  /\ ~account.up /\ mirror.at \in {"off", "top"}
  /\ account' = [account EXCEPT !.up = TRUE]
  /\ Elsewhere /\ UNCHANGED <<mirror, cleared>>

Dies ==
  /\ Faulty /\ mirror.at # "off"
  /\ mirror' = Polling("off", 0, mirror.pending)
  /\ UNCHANGED <<bar, moment, book, account, stopFile, cleared>>

StopPlaced ==
  /\ Faulty /\ ~stopFile
  /\ stopFile' = TRUE
  /\ UNCHANGED <<bar, moment, book, account, mirror, cleared>>
StopTaken ==
  /\ stopFile /\ mirror.at = "off"
  /\ stopFile' = FALSE
  /\ UNCHANGED <<bar, moment, book, account, mirror, faults, cleared>>

MirrorNext ==
  \/ Starts \/ SeesStop \/ WeekendPoll \/ Flattens \/ ReadsStatus \/ ReadsPositions
  \/ ReadsOrders \/ ReconcilesPending \/ FilledAhead \/ Reconciles \/ Reopens \/ Sleeps
  \/ SendsOne \/ PlacesPending \/ Opens
  \/ BookOpens \/ BookCloses \/ BookRests \/ BookFills \/ BookCancels \/ BarCloses
  \/ WeekGoesOn \/ StopsOut \/ Expires \/ OrderFills \/ TerminalLost \/ TerminalBack
  \/ Dies \/ StopPlaced \/ StopTaken

MirrorSpec == MirrorInit /\ [][MirrorNext]_mirrorVars

-----------------------------------------------------------------------------
(* Properties *)

(* One position of the book is traded once: neither a poll that was begun   *)
(* before another's order was seen, nor a stop the broker hit before the    *)
(* book's bar closed, nor a restart, nor a weekend makes the account enter  *)
(* it again (already_taken).                                                *)
TradesOf(id) == {p.ticket : p \in {q \in account.positions \cup account.closed : q.of = id}}
TradedOnce ==
  ~mirror.pending => \A id \in 1..book.decided : Cardinality(TradesOf(id)) <= 1

(* A window in which one poll found the terminal and had its orders carried *)
(* out leaves nothing on the account, and nothing comes back before it ends. *)
FlatOverWeekend ==
  cleared => account.positions = {} /\ account.orders = {}

(* When a poll ends that was answered, the account is on the side the book   *)
(* was on, and flat if it was - but for one poll when the broker filled an   *)
(* order first.                                                             *)
FollowsTheBook ==
  mirror.at = "asleep" /\ mirror.healthy /\ ~mirror.weekend =>
    IF mirror.seen.open = None THEN account.positions = {} \/ mirror.ahead = 1
    ELSE \A p \in account.positions : p.side = mirror.seen.open.side

(* "expiring on the terminal's clock when the book's order does": the        *)
(* terminal's copy does not expire before the bars the order may wait are   *)
(* over, while the book waits for it (expiry_on_server).                    *)
ExpiresWithTheBook ==
  [][\A o \in account.orders : Expires /\ o \notin account'.orders =>
        book.pending = None \/ book.pending.id # o.of \/ bar > book.pending.until]_mirrorVars
=============================================================================
