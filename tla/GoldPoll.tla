------------------------------ MODULE GoldPoll ------------------------------
(***************************************************************************)
(* Collecting the gold tape (fd-ingest/src/bin/collect.rs collect_gold and *)
(* poll_gold, otl.rs): no socket, but a poll that asks the feed for every  *)
(* active contract's chart in turn, keeps the prints whose content it has  *)
(* not seen, and merges the minute closes into one file.  A first poll     *)
(* takes all the feed still has, a later one the last few hours.           *)
(*                                                                         *)
(* A print is [contract, minute]; a minute's close is "forming" as long as *)
(* the minute lasts and "final" after it.                                  *)
(***************************************************************************)
EXTENDS Integers, FiniteSets

CONSTANTS
  Contracts,
  FullWindow,    \* minutes the feed keeps, which hours = 0 asks for
  ShortWindow,   \* minutes a later poll asks for
  PollEvery,     \* minutes between two polls, at most
  Failures,      \* requests that may fail: "chart", "append" or none
  MaxMinute, MaxTrades   \* bounds of the instance

VARIABLES
  minute,     \* the time
  tape,       \* the prints the venue has made
  collector,  \* [up, seen, short, asked, polling, fresh, closes, at] and, as
              \* history, failed: a poll failed since the start
  kept,       \* the prints in the store
  closesFile, \* GC-1m.parquet: a function from minutes to closes
  polledAt    \* history: the time of the last poll that ended well, or -1

goldVars == <<minute, tape, collector, kept, closesFile, polledAt>>

-----------------------------------------------------------------------------
Down == [up |-> FALSE, seen |-> {}, short |-> FALSE, asked |-> {}, polling |-> FALSE,
         fresh |-> {}, failed |-> FALSE, closes |-> << >>, at |-> 0]

GoldInit ==
  /\ minute = 0 /\ tape = {} /\ collector = Down
  /\ kept = {} /\ closesFile = << >> /\ polledAt = -1

(* What the feed answers for a contract: the window it was asked for, of what
   it still has. *)
Window == IF collector.short THEN ShortWindow ELSE FullWindow
ChartPrints(contract) ==
  {p \in tape : p.contract = contract /\ minute - p.minute < Window}
ChartCloses(contract) ==
  LET minutes == {m \in 0..minute : minute - m < Window /\ \E p \in tape : p.minute = m}
  IN  [m \in minutes |-> IF m = minute THEN "forming" ELSE "final"]
Merged(closes, newer) ==
  [m \in DOMAIN closes \cup DOMAIN newer |->
     IF m \in DOMAIN newer THEN newer[m] ELSE closes[m]]

-----------------------------------------------------------------------------
GoldTrades(contract) ==
  /\ Cardinality(tape) < MaxTrades
  /\ tape' = tape \cup {[contract |-> contract, minute |-> minute]}
  /\ tape' # tape
  /\ UNCHANGED <<minute, collector, kept, closesFile, polledAt>>

(* The ticker of a collector that runs fires before the poll is overdue. *)
MinutePasses ==
  /\ minute < MaxMinute
  /\ collector.up => ~collector.polling /\ minute - collector.at < PollEvery
  /\ minute' = minute + 1
  /\ UNCHANGED <<tape, collector, kept, closesFile, polledAt>>

(* collect_gold: what is in the store was seen. *)
BugGoldStarts ==
  /\ ~collector.up
  /\ collector' = [Down EXCEPT !.up = TRUE, !.seen = kept, !.at = minute, !.short = TRUE]
  /\ UNCHANGED <<minute, tape, kept, closesFile, polledAt>>
GoldStarts ==
  /\ ~collector.up
  /\ collector' = [Down EXCEPT !.up = TRUE, !.seen = kept, !.at = minute]
  /\ UNCHANGED <<minute, tape, kept, closesFile, polledAt>>

GoldDies ==
  /\ collector.up
  /\ collector' = Down
  /\ UNCHANGED <<minute, tape, kept, closesFile, polledAt>>

(* The file of closes is read before the first chart is asked for. *)
PollBegins ==
  /\ collector.up /\ ~collector.polling
  /\ collector' = [collector EXCEPT !.polling = TRUE, !.asked = {}, !.fresh = {},
                                    !.closes = closesFile, !.at = minute]
  /\ UNCHANGED <<minute, tape, kept, closesFile, polledAt>>

(* A contract's chart: its prints are seen from now on, whatever follows. *)
Chart(contract) ==
  LET prints == ChartPrints(contract)
  IN  /\ collector.polling /\ contract \notin collector.asked
      /\ collector' = [collector EXCEPT
           !.asked = @ \cup {contract},
           !.fresh = @ \cup (prints \ collector.seen),
           !.seen = @ \cup prints,
           !.closes = Merged(@, ChartCloses(contract))]
      /\ UNCHANGED <<minute, tape, kept, closesFile, polledAt>>

(* Any `?` of poll_gold: the poll is given up, and the next one is short. *)
PollFails(request) ==
  /\ collector.polling /\ request \in Failures
  /\ request = "append" => collector.asked = Contracts /\ collector.fresh # {}
  /\ request = "chart" => collector.asked # Contracts
  /\ collector' = [collector EXCEPT !.polling = FALSE, !.short = TRUE, !.failed = TRUE]
  /\ UNCHANGED <<minute, tape, kept, closesFile, polledAt>>

(* The closes are written again only when a minute is new. *)
PollEnds ==
  /\ collector.polling /\ collector.asked = Contracts
  /\ kept' = kept \cup collector.fresh
  /\ closesFile' = IF DOMAIN collector.closes # DOMAIN closesFile
                   THEN collector.closes ELSE closesFile
  /\ collector' = [collector EXCEPT !.polling = FALSE, !.short = TRUE]
  /\ polledAt' = minute
  /\ UNCHANGED <<minute, tape>>

GoldNext ==
  \/ \E contract \in Contracts : GoldTrades(contract) \/ Chart(contract)
  \/ MinutePasses \/ GoldStarts \/ GoldDies \/ PollBegins \/ PollEnds
  \/ \E request \in Failures : PollFails(request)

GoldSpec == GoldInit /\ [][GoldNext]_goldVars

-----------------------------------------------------------------------------
(* "A full pull at start to close the gap since the last run, then a short
   window every few minutes" (collect.rs): a poll that ended well leaves in the
   store every print the feed still has of the minutes before it, however often
   the collector died in between, and whatever a failed poll lost is made up by
   the next start.  It is not made up before: what a failed poll had taken is
   seen, and no later poll asks for the whole window. *)
PolledIsKept ==
  [][polledAt' # polledAt \/ kept' # kept =>
       \A p \in tape : p.minute < minute /\ minute - p.minute < FullWindow =>
         p \in kept' \/ collector.failed]_goldVars

=============================================================================
