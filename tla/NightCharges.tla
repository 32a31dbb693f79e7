----------------------------- MODULE NightCharges -----------------------------
(***************************************************************************)
(* Hours passing over a position, across a change of daylight time, while   *)
(* the wall of New York shows 17:00 again and again: what SwapNights of     *)
(* clock.rs counts afterwards from the two ends alone.  clock.rs lets the   *)
(* Wednesday carry the weekend and counts the weekend's own closes besides; *)
(* the two are kept apart here.                                             *)
(***************************************************************************)
EXTENDS Clock

CONSTANTS
  Begins,    \* hours since 1970 at which a walk begins
  HoursAhead \* bound on the hours it lasts

VARIABLES
  began,   \* the hour the walk began
  moment,  \* the hour now
  entered, \* the hour the position was opened, or the start of time
  charged, \* the nights a broker whose Wednesday carries the weekend charged it
  weekends \* the closes of Saturdays and Sundays it went through
nightVars == <<began, moment, entered, charged, weekends>>

Utc(hour) == hour * Hour
(* The wall shows 17:00 on one of these days of the week, 0 being Sunday. *)
ClosesOn(weekdays, hour) ==
  /\ NewYorkMinute(Utc(hour)) = 17 * Hour
  /\ WeekdayOfDays(NewYorkDay(Utc(hour))) \in weekdays
(* Three nights on a Wednesday, one on another day of the week, none on the
   Saturday and the Sunday that the Wednesday carries. *)
ChargedAt(hour) ==
  IF ClosesOn({3}, hour) THEN 3 ELSE IF ClosesOn({1, 2, 4, 5}, hour) THEN 1 ELSE 0
WeekendAt(hour) == IF ClosesOn({0, 6}, hour) THEN 1 ELSE 0

NightsInit ==
  /\ began \in Begins /\ moment = began
  /\ entered = 0 /\ charged = 0 /\ weekends = 0

PositionOpens ==
  /\ entered = 0
  /\ entered' = moment
  /\ UNCHANGED <<began, moment, charged, weekends>>

HourPasses ==
  /\ moment < began + HoursAhead
  /\ moment' = moment + 1
  /\ charged' = IF entered = 0 THEN 0 ELSE charged + ChargedAt(moment')
  /\ weekends' = IF entered = 0 THEN 0 ELSE weekends + WeekendAt(moment')
  /\ UNCHANGED <<began, entered>>

NightsNext == PositionOpens \/ HourPasses

NightsSpec == NightsInit /\ [][NightsNext]_nightVars

(* From its two ends alone the count is that of the hours between, whichever
   daylight rule held at either end: what was charged, the Wednesday threefold
   for the weekend, and every close of a weekend once more (clock.rs
   swap_nights: the triple and the weekend's own closes are both counted, so
   it is more than such a broker charges as soon as a weekend is held). *)
NightsAreCounted ==
  entered # 0 => SwapNights(Utc(entered), Utc(moment)) = charged + weekends
=============================================================================
