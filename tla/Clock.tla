------------------------------- MODULE Clock -------------------------------
(***************************************************************************)
(* The New York clock (fd-core/src/clock.rs): the civil calendar, the       *)
(* daylight rule, local days and minutes, the trading session that turns at *)
(* 17:00, and the nights a position is charged for.  Time is in minutes     *)
(* where the code counts milliseconds; both fall on whole minutes wherever  *)
(* the clock is read.                                                       *)
(***************************************************************************)
EXTENDS Integers, FiniteSets

Hour == 60
DayMinutes == 24 * Hour

(* Days since 1970-01-01, in the proleptic Gregorian calendar. *)
DaysFromCivil(year, month, day) ==
  LET y == IF month <= 2 THEN year - 1 ELSE year
      era == y \div 400
      ofEra == y - era * 400
      fromMarch == IF month > 2 THEN month - 3 ELSE month + 9
      ofYear == (153 * fromMarch + 2) \div 5 + day - 1
  IN  era * 146097 + ofEra * 365 + ofEra \div 4 - ofEra \div 100 + ofYear - 719468

CivilFromDays(days) ==
  LET z == days + 719468
      era == z \div 146097
      ofEra == z - era * 146097
      years == (ofEra - ofEra \div 1460 + ofEra \div 36524 - ofEra \div 146096) \div 365
      ofYear == ofEra - (365 * years + years \div 4 - years \div 100)
      fromMarch == (5 * ofYear + 2) \div 153
      month == IF fromMarch < 10 THEN fromMarch + 3 ELSE fromMarch - 9
      year == years + era * 400
  IN  [year |-> IF month <= 2 THEN year + 1 ELSE year, month |-> month,
       day |-> ofYear - (153 * fromMarch + 2) \div 5 + 1]

(* 0 is Sunday; the first of January 1970 was a Thursday. *)
WeekdayOfDays(days) == (days + 4) % 7

NthSunday(year, month, n) ==
  LET first == DaysFromCivil(year, month, 1)
  IN  first + ((7 - WeekdayOfDays(first)) % 7) + 7 * (n - 1)

(* Daylight time runs from the second Sunday of March, 07:00 UTC, to the
   first Sunday of November, 06:00 UTC. *)
NewYorkIsDst(utc) ==
  LET year == CivilFromDays(utc \div DayMinutes).year
  IN  /\ utc >= NthSunday(year, 3, 2) * DayMinutes + 7 * Hour
      /\ utc < NthSunday(year, 11, 1) * DayMinutes + 6 * Hour

NewYorkOffset(utc) == IF NewYorkIsDst(utc) THEN -4 * Hour ELSE -5 * Hour

NewYorkDay(utc) == (utc + NewYorkOffset(utc)) \div DayMinutes
NewYorkMinute(utc) == (utc + NewYorkOffset(utc)) % DayMinutes

(* The trading day that closes at 17:00 New York. *)
SessionIndex(utc) == (utc + NewYorkOffset(utc) - 17 * Hour) \div DayMinutes

BugSwapNights(entry, exit) ==
  IF exit <= entry THEN 0 ELSE SessionIndex(exit) - SessionIndex(entry)

(* The nights counted: one for every close crossed, Saturday's and Sunday's
   among them, and three when the close is Wednesday's. *)
SwapNights(entry, exit) ==
  LET crossed == {day \in SessionIndex(entry)..(SessionIndex(exit) - 1) : TRUE}
      triple == {day \in crossed : WeekdayOfDays(day + 1) = 3}
  IN  IF exit <= entry THEN 0 ELSE Cardinality(crossed) + 2 * Cardinality(triple)

=============================================================================
