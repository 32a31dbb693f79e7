--------------------------- MODULE Signals_proofs ---------------------------
(***************************************************************************)
(* The New York clock and what is read off it, for every date since 1970.  *)
(* The civil calendar first, and where daylight time turns; then that the  *)
(* nights counted over a position are those the broker charged, hour by    *)
(* hour; last that days, sessions and the wall go forward, and that a rule *)
(* which keeps no state therefore takes its signal once a day.             *)
(***************************************************************************)
EXTENDS Signals, NightCharges, FiniteSetTheorems, WellFoundedInduction, TLAPS

-----------------------------------------------------------------------------
(* The civil calendar, from within an era: its years, each from March.        *)
YearOfEra(d) == (d - d \div 1460 + d \div 36524 - d \div 146096) \div 365
YearBegins(y) == 365 * y + y \div 4 - y \div 100
(* Century b of the era, leap cycle q of the century, day s of the cycle.     *)
EraParts(d, b, q, s) ==
  /\ b \in Int /\ q \in Int /\ s \in Int
  /\ 0 <= b /\ b <= 3 /\ 0 <= q /\ q <= 24 /\ 0 <= s /\ s <= 1460
  /\ d = 36524 * b + 1461 * q + s
  /\ 1461 * q + s < 36524 \/ b = 3

(* A day of an era by its century, its leap cycle and its place in that.      *)
LEMMA EraDays ==
  ASSUME NEW d \in Nat, d <= 146096
  PROVE  \E b, q, s : EraParts(d, b, q, s)
<1>1. CASE d = 146096
  <2>1. EraParts(d, 3, 24, 1460)
    BY <1>1 DEF EraParts
  <2> QED BY <2>1
<1>2. CASE d # 146096
  <2> DEFINE b == d \div 36524  e == d % 36524  q == e \div 1461  s == e % 1461
  <2>1. b \in Int /\ 0 <= b /\ b <= 3 /\ e \in Nat /\ e < 36524 /\ d = 36524 * b + e
    BY <1>2
  <2> HIDE DEF b, e
  <2>2. q \in Int /\ 0 <= q /\ q <= 24 /\ s \in Int /\ 0 <= s /\ s <= 1460 /\ e = 1461 * q + s
    BY <2>1
  <2> HIDE DEF q, s
  <2>3. EraParts(d, b, q, s)
    BY <2>1, <2>2 DEF EraParts
  <2> QED BY <2>3
<1> QED BY <1>1, <1>2

(* Day s of its cycle falls in the cycle's year t.                            *)
YearParts(d, b, q, s, t) ==
  /\ t \in Int /\ 0 <= t /\ t <= 3
  /\ YearOfEra(d) = 100 * b + 4 * q + t
  /\ 365 * t <= s /\ (s < 365 * t + 365 \/ t = 3)

LEMMA YearInEra ==
  ASSUME NEW d \in Nat, NEW b, NEW q, NEW s, EraParts(d, b, q, s)
  PROVE  \E t : YearParts(d, b, q, s, t)
<1> USE DEF EraParts
<1> DEFINE m == IF 24 * b + q + s >= 1460 THEN 1 ELSE 0
           t == (s - m) \div 365
<1>1. d \div 1460 = 25 * b + q + m
  OBVIOUS
<1>2. d \div 36524 - d \div 146096 = b
  OBVIOUS
<1>3. m \in Int /\ 0 <= m /\ m <= 1 /\ t \in Int /\ 0 <= t /\ t <= 3
  OBVIOUS
<1>4. \E r \in Int : 0 <= r /\ r <= 364 /\ s - m = 365 * t + r
  <2>1. \A n \in Int : n = 365 * (n \div 365) + (n % 365) /\ n % 365 \in Int /\ 0 <= n % 365 /\ n % 365 <= 364
    OBVIOUS
  <2> QED BY <1>3, <2>1
<1>7. m = 1 => s >= 1364
  OBVIOUS
<1> HIDE DEF m, t
<1>8. 365 * t <= s /\ (s < 365 * t + 365 \/ t = 3)
  BY <1>3, <1>4, <1>7
<1>5. YearOfEra(d) = (36500 * b + 1460 * q + (s - m)) \div 365
  <2>1. d - (25 * b + q + m) + b = 36500 * b + 1460 * q + (s - m)
    BY <1>3
  <2>2. d - d \div 1460 + d \div 36524 - d \div 146096 = d - (25 * b + q + m) + b
    <3>1. \A u, v, w \in Int : d - u + v - w = d - u + (v - w)
      OBVIOUS
    <3> QED BY <1>1, <1>2, <3>1
  <2> QED BY <2>1, <2>2 DEF YearOfEra
<1>6. (36500 * b + 1460 * q + (s - m)) \div 365 = 100 * b + 4 * q + t
  BY <1>3, <1>4
<1>9. YearParts(d, b, q, s, t)
  BY <1>3, <1>5, <1>6, <1>8 DEF YearParts
<1> QED BY <1>9

LEMMA EraYears ==
  ASSUME NEW d \in Nat, d <= 146096
  PROVE  LET y == YearOfEra(d)
         IN  /\ y \in Int /\ 0 <= y /\ y <= 399 /\ YearBegins(y) <= d
             /\ d < YearBegins(y + 1) \/ y = 399
             /\ d <= YearBegins(y) + 365
<1>1. PICK b, q, s : EraParts(d, b, q, s)
  BY EraDays
<1>2. PICK t : YearParts(d, b, q, s, t)
  BY <1>1, YearInEra
<1> DEFINE y == 100 * b + 4 * q + t
<1> USE <1>1, <1>2 DEF EraParts
<1>0. /\ t \in Int /\ 0 <= t /\ t <= 3 /\ YearOfEra(d) = y
      /\ 365 * t <= s /\ (s < 365 * t + 365 \/ t = 3)
  BY DEF YearParts
<1>3. YearBegins(y) = 36524 * b + 1461 * q + 365 * t
  BY <1>0 DEF YearBegins
<1>4. y \in Int /\ 0 <= y /\ y <= 399
  BY <1>0
<1>5. d < YearBegins(y + 1) \/ y = 399
  <2>1. CASE t < 3
    <3>1. YearBegins(y + 1) = 36524 * b + 1461 * q + 365 * t + 365
      BY <1>0, <2>1 DEF YearBegins
    <3> QED BY <1>0, <2>1, <3>1
  <2>2. CASE t = 3 /\ q < 24
    <3>1. YearBegins(y + 1) = 36524 * b + 1461 * q + 1461
      BY <2>2 DEF YearBegins
    <3> QED BY <3>1
  <2>3. CASE t = 3 /\ q = 24 /\ b < 3
    <3>1. YearBegins(y + 1) = 36524 * b + 36524
      BY <2>3 DEF YearBegins
    <3> QED BY <2>3, <3>1
  <2>4. CASE t = 3 /\ q = 24 /\ b = 3
    BY <2>4
  <2> QED BY <1>0, <2>1, <2>2, <2>3, <2>4
<1>6. d <= YearBegins(y) + 365
  BY <1>0, <1>3
<1> HIDE DEF y
<1> QED BY <1>0, <1>3, <1>4, <1>5, <1>6

(* The first of March of a year: the calendar's years begin there.            *)
MarchFirst(p) == (p \div 400) * 146097 + YearBegins(p - (p \div 400) * 400) - 719468

LEMMA MarchFirstAt ==
  ASSUME NEW e \in Int, NEW o \in Int, 0 <= o, o < 400, NEW p, p = e * 400 + o
  PROVE  MarchFirst(p) = e * 146097 + YearBegins(o) - 719468
<1>1. p \div 400 = e /\ p - e * 400 = o
  OBVIOUS
<1> QED BY <1>1, SMT DEF MarchFirst, YearBegins

LEMMA CivilDates ==
  ASSUME NEW p \in Int
  PROVE  /\ DaysFromCivil(p, 3, 1) = MarchFirst(p)
         /\ DaysFromCivil(p, 11, 1) = MarchFirst(p) + 245
         /\ MarchFirst(p) \in Int
<1>1. (153 * (3 - 3) + 2) \div 5 + 1 - 1 = 0 /\ (153 * (11 - 3) + 2) \div 5 + 1 - 1 = 245
  OBVIOUS
<1>2. \E e, o \in Int : e = p \div 400 /\ o = p - e * 400
  OBVIOUS
<1> QED BY <1>1, <1>2 DEF DaysFromCivil, MarchFirst, YearBegins

LEMMA MarchSteps ==
  ASSUME NEW p \in Int
  PROVE  MarchFirst(p) + 365 <= MarchFirst(p + 1) /\ MarchFirst(p + 1) <= MarchFirst(p) + 366
<1>1. PICK e, o \in Int : e = p \div 400 /\ p = e * 400 + o /\ 0 <= o /\ o < 400
  OBVIOUS
<1>2. MarchFirst(p) = e * 146097 + YearBegins(o) - 719468
  BY <1>1 DEF MarchFirst
<1>3. CASE o < 399
  <2>1. (p + 1) \div 400 = e
    BY <1>1, <1>3
  <2>2. MarchFirst(p + 1) = e * 146097 + YearBegins(o + 1) - 719468
    BY <1>1, <2>1 DEF MarchFirst
  <2> QED BY <1>2, <1>3, <2>2 DEF YearBegins
<1>4. CASE o = 399
  <2>1. (p + 1) \div 400 = e + 1
    BY <1>1, <1>4
  <2>2. MarchFirst(p + 1) = (e + 1) * 146097 + YearBegins(0) - 719468
    BY <1>1, <1>4, <2>1 DEF MarchFirst
  <2> QED BY <1>2, <1>4, <2>2 DEF YearBegins
<1> QED BY <1>1, <1>3, <1>4

LEMMA MarchGrows ==
  ASSUME NEW p \in Int, NEW q \in Int, p <= q
  PROVE  MarchFirst(p) <= MarchFirst(q)
<1>1. PICK e, o \in Int : e = p \div 400 /\ p = e * 400 + o /\ 0 <= o /\ o < 400
  OBVIOUS
<1>2. PICK f, r \in Int : f = q \div 400 /\ q = f * 400 + r /\ 0 <= r /\ r < 400
  OBVIOUS
<1>3. /\ MarchFirst(p) = e * 146097 + YearBegins(o) - 719468
      /\ MarchFirst(q) = f * 146097 + YearBegins(r) - 719468
  BY <1>1, <1>2 DEF MarchFirst
<1>4. /\ YearBegins(o) \in Int /\ YearBegins(r) \in Int
      /\ 0 <= YearBegins(r) /\ YearBegins(o) <= 146096
  BY <1>1, <1>2 DEF YearBegins
<1>5. e < f \/ (e = f /\ o <= r)
  BY <1>1, <1>2
<1>6. o <= r => YearBegins(o) <= YearBegins(r)
  BY <1>1, <1>2 DEF YearBegins
<1> QED BY <1>3, <1>4, <1>5, <1>6

(* A day by its year from March to March and its place in it.                 *)
InYear(days, p, k) ==
  /\ p \in Int /\ k \in Int /\ 0 <= k /\ k <= 365
  /\ days = MarchFirst(p) + k /\ days < MarchFirst(p + 1)
  /\ CivilFromDays(days).year = IF k < 306 THEN p ELSE p + 1

LEMMA MarchYears ==
  ASSUME NEW days \in Nat
  PROVE  \E p, k : InYear(days, p, k)
<1> DEFINE z == days + 719468
           era == z \div 146097
           ofEra == z - era * 146097
           years == YearOfEra(ofEra)
           ofYear == ofEra - YearBegins(years)
           p == years + era * 400
<1>1. era \in Int /\ ofEra \in Nat /\ ofEra <= 146096 /\ z = era * 146097 + ofEra
  OBVIOUS
<1>5. CivilFromDays(days).year =
        IF (IF (5 * ofYear + 2) \div 153 < 10 THEN (5 * ofYear + 2) \div 153 + 3
            ELSE (5 * ofYear + 2) \div 153 - 9) <= 2 THEN p + 1 ELSE p
  BY DEF CivilFromDays, YearOfEra, YearBegins
<1> HIDE DEF era, ofEra
<1>2. /\ years \in Int /\ 0 <= years /\ years <= 399 /\ YearBegins(years) <= ofEra
      /\ ofEra < YearBegins(years + 1) \/ years = 399
      /\ ofEra <= YearBegins(years) + 365
  BY <1>1, EraYears
<1> HIDE DEF years
<1>3. YearBegins(years) \in Int /\ ofYear \in Int /\ 0 <= ofYear /\ ofYear <= 365
  BY <1>1, <1>2 DEF YearBegins
<1>4. p \in Int /\ p \div 400 = era /\ p - era * 400 = years
  BY <1>1, <1>2
<1>6. days = MarchFirst(p) + ofYear
  <2> HIDE DEF p
  <2>1. MarchFirst(p) = era * 146097 + YearBegins(years) - 719468
    <3>1. p = era * 400 + years
      BY <1>1, <1>2, <1>4
    <3> QED BY <1>1, <1>2, <3>1, MarchFirstAt
  <2> QED BY <1>1, <1>3, <2>1
<1>7. days < MarchFirst(p + 1)
  <2>1. CASE years < 399
    <3>1. (p + 1) \div 400 = era /\ (p + 1) - era * 400 = years + 1
      BY <1>1, <1>2, <2>1
    <3>2. YearBegins(years + 1) \in Int
      BY <1>2 DEF YearBegins
    <3>3. ofEra < YearBegins(years + 1)
      BY <1>2, <2>1
    <3> QED BY <1>1, <3>1, <3>2, <3>3 DEF MarchFirst
  <2>2. CASE years = 399
    <3>1. (p + 1) \div 400 = era + 1 /\ (p + 1) - (era + 1) * 400 = 0
      BY <1>1, <1>2, <2>2
    <3>2. YearBegins(0) = 0
      BY DEF YearBegins
    <3> QED BY <1>1, <3>1, <3>2 DEF MarchFirst
  <2> QED BY <1>2, <2>1, <2>2
<1> HIDE DEF p, ofYear
<1>8. CivilFromDays(days).year = IF ofYear < 306 THEN p ELSE p + 1
  <2>1. (5 * ofYear + 2) \div 153 < 10 <=> ofYear < 306
    BY <1>3
  <2>2. (5 * ofYear + 2) \div 153 \in Int /\ 0 <= (5 * ofYear + 2) \div 153
        /\ (5 * ofYear + 2) \div 153 <= 11
    BY <1>3
  <2> QED BY <1>5, <2>1, <2>2
<1>9. InYear(days, p, ofYear)
  BY <1>3, <1>4, <1>6, <1>7, <1>8 DEF InYear
<1> QED BY <1>9

-----------------------------------------------------------------------------
(* Daylight time of a minute in year p: between Sunday s and Sunday a.         *)
DaylightIn(u, p, s, a) ==
  /\ p \in Int /\ s \in Int /\ a \in Int
  /\ MarchFirst(p) + 7 <= s /\ s <= MarchFirst(p) + 13
  /\ MarchFirst(p) + 245 <= a /\ a <= MarchFirst(p) + 251
  /\ s = NthSunday(p, 3, 2) /\ a = NthSunday(p, 11, 1)
  /\ MarchFirst(p) * 1440 <= u /\ u < MarchFirst(p + 1) * 1440
  /\ NewYorkIsDst(u) <=> s * 1440 + 420 <= u /\ u < a * 1440 + 360

LEMMA Sundays ==
  ASSUME NEW p \in Int
  PROVE  /\ NthSunday(p, 3, 2) \in Int /\ NthSunday(p, 11, 1) \in Int
         /\ MarchFirst(p) + 7 <= NthSunday(p, 3, 2) /\ NthSunday(p, 3, 2) <= MarchFirst(p) + 13
         /\ MarchFirst(p) + 245 <= NthSunday(p, 11, 1) /\ NthSunday(p, 11, 1) <= MarchFirst(p) + 251
<1>1. \A n \in Int : LET x == (7 - WeekdayOfDays(n)) % 7 IN x \in Int /\ 0 <= x /\ x <= 6
  BY DEF WeekdayOfDays
<1>2. /\ NthSunday(p, 3, 2) = MarchFirst(p) + ((7 - WeekdayOfDays(MarchFirst(p))) % 7) + 7 * (2 - 1)
      /\ NthSunday(p, 11, 1) =
           MarchFirst(p) + 245 + ((7 - WeekdayOfDays(MarchFirst(p) + 245)) % 7) + 7 * (1 - 1)
  BY CivilDates DEF NthSunday
<1>3. MarchFirst(p) \in Int /\ MarchFirst(p) + 245 \in Int
  BY CivilDates
<1>4. PICK x, y \in Int : /\ 0 <= x /\ x <= 6 /\ 0 <= y /\ y <= 6
                          /\ NthSunday(p, 3, 2) = MarchFirst(p) + x + 7 * (2 - 1)
                          /\ NthSunday(p, 11, 1) = MarchFirst(p) + 245 + y + 7 * (1 - 1)
  BY <1>1, <1>2, <1>3
<1> QED BY <1>3, <1>4

LEMMA Daylight ==
  ASSUME NEW u \in Nat
  PROVE  \E p, s, a : DaylightIn(u, p, s, a)
<1>1. u \div 1440 \in Nat /\ u >= 1440 * (u \div 1440) /\ u < 1440 * (u \div 1440) + 1440
  OBVIOUS
<1> DEFINE day == u \div 1440
<1> HIDE DEF day
<1>2. PICK p, k : InYear(day, p, k)
  BY <1>1, MarchYears DEF day
<1>3. /\ p \in Int /\ p + 1 \in Int /\ k \in Int /\ 0 <= k /\ k <= 365
      /\ day = MarchFirst(p) + k /\ day < MarchFirst(p + 1)
      /\ CivilFromDays(day).year = IF k < 306 THEN p ELSE p + 1
      /\ MarchFirst(p) \in Int /\ MarchFirst(p + 1) \in Int
  BY <1>2, CivilDates DEF InYear
<1>4. day \in Nat /\ u >= 1440 * day /\ u < 1440 * day + 1440
  BY <1>1 DEF day
<1> DEFINE s == NthSunday(p, 3, 2)  a == NthSunday(p, 11, 1)
           t == NthSunday(p + 1, 3, 2)  year == CivilFromDays(day).year
<1>5. /\ s \in Int /\ a \in Int /\ t \in Int
      /\ MarchFirst(p) + 7 <= s /\ s <= MarchFirst(p) + 13
      /\ MarchFirst(p) + 245 <= a /\ a <= MarchFirst(p) + 251
      /\ MarchFirst(p + 1) + 7 <= t
  BY <1>3, Sundays
<1>6. NewYorkIsDst(u) <=> /\ u >= NthSunday(year, 3, 2) * 1440 + 420
                          /\ u < NthSunday(year, 11, 1) * 1440 + 360
  <2>1. DayMinutes = 1440 /\ 7 * Hour = 420 /\ 6 * Hour = 360
    BY DEF DayMinutes, Hour
  <2> QED BY <2>1 DEF NewYorkIsDst, day
<1>7. NewYorkIsDst(u) <=> s * 1440 + 420 <= u /\ u < a * 1440 + 360
  <2>1. CASE k < 306
    <3>1. year = p
      BY <1>3, <2>1
    <3> HIDE DEF year
    <3> QED BY <1>4, <1>5, <1>6, <3>1
  <2>2. CASE ~(k < 306)
    <3>1. year = p + 1
      BY <1>3, <2>2
    <3> HIDE DEF year
    <3>2. NewYorkIsDst(u) => u >= t * 1440 + 420
      BY <1>6, <3>1
    <3> HIDE DEF s, a, t
    <3>3. u < t * 1440 + 420
      BY <1>3, <1>4, <1>5
    <3>4. u >= a * 1440 + 360
      BY <1>3, <1>4, <1>5, <2>2
    <3> QED BY <1>4, <1>5, <3>2, <3>3, <3>4
  <2> QED BY <2>1, <2>2
<1>8. MarchFirst(p) * 1440 <= u /\ u < MarchFirst(p + 1) * 1440
  BY <1>3, <1>4
<1>9. DaylightIn(u, p, s, a)
  BY <1>3, <1>5, <1>7, <1>8 DEF DaylightIn
<1> QED BY <1>9

(* From one full hour to the next the clock keeps its offset, or it is turned *)
(* at 02:00 on the wall.                                                      *)
HourTurns(u, v, off, then) ==
  \/ off = then /\ off \in {-240, -300}
  \/ off = -300 /\ then = -240 /\ \E n \in Int : v = n * 1440 + 420
  \/ off = -240 /\ then = -300 /\ \E n \in Int : v = n * 1440 + 360

LEMMA ClockTurns ==
  ASSUME NEW h \in Nat, NEW u, NEW v, u = h * 60, v = u + 60
  PROVE  HourTurns(u, v, NewYorkOffset(u), NewYorkOffset(v))
<1>1. u \in Nat /\ v \in Nat
  OBVIOUS
<1>2. PICK p, s, a : DaylightIn(u, p, s, a)
  BY <1>1, Daylight
<1>3. PICK q, t, b : DaylightIn(v, q, t, b)
  BY <1>1, Daylight
<1>4. /\ p \in Int /\ q \in Int /\ p + 1 \in Int /\ q + 1 \in Int
      /\ MarchFirst(p) \in Int /\ MarchFirst(q) \in Int
      /\ MarchFirst(p + 1) \in Int /\ MarchFirst(q + 1) \in Int
      /\ s \in Int /\ t \in Int /\ a \in Int /\ b \in Int
  BY <1>2, <1>3, CivilDates DEF DaylightIn
<1>5. /\ MarchFirst(p) + 7 <= s /\ s <= MarchFirst(p) + 13
      /\ MarchFirst(p) + 245 <= a /\ a <= MarchFirst(p) + 251
      /\ MarchFirst(p) * 1440 <= u /\ u < MarchFirst(p + 1) * 1440
      /\ MarchFirst(q) + 7 <= t /\ t <= MarchFirst(q) + 13
      /\ MarchFirst(q) + 245 <= b /\ b <= MarchFirst(q) + 251
      /\ MarchFirst(q) * 1440 <= v /\ v < MarchFirst(q + 1) * 1440
  BY <1>2, <1>3 DEF DaylightIn
<1>6. NewYorkIsDst(u) <=> s * 1440 + 420 <= u /\ u < a * 1440 + 360
  BY <1>2 DEF DaylightIn
<1>7. NewYorkIsDst(v) <=> t * 1440 + 420 <= v /\ v < b * 1440 + 360
  BY <1>3 DEF DaylightIn
<1>8. NewYorkOffset(u) = (IF NewYorkIsDst(u) THEN -240 ELSE -300)
      /\ NewYorkOffset(v) = (IF NewYorkIsDst(v) THEN -240 ELSE -300)
  BY DEF NewYorkOffset, Hour
<1>9. CASE p = q
  <2>1. s = t /\ a = b
    BY <1>2, <1>3, <1>9 DEF DaylightIn
  <2>2. CASE NewYorkIsDst(u) /\ ~NewYorkIsDst(v)
    <3>1. v = a * 1440 + 360
      BY <1>1, <1>4, <1>5, <1>6, <1>7, <2>1, <2>2
    <3> QED BY <1>4, <1>8, <2>2, <3>1 DEF HourTurns
  <2>3. CASE ~NewYorkIsDst(u) /\ NewYorkIsDst(v)
    <3>1. v = s * 1440 + 420
      BY <1>1, <1>4, <1>5, <1>6, <1>7, <2>1, <2>3
    <3> QED BY <1>4, <1>8, <2>3, <3>1 DEF HourTurns
  <2> QED BY <1>8, <2>2, <2>3 DEF HourTurns
<1>10. CASE p # q
  <2>1. p < q
    <3>1. ~(q + 1 <= p)
      <4>1. SUFFICES ASSUME q + 1 <= p PROVE FALSE
        OBVIOUS
      <4>2. MarchFirst(q + 1) <= MarchFirst(p)
        BY <1>4, <4>1, MarchGrows
      <4> QED BY <1>1, <1>4, <1>5, <4>2
    <3> QED BY <1>4, <1>10, <3>1
  <2>2. MarchFirst(p + 1) <= MarchFirst(q) /\ MarchFirst(p) + 365 <= MarchFirst(p + 1)
    BY <1>4, <2>1, MarchGrows, MarchSteps
  <2>3. ~NewYorkIsDst(u)
    BY <1>1, <1>4, <1>5, <1>6, <2>2
  <2>4. ~NewYorkIsDst(v)
    BY <1>1, <1>4, <1>5, <1>7, <2>2
  <2> QED BY <1>8, <2>3, <2>4 DEF HourTurns
<1> QED BY <1>9, <1>10

(* A night is charged in the hour that begins the trading day.                *)
SessionTurns(u, v) ==
  /\ SessionIndex(u) \in Int
  /\ SessionIndex(v) = SessionIndex(u) + (IF NewYorkMinute(v) = 1020 THEN 1 ELSE 0)
  /\ NewYorkMinute(v) = 1020 => NewYorkDay(v) = SessionIndex(u) + 1

LEMMA SessionsTurn ==
  ASSUME NEW h \in Nat, NEW u, NEW v, u = h * 60, v = u + 60
  PROVE  SessionTurns(u, v)
<1> DEFINE off == NewYorkOffset(u)  then == NewYorkOffset(v)
           x == u + off  y == v + then
<1>1. HourTurns(u, v, off, then)
  BY ClockTurns
<1>2. off \in Int /\ then \in Int
  BY <1>1 DEF HourTurns
<1>8. /\ SessionIndex(u) = (u + off - 1020) \div 1440
      /\ SessionIndex(v) = (v + then - 1020) \div 1440
      /\ NewYorkMinute(v) = (v + then) % 1440
      /\ NewYorkDay(v) = (v + then) \div 1440
  BY DEF SessionIndex, NewYorkMinute, NewYorkDay, DayMinutes, Hour
<1> HIDE DEF off, then
<1>7. x = u + off /\ y = v + then /\ x \in Int /\ y \in Int
  BY <1>2
<1>3. /\ SessionIndex(u) = (x - 1020) \div 1440
      /\ SessionIndex(v) = (y - 1020) \div 1440
      /\ NewYorkMinute(v) = y % 1440
      /\ NewYorkDay(v) = y \div 1440
  <2> HIDE DEF x, y
  <2>1. u + (off - 1020) = x - 1020 /\ v + (then - 1020) = y - 1020
    BY <1>2, <1>7
  <2> QED BY <1>7, <1>8, <2>1
<1> HIDE DEF x, y
<1>4. CASE off = then /\ off \in {-240, -300}
  <2>1. PICK g \in Int : x = 60 * g /\ y = 60 * g + 60
    <3>1. off = 60 * (-4) \/ off = 60 * (-5)
      BY <1>4
    <3>2. x = 60 * (h - 4) \/ x = 60 * (h - 5)
      BY <1>7, <3>1
    <3>3. y = x + 60
      BY <1>2, <1>4, <1>7
    <3>4. ASSUME NEW g \in Int, x = 60 * g PROVE x = 60 * g /\ y = 60 * g + 60
      BY <3>3, <3>4
    <3>5. h - 4 \in Int /\ h - 5 \in Int
      OBVIOUS
    <3> QED BY <3>2, <3>4, <3>5
  <2>2. /\ SessionIndex(u) = (60 * g - 1020) \div 1440
        /\ SessionIndex(v) = (60 * g + 60 - 1020) \div 1440
        /\ NewYorkMinute(v) = (60 * g + 60) % 1440
        /\ NewYorkDay(v) = (60 * g + 60) \div 1440
    BY <1>3, <2>1
  <2>3. PICK d, r \in Int : g + 1 = 24 * d + r /\ 0 <= r /\ r < 24
    <3>1. g + 1 = 24 * ((g + 1) \div 24) + ((g + 1) % 24)
          /\ 0 <= (g + 1) % 24 /\ (g + 1) % 24 < 24
      OBVIOUS
    <3> QED BY <3>1
  <2>4. 60 * g + 60 = 1440 * d + 60 * r /\ 60 * g = 1440 * d + 60 * r - 60
    BY <2>3
  <2>5. NewYorkMinute(v) = 60 * r /\ NewYorkDay(v) = d
    BY <2>2, <2>3, <2>4
  <2>6. SessionIndex(v) = IF r >= 17 THEN d ELSE d - 1
    BY <2>2, <2>3, <2>4
  <2>7. SessionIndex(u) = IF r >= 18 THEN d ELSE d - 1
    BY <2>2, <2>3, <2>4
  <2> QED BY <2>3, <2>5, <2>6, <2>7 DEF SessionTurns
<1>5. ASSUME off = -300, then = -240, NEW n \in Int, v = n * 1440 + 420
      PROVE  SessionTurns(u, v)
  <2>1. /\ SessionIndex(u) = n - 1 /\ SessionIndex(v) = n - 1 /\ NewYorkMinute(v) = 180
    BY <1>3, <1>5, <1>7
  <2> QED BY <2>1 DEF SessionTurns
<1>6. ASSUME off = -240, then = -300, NEW n \in Int, v = n * 1440 + 360
      PROVE  SessionTurns(u, v)
  <2>1. /\ SessionIndex(u) = n - 1 /\ SessionIndex(v) = n - 1 /\ NewYorkMinute(v) = 60
    BY <1>3, <1>6, <1>7
  <2> QED BY <2>1 DEF SessionTurns
<1> QED BY <1>1, <1>4, <1>5, <1>6 DEF HourTurns

-----------------------------------------------------------------------------
(* What is known of a night's length is true since the start of 1970.         *)
NightsInv ==
  /\ moment \in Nat \ {0} /\ entered \in Nat /\ charged \in Nat /\ weekends \in Nat
  /\ entered <= moment /\ (entered = 0 => charged = 0 /\ weekends = 0)
  /\ entered # 0 =>
       /\ SessionIndex(Utc(entered)) \in Int /\ SessionIndex(Utc(moment)) \in Int
       /\ SessionIndex(Utc(entered)) <= SessionIndex(Utc(moment))
       /\ SwapNights(Utc(entered), Utc(moment)) = charged + weekends

(* The sessions crossed, those charged threefold, and the nights in all.      *)
Crossed(i, j) == {day \in i..(j - 1) : TRUE}
Triple(i, j) == {day \in Crossed(i, j) : WeekdayOfDays(day + 1) = 3}
CountOf(i, j) == Cardinality(Crossed(i, j)) + 2 * Cardinality(Triple(i, j))

LEMMA CountGrows ==
  ASSUME NEW i \in Int, NEW j \in Int, i <= j
  PROVE  /\ CountOf(i, j) \in Nat
         /\ CountOf(i, j + 1) = CountOf(i, j) + (IF WeekdayOfDays(j + 1) = 3 THEN 3 ELSE 1)
<1>1. /\ IsFiniteSet(i..(j - 1)) /\ Crossed(i, j) = i..(j - 1) /\ Triple(i, j) \subseteq Crossed(i, j)
  BY FS_Interval DEF Crossed, Triple
<1>2. /\ IsFiniteSet(Crossed(i, j)) /\ IsFiniteSet(Triple(i, j))
  BY <1>1, FS_Subset
<1>3. Cardinality(Crossed(i, j)) \in Nat /\ Cardinality(Triple(i, j)) \in Nat
  BY <1>2, FS_CardinalityType
<1>4. Crossed(i, j + 1) = Crossed(i, j) \cup {j} /\ j \notin Crossed(i, j)
  BY DEF Crossed
<1>5. Cardinality(Crossed(i, j + 1)) = Cardinality(Crossed(i, j)) + 1
  BY <1>2, <1>4, FS_AddElement
<1>6. CASE WeekdayOfDays(j + 1) = 3
  <2>1. Triple(i, j + 1) = Triple(i, j) \cup {j} /\ j \notin Triple(i, j)
    BY <1>4, <1>6 DEF Triple
  <2>2. Cardinality(Triple(i, j + 1)) = Cardinality(Triple(i, j)) + 1
    BY <1>2, <2>1, FS_AddElement
  <2> QED BY <1>3, <1>5, <1>6, <2>2 DEF CountOf
<1>7. CASE WeekdayOfDays(j + 1) # 3
  <2>1. Triple(i, j + 1) = Triple(i, j)
    BY <1>4, <1>7 DEF Triple
  <2> QED BY <1>3, <1>5, <1>7, <2>1 DEF CountOf
<1> QED BY <1>6, <1>7, <1>3 DEF CountOf

LEMMA SwapCounts ==
  ASSUME NEW u \in Int, NEW v \in Int, u <= v, SessionIndex(u) \in Int
  PROVE  SwapNights(u, v) = CountOf(SessionIndex(u), SessionIndex(v))
<1>1. CASE u = v
  <2>1. Crossed(SessionIndex(u), SessionIndex(u)) = {}
    BY DEF Crossed
  <2>2. Triple(SessionIndex(u), SessionIndex(u)) = {}
    BY <2>1 DEF Triple
  <2>3. CountOf(SessionIndex(u), SessionIndex(u)) = 0
    BY <2>1, <2>2, FS_EmptySet DEF CountOf
  <2> QED BY <1>1, <2>3 DEF SwapNights
<1>2. CASE u < v
  <2>1. ~(v <= u)
    BY <1>2
  <2> QED BY <2>1, Zenon DEF SwapNights, CountOf, Crossed, Triple
<1> QED BY <1>1, <1>2

(* Whenever a position is opened after the start of 1970 and however long it  *)
(* is held, the nights counted from its two ends are those charged hour by    *)
(* hour with the Wednesday threefold, and one more for each close of a        *)
(* Saturday or Sunday, over every year and turn of the clocks (swap_nights).  *)
THEOREM NightsAlwaysCounted ==
  ASSUME Begins \subseteq Nat \ {0}
  PROVE  NightsSpec => []NightsAreCounted
<1>1. NightsInit => NightsInv
  BY DEF NightsInit, NightsInv
<1>2. NightsInv /\ [NightsNext]_nightVars => NightsInv'
  <2> SUFFICES ASSUME NightsInv, [NightsNext]_nightVars PROVE NightsInv'
    OBVIOUS
  <2>0. \A h \in Nat : Utc(h) \in Int /\ Utc(h) = h * 60 /\ Utc(h + 1) = Utc(h) + 60
    BY DEF Utc, Hour
  <2>1. CASE PositionOpens
    <3>1. /\ entered = 0 /\ entered' = moment /\ moment' = moment /\ charged' = charged
          /\ weekends' = weekends
      BY <2>1 DEF PositionOpens
    <3>2. moment \in Nat /\ Utc(moment) \in Int /\ charged = 0 /\ weekends = 0
      BY <3>1 DEF NightsInv, Utc, Hour
    <3>3. SessionIndex(Utc(moment)) \in Int
      BY <2>0, <3>2, SessionsTurn DEF SessionTurns
    <3>4. SwapNights(Utc(moment), Utc(moment)) = 0
      BY <3>2 DEF SwapNights
    <3> QED BY <3>1, <3>2, <3>3, <3>4 DEF NightsInv
  <2>2. CASE HourPasses
    <3>1. /\ moment \in Nat /\ moment' = moment + 1 /\ entered' = entered
          /\ charged' = IF entered = 0 THEN 0 ELSE charged + ChargedAt(moment')
          /\ weekends' = IF entered = 0 THEN 0 ELSE weekends + WeekendAt(moment')
      BY <2>2 DEF HourPasses, NightsInv
    <3>2. CASE entered = 0
      BY <3>1, <3>2 DEF NightsInv
    <3>3. CASE entered # 0
      <4> DEFINE u == Utc(moment)  v == Utc(moment')  first == SessionIndex(Utc(entered))
                 i == SessionIndex(u)
      <4>1. v = u + 60 /\ u = moment * 60 /\ u \in Int /\ Utc(entered) = entered * 60
            /\ Utc(entered) \in Int /\ v \in Int
        BY <2>0, <3>1 DEF NightsInv
      <4>2. first \in Int /\ i \in Int /\ first <= i /\ SwapNights(Utc(entered), u) = charged + weekends
        BY <3>3 DEF NightsInv
      <4>3. SessionTurns(u, v)
        BY <3>1, <4>1, SessionsTurn
      <4>4. Utc(entered) <= u /\ Utc(entered) <= v
        BY <3>1, <4>1 DEF NightsInv
      <4> HIDE DEF u, v
      <4>5. SwapNights(Utc(entered), u) = CountOf(first, i)
        BY <4>1, <4>2, <4>4, SwapCounts
      <4>6. SwapNights(Utc(entered), v) = CountOf(first, SessionIndex(v))
        BY <4>1, <4>2, <4>4, SwapCounts
      <4>7. charged' = charged + ChargedAt(moment') /\ weekends' = weekends + WeekendAt(moment')
        BY <3>1, <3>3
      <4> HIDE DEF first, i
      <4>8. /\ SessionIndex(v) = i + (IF NewYorkMinute(v) = 1020 THEN 1 ELSE 0)
            /\ NewYorkMinute(v) = 1020 => NewYorkDay(v) = i + 1
        BY <4>3 DEF SessionTurns, i
      <4>9. \A D : ClosesOn(D, moment') <=>
                     NewYorkMinute(v) = 1020 /\ WeekdayOfDays(NewYorkDay(v)) \in D
        BY DEF ClosesOn, v, Hour
      <4>10. /\ charged' \in Nat /\ weekends' \in Nat
             /\ SwapNights(Utc(entered), v) = charged' + weekends'
             /\ SessionIndex(v) \in Int /\ first <= SessionIndex(v)
        <5>0. /\ charged \in Nat /\ weekends \in Nat /\ charged + weekends = CountOf(first, i)
              /\ CountOf(first, i + 1) =
                   CountOf(first, i) + (IF WeekdayOfDays(i + 1) = 3 THEN 3 ELSE 1)
          BY <4>2, <4>5, CountGrows DEF NightsInv
        <5>1. CASE NewYorkMinute(v) = 1020
          <6>1. SessionIndex(v) = i + 1 /\ NewYorkDay(v) = i + 1
            BY <4>8, <5>1
          <6>2. WeekdayOfDays(i + 1) \in 0..6
            BY <4>2 DEF WeekdayOfDays
          <6>3. \A D : ClosesOn(D, moment') <=> WeekdayOfDays(i + 1) \in D
            BY <4>9, <5>1, <6>1
          <6>4. /\ ChargedAt(moment') \in Nat /\ WeekendAt(moment') \in Nat
                /\ ChargedAt(moment') + WeekendAt(moment') =
                     IF WeekdayOfDays(i + 1) = 3 THEN 3 ELSE 1
            BY <6>2, <6>3 DEF ChargedAt, WeekendAt
          <6> QED BY <4>2, <4>6, <4>7, <5>0, <6>1, <6>4
        <5>2. CASE NewYorkMinute(v) # 1020
          <6>1. ChargedAt(moment') = 0 /\ WeekendAt(moment') = 0
            BY <4>9, <5>2 DEF ChargedAt, WeekendAt
          <6>2. SessionIndex(v) = i /\ charged' = charged /\ weekends' = weekends
            BY <4>2, <4>7, <4>8, <5>0, <5>2, <6>1
          <6> QED BY <4>2, <4>6, <5>0, <6>2
        <5> QED BY <5>1, <5>2
      <4>11. entered' = entered /\ moment' \in Nat \ {0} /\ entered <= moment'
             /\ Utc(entered') = Utc(entered) /\ Utc(moment') = v
        BY <3>1 DEF NightsInv, v
      <4> QED BY <3>3, <4>2, <4>10, <4>11 DEF NightsInv, first
    <3> QED BY <3>2, <3>3
  <2>3. CASE UNCHANGED nightVars
    BY <2>3 DEF nightVars, NightsInv
  <2> QED BY <2>1, <2>2, <2>3 DEF NightsNext
<1>3. NightsInv => NightsAreCounted
  BY DEF NightsInv, NightsAreCounted
<1> QED BY <1>1, <1>2, <1>3, PTL DEF NightsSpec

-----------------------------------------------------------------------------
(* The wall clock falls back over 06:00 UTC of a Sunday, and there alone.     *)
LEMMA FallsBack ==
  ASSUME NEW u \in Nat, NEW v \in Nat, u <= v, NewYorkIsDst(u), ~NewYorkIsDst(v)
  PROVE  \E a \in Int : u < a * 1440 + 360 /\ a * 1440 + 360 <= v
<1>1. PICK p, s, a : DaylightIn(u, p, s, a)
  BY Daylight
<1>2. PICK q, t, b : DaylightIn(v, q, t, b)
  BY Daylight
<1>3. /\ p \in Int /\ s \in Int /\ a \in Int /\ p + 1 \in Int
      /\ MarchFirst(p) \in Int /\ MarchFirst(p + 1) \in Int
      /\ a <= MarchFirst(p) + 251 /\ MarchFirst(p) * 1440 <= u
      /\ u < MarchFirst(p + 1) * 1440 /\ s * 1440 + 420 <= u /\ u < a * 1440 + 360
  BY <1>1, CivilDates DEF DaylightIn
<1>4. /\ q \in Int /\ q + 1 \in Int /\ MarchFirst(q) \in Int /\ MarchFirst(q + 1) \in Int
      /\ MarchFirst(q) * 1440 <= v /\ v < MarchFirst(q + 1) * 1440
  BY <1>2, CivilDates DEF DaylightIn
<1>5. CASE p = q
  <2>1. ~(s * 1440 + 420 <= v /\ v < a * 1440 + 360)
    BY <1>1, <1>2, <1>5 DEF DaylightIn
  <2> QED BY <1>3, <2>1
<1>6. CASE p < q
  <2>1. MarchFirst(p + 1) <= MarchFirst(q) /\ MarchFirst(p) + 365 <= MarchFirst(p + 1)
    BY <1>3, <1>4, <1>6, MarchGrows, MarchSteps
  <2> QED BY <1>3, <1>4, <2>1
<1>7. CASE q < p
  <2>1. MarchFirst(q + 1) <= MarchFirst(p)
    BY <1>3, <1>4, <1>7, MarchGrows
  <2> QED BY <1>3, <1>4, <2>1
<1> QED BY <1>3, <1>4, <1>5, <1>6, <1>7

(* Days and sessions never go back, and within a day the wall does not either *)
(* once it has shown 02:00.                                                   *)
GoesOn(u, v) ==
  /\ NewYorkDay(u) \in Int /\ NewYorkMinute(u) \in Int /\ SessionIndex(u) \in Int
  /\ NewYorkDay(v) \in Int /\ NewYorkMinute(v) \in Int /\ SessionIndex(v) \in Int
  /\ NewYorkDay(u) <= NewYorkDay(v) /\ SessionIndex(u) <= SessionIndex(v)
  /\ NewYorkDay(u) = NewYorkDay(v) /\ NewYorkMinute(u) >= 2 * Hour =>
       NewYorkMinute(u) <= NewYorkMinute(v)

LEMMA ClockGoesOn ==
  ASSUME NEW u \in Nat, NEW v \in Nat, u <= v
  PROVE  GoesOn(u, v)
<1> DEFINE x == u + NewYorkOffset(u)  y == v + NewYorkOffset(v)
<1>1. /\ NewYorkOffset(u) = (IF NewYorkIsDst(u) THEN -240 ELSE -300)
      /\ NewYorkOffset(v) = (IF NewYorkIsDst(v) THEN -240 ELSE -300)
  BY DEF NewYorkOffset, Hour
<1>2. x \in Int /\ y \in Int
  BY <1>1
<1>8. /\ SessionIndex(u) = (u + NewYorkOffset(u) - 1020) \div 1440
      /\ SessionIndex(v) = (v + NewYorkOffset(v) - 1020) \div 1440
      /\ NewYorkMinute(u) = (u + NewYorkOffset(u)) % 1440
      /\ NewYorkMinute(v) = (v + NewYorkOffset(v)) % 1440
      /\ NewYorkDay(u) = (u + NewYorkOffset(u)) \div 1440
      /\ NewYorkDay(v) = (v + NewYorkOffset(v)) \div 1440
  BY DEF SessionIndex, NewYorkMinute, NewYorkDay, DayMinutes, Hour
<1>3. /\ NewYorkDay(u) = x \div 1440 /\ NewYorkDay(v) = y \div 1440
      /\ NewYorkMinute(u) = x % 1440 /\ NewYorkMinute(v) = y % 1440
      /\ SessionIndex(u) = (x - 1020) \div 1440 /\ SessionIndex(v) = (y - 1020) \div 1440
  <2>1. /\ NewYorkOffset(u) \in Int /\ NewYorkOffset(v) \in Int
    BY <1>1
  <2>2. /\ u + NewYorkOffset(u) - 1020 = x - 1020 /\ v + NewYorkOffset(v) - 1020 = y - 1020
    <3> HIDE DEF x, y
    <3>1. \A f, g \in Int : f + g - 1020 = (f + g) - 1020
      OBVIOUS
    <3> QED BY <2>1, <3>1 DEF x, y
  <2> QED BY <1>8, <2>2
<1>4. x <= y \/ \E a \in Int : x < a * 1440 + 120 /\ a * 1440 + 60 <= y
  <2>1. CASE NewYorkIsDst(u) /\ ~NewYorkIsDst(v)
    <3>1. PICK a \in Int : u < a * 1440 + 360 /\ a * 1440 + 360 <= v
      BY <2>1, FallsBack
    <3>2. x = u - 240 /\ y = v - 300
      BY <1>1, <2>1
    <3> HIDE DEF x, y
    <3> QED BY <3>1, <3>2
  <2>2. CASE ~(NewYorkIsDst(u) /\ ~NewYorkIsDst(v))
    BY <1>1, <2>2
  <2> QED BY <2>1, <2>2
<1> HIDE DEF x, y
<1>5. \A w \in Int : /\ w \div 1440 \in Int /\ w % 1440 \in Int /\ (w - 1020) \div 1440 \in Int
                     /\ w = 1440 * (w \div 1440) + (w % 1440) /\ 0 <= w % 1440 /\ w % 1440 < 1440
  OBVIOUS
<1>6. CASE x <= y
  <2>1. x \div 1440 <= y \div 1440 /\ (x - 1020) \div 1440 <= (y - 1020) \div 1440
    BY <1>2, <1>6
  <2>2. x \div 1440 = y \div 1440 => x % 1440 <= y % 1440
    BY <1>2, <1>5, <1>6
  <2> QED BY <1>2, <1>3, <1>5, <2>1, <2>2 DEF GoesOn
<1>7. ASSUME NEW a \in Int, x < a * 1440 + 120, a * 1440 + 60 <= y
      PROVE  GoesOn(u, v)
  <2>1. x \div 1440 <= a /\ a <= y \div 1440
    BY <1>2, <1>7
  <2>2. (x - 1020) \div 1440 <= a - 1 /\ a - 1 <= (y - 1020) \div 1440
    BY <1>2, <1>7
  <2>3. x \div 1440 = y \div 1440 => x % 1440 < 120
    BY <1>2, <1>5, <1>7, <2>1
  <2>4. 2 * Hour = 120
    BY DEF Hour
  <2> QED BY <1>2, <1>3, <1>5, <2>1, <2>2, <2>3, <2>4 DEF GoesOn
<1> QED BY <1>4, <1>6, <1>7

-----------------------------------------------------------------------------
(* Calendar of bars in order: bar k is not before bar j.                      *)
Later(times, j, k) ==
  /\ times[j].day \in Int /\ times[j].minute \in Int /\ times[j].session \in Int
  /\ times[k].day \in Int /\ times[k].minute \in Int /\ times[k].session \in Int
  /\ times[j].day <= times[k].day /\ times[j].session <= times[k].session
  /\ times[j].day = times[k].day /\ times[j].minute >= 2 * Hour =>
       times[j].minute <= times[k].minute

(* One rule asked while flat on two bars of one tape, d after c.              *)
Twice(c, d) ==
  /\ d.bars = c.bars /\ d.local = c.local /\ d.p = c.p
  /\ Flat(c) /\ Flat(d)
  /\ c.i \in Nat /\ d.i \in Nat /\ 1 <= c.i /\ c.i < d.i
  /\ \A j, k \in 1..d.i : j <= k => Later(c.local, j, k)
SameDay(c, d) == DayOf(c, c.i) = DayOf(d, d.i)
Enters(intent) == intent \notin {Nothing, ToExit}

(* Between two bars of a day every bar is of that day.                        *)
LEMMA BetweenADay ==
  ASSUME NEW c, NEW d, Twice(c, d), SameDay(c, d)
  PROVE  /\ \A k \in c.i..d.i : DayOf(c, k) = DayOf(c, c.i) /\ DayOf(d, k) = DayOf(d, d.i)
         /\ \A k \in c.i..d.i : Later(c.local, c.i, k) /\ Later(c.local, k, d.i)
<1>1. \A k \in c.i..d.i : Later(c.local, c.i, k) /\ Later(c.local, k, d.i)
  BY DEF Twice
<1>2. d.local = c.local /\ c.local[c.i].day = c.local[d.i].day
  BY DEF Twice, SameDay, DayOf
<1>3. ASSUME NEW k \in c.i..d.i PROVE c.local[k].day = c.local[c.i].day
  <2>1. Later(c.local, c.i, k) /\ Later(c.local, k, d.i)
    BY <1>1, <1>3
  <2> QED BY <1>2, <2>1 DEF Later
<1> QED BY <1>1, <1>2, <1>3 DEF DayOf

(* The bar before the later one is then of that day too, and not the earlier  *)
(* of the two minutes.                                                        *)
LEMMA BarBefore ==
  ASSUME NEW c, NEW d, Twice(c, d), SameDay(c, d), MinuteOf(c, c.i) >= 2 * Hour
  PROVE  /\ HasPrev(d) /\ d.i - 1 \in c.i..d.i
         /\ DayOf(d, d.i - 1) = DayOf(d, d.i)
         /\ MinuteOf(c, c.i) \in Int /\ MinuteOf(d, d.i - 1) \in Int /\ MinuteOf(d, d.i) \in Int
         /\ MinuteOf(c, c.i) <= MinuteOf(d, d.i - 1)
         /\ MinuteOf(d, d.i - 1) <= MinuteOf(d, d.i)
<1>1. HasPrev(d) /\ d.i - 1 \in c.i..d.i /\ d.local = c.local
  BY DEF Twice, HasPrev
<1>2. /\ Later(c.local, c.i, d.i - 1) /\ Later(c.local, d.i - 1, d.i)
      /\ DayOf(d, d.i - 1) = DayOf(d, d.i) /\ DayOf(c, d.i - 1) = DayOf(c, c.i)
  BY <1>1, BetweenADay
<1>3. MinuteOf(c, c.i) <= MinuteOf(d, d.i - 1) /\ MinuteOf(d, d.i - 1) \in Int
  BY <1>1, <1>2 DEF Later, DayOf, MinuteOf
<1>4. MinuteOf(c, c.i) \in Int /\ MinuteOf(d, d.i) \in Int /\ 2 * Hour \in Int
  BY <1>1, <1>2 DEF Later, MinuteOf, Hour
<1>5. MinuteOf(d, d.i - 1) >= 2 * Hour
  BY <1>3, <1>4
<1>6. MinuteOf(d, d.i - 1) <= MinuteOf(d, d.i)
  BY <1>1, <1>2, <1>5 DEF Later, DayOf, MinuteOf
<1> QED BY <1>1, <1>2, <1>3, <1>4, <1>6

-----------------------------------------------------------------------------
(* The range is closed when the first break comes, and the same for every     *)
(* later bar of the day, which therefore finds that break (orb.rs).           *)
LEMMA OrbOnce ==
  ASSUME NEW c, NEW d, Twice(c, d), Enters(Orb(c)), Enters(Orb(d)),
         ShownOnce(Hhmm(c.p.rangeStart) + c.p.rangeMinutes)
  PROVE  ~SameDay(c, d)
<1> SUFFICES ASSUME SameDay(c, d) PROVE FALSE
  OBVIOUS
<1> DEFINE start == Hhmm(c.p.rangeStart)
           end == start + c.p.rangeMinutes
           until == Hhmm(c.p.entryUntil)
           In(e, j, from, to) == MinuteOf(e, j) >= from /\ MinuteOf(e, j) < to
           range(e) == {j \in Today(e) : In(e, j, start, end)}
           high(e) == HighOf(e, range(e))
           low(e) == LowOf(e, range(e))
           broken(e) == {j \in Today(e) \ {e.i} : In(e, j, end, until) /\ Broke(e, j, high(e), low(e)) # Nothing}
<1>1. /\ d.bars = c.bars /\ d.local = c.local /\ d.p = c.p /\ c.i \in 1..d.i /\ c.i # d.i
      /\ c.i \in Nat /\ d.i \in Nat
  BY DEF Twice
<1>2. In(c, c.i, end, until) /\ Broke(c, c.i, high(c), low(c)) # Nothing
  BY DEF Orb, Enters
<1>3. broken(d) = {}
  BY <1>1 DEF Orb, Enters
<1>4. range(d) = range(c)
  <2>0. end \in Int /\ end >= 2 * Hour
    BY DEF ShownOnce
  <2> HIDE DEF end
  <2>1. ASSUME NEW j PROVE j \in range(c) <=> j \in range(d)
    <3>1. CASE j \in 1..c.i
      <4>1. DayOf(c, j) = DayOf(d, j) /\ MinuteOf(c, j) = MinuteOf(d, j) /\ j \in 1..d.i
        BY <1>1, <3>1 DEF DayOf, MinuteOf
      <4> QED BY <1>1, <3>1, <4>1 DEF Today, SameDay
    <3>2. CASE j \in (c.i + 1)..d.i
      <4>1. j \in c.i..d.i
        BY <1>1, <3>2
      <4>2. Later(c.local, c.i, j) /\ DayOf(c, j) = DayOf(c, c.i)
        BY <4>1, BetweenADay
      <4>3. c.local[c.i].minute >= end /\ 2 * Hour \in Int
        BY <1>2 DEF MinuteOf, Hour
      <4>4. c.local[j].minute >= end
        BY <2>0, <4>2, <4>3 DEF Later, DayOf
      <4>5. ~(MinuteOf(d, j) < end)
        BY <1>1, <2>0, <4>2, <4>4 DEF Later, MinuteOf
      <4>6. j \notin 1..c.i
        BY <1>1, <3>2
      <4> QED BY <4>5, <4>6 DEF Today
    <3>3. CASE j \notin 1..d.i
      <4>1. j \notin 1..c.i
        BY <1>1, <3>3
      <4> QED BY <3>3, <4>1 DEF Today
    <3> QED BY <1>1, <3>1, <3>2, <3>3
  <2> QED BY <2>1
<1>5. high(d) = high(c) /\ low(d) = low(c)
  BY <1>1, <1>4 DEF HighOf, LowOf
<1>6. c.i \in broken(d)
  <2> HIDE DEF high, low
  <2>1. Broke(d, c.i, high(d), low(d)) # Nothing
    BY <1>1, <1>2, <1>5 DEF Broke
  <2>2. In(d, c.i, end, until)
    BY <1>1, <1>2 DEF MinuteOf
  <2>3. c.i \in Today(d) \ {d.i}
    BY <1>1 DEF Today, SameDay, DayOf
  <2> QED BY <2>1, <2>2, <2>3
<1> QED BY <1>3, <1>6

(* A window that does not wrap over midnight is entered once a day: from its  *)
(* first bar on, the bar before is inside too (session_hold.rs).              *)
LEMMA WindowOnce ==
  ASSUME NEW c, NEW d, Twice(c, d), SameDay(c, d), NEW from \in Int, NEW to \in Int,
         2 * Hour <= from, from <= to,
         InWindow(MinuteOf(c, c.i), from, to), InWindow(MinuteOf(d, d.i), from, to)
  PROVE  /\ HasPrev(d) /\ DayOf(d, d.i - 1) = DayOf(d, d.i)
         /\ InWindow(MinuteOf(d, d.i - 1), from, to)
<1>1. 2 * Hour \in Int /\ MinuteOf(c, c.i) >= from /\ MinuteOf(d, d.i) < to
  BY DEF InWindow, Hour
<1>2. MinuteOf(c, c.i) \in Int
  BY DEF Twice, Later, MinuteOf
<1>3. MinuteOf(c, c.i) >= 2 * Hour
  BY <1>1, <1>2
<1>4. /\ HasPrev(d) /\ DayOf(d, d.i - 1) = DayOf(d, d.i)
      /\ MinuteOf(d, d.i - 1) \in Int /\ MinuteOf(d, d.i) \in Int
      /\ MinuteOf(c, c.i) <= MinuteOf(d, d.i - 1) /\ MinuteOf(d, d.i - 1) <= MinuteOf(d, d.i)
  BY <1>3, BarBefore
<1> QED BY <1>1, <1>2, <1>4 DEF InWindow

LEMMA SessionHoldOnce ==
  ASSUME NEW c, NEW d, Twice(c, d), Enters(SessionHold(c)), Enters(SessionHold(d)),
         ShownOnce(Hhmm(c.p.from)), Hhmm(c.p.to) \in Int, Hhmm(c.p.from) <= Hhmm(c.p.to)
  PROVE  ~SameDay(c, d)
<1> SUFFICES ASSUME SameDay(c, d) PROVE FALSE
  OBVIOUS
<1> DEFINE from == Hhmm(c.p.from)  to == Hhmm(c.p.to)
<1>1. d.p = c.p /\ Flat(c) /\ Flat(d)
  BY DEF Twice
<1>2. InWindow(MinuteOf(c, c.i), from, to) /\ InWindow(MinuteOf(d, d.i), from, to)
  BY <1>1 DEF SessionHold, Enters
<1>3. ~(HasPrev(d) /\ InWindow(MinuteOf(d, d.i - 1), from, to))
  BY <1>1, <1>2 DEF SessionHold, Enters
<1>4. from \in Int /\ to \in Int /\ 2 * Hour <= from /\ from <= to
  BY DEF ShownOnce, Hour
<1> HIDE DEF from, to
<1>5. HasPrev(d) /\ InWindow(MinuteOf(d, d.i - 1), from, to)
  BY <1>2, <1>4, WindowOnce
<1> QED BY <1>3, <1>5

LEMMA IntradayMomentumOnce ==
  ASSUME NEW c, NEW d, Twice(c, d), Enters(IntradayMomentum(c)), Enters(IntradayMomentum(d)),
         ShownOnce(Hhmm(c.p.from)), Hhmm(c.p.to) \in Int, Hhmm(c.p.from) <= Hhmm(c.p.to)
  PROVE  ~SameDay(c, d)
<1> SUFFICES ASSUME SameDay(c, d) PROVE FALSE
  OBVIOUS
<1> DEFINE from == Hhmm(c.p.from)  to == Hhmm(c.p.to)
<1>1. d.p = c.p /\ Flat(c) /\ Flat(d)
  BY DEF Twice
<1>2. InWindow(MinuteOf(c, c.i), from, to) /\ InWindow(MinuteOf(d, d.i), from, to)
  BY <1>1 DEF IntradayMomentum, Enters
<1>3. ~(/\ HasPrev(d) /\ DayOf(d, d.i - 1) = DayOf(d, d.i)
        /\ InWindow(MinuteOf(d, d.i - 1), from, to))
  BY <1>1, <1>2 DEF IntradayMomentum, Enters
<1>4. from \in Int /\ to \in Int /\ 2 * Hour <= from /\ from <= to
  BY DEF ShownOnce, Hour
<1> HIDE DEF from, to
<1>5. /\ HasPrev(d) /\ DayOf(d, d.i - 1) = DayOf(d, d.i)
      /\ InWindow(MinuteOf(d, d.i - 1), from, to)
  BY <1>2, <1>4, WindowOnce
<1> QED BY <1>3, <1>5

(* The first bar at or after a minute of the day is one bar (tsmom.rs).       *)
LEMMA TsmomOnce ==
  ASSUME NEW c, NEW d, Twice(c, d), Enters(Tsmom(c)), Enters(Tsmom(d)),
         ShownOnce(Hhmm(c.p.rebalance))
  PROVE  ~SameDay(c, d)
<1> SUFFICES ASSUME SameDay(c, d) PROVE FALSE
  OBVIOUS
<1> DEFINE rebalance == Hhmm(c.p.rebalance)
<1>1. d.p = c.p
  BY DEF Twice
<1>2. MinuteOf(c, c.i) >= rebalance
  BY DEF Tsmom, Enters
<1>3. HasPrev(d) => \/ DayOf(d, d.i - 1) # DayOf(d, d.i)
                    \/ MinuteOf(d, d.i - 1) < rebalance
  BY <1>1 DEF Tsmom, Enters
<1>4. MinuteOf(c, c.i) \in Int /\ 2 * Hour \in Int
  BY DEF Twice, Later, MinuteOf, Hour
<1>5. MinuteOf(c, c.i) >= 2 * Hour
  BY <1>2, <1>4 DEF ShownOnce
<1> HIDE DEF rebalance
<1>6. /\ HasPrev(d) /\ DayOf(d, d.i - 1) = DayOf(d, d.i)
      /\ MinuteOf(d, d.i - 1) \in Int /\ MinuteOf(c, c.i) <= MinuteOf(d, d.i - 1)
  BY <1>5, BarBefore
<1> QED BY <1>2, <1>3, <1>4, <1>6 DEF ShownOnce, rebalance

(* A session's bars are one stretch of the tape, with one first bar           *)
(* (quiet_swing.rs).                                                          *)
LEMMA QuietSwingOnce ==
  ASSUME NEW c, NEW d, Twice(c, d), Enters(QuietSwing(c)), Enters(QuietSwing(d))
  PROVE  SessionOf(c, c.i) # SessionOf(d, d.i)
<1> SUFFICES ASSUME SessionOf(c, c.i) = SessionOf(d, d.i) PROVE FALSE
  OBVIOUS
<1>1. ~(HasPrev(d) /\ SessionOf(d, d.i - 1) = SessionOf(d, d.i))
  BY DEF QuietSwing, Enters
<1>2. /\ HasPrev(d) /\ d.local = c.local /\ c.i \in 1..d.i /\ d.i \in 1..d.i /\ d.i - 1 \in 1..d.i
      /\ c.i <= d.i - 1 /\ d.i - 1 <= d.i
  BY DEF Twice, HasPrev
<1>3. Later(c.local, c.i, d.i - 1) /\ Later(c.local, d.i - 1, d.i)
  BY <1>2 DEF Twice
<1>4. SessionOf(d, d.i - 1) = SessionOf(d, d.i)
  BY <1>2, <1>3 DEF Later, SessionOf
<1> QED BY <1>1, <1>2, <1>4

(* The last of some places of a tape.                                         *)
LEMMA LastPlace ==
  ASSUME NEW i \in Nat, NEW P, P \subseteq 1..i, P # {}
  PROVE  \E m \in P : \A j \in P : j <= m
<1>0. \A j \in P : j \in Int /\ i - j \in Nat
  OBVIOUS
<1> DEFINE T == {i - j : j \in P}
<1>1. T \subseteq Nat /\ T # {}
  BY <1>0
<1>2. PICK d \in T : \A e \in T : ~(<<e, d>> \in OpToRel(<, Nat))
  <2> HIDE DEF T
  <2> QED BY <1>1, NatLessThanWellFounded, WFMin
<1>3. \A e \in T : ~(e < d)
  <2> HIDE DEF T
  <2> QED BY <1>1, <1>2 DEF OpToRel
<1>4. PICK m \in P : d = i - m
  BY <1>2
<1>5. \A j \in P : ~(i - j < i - m)
  BY <1>3, <1>4
<1> HIDE DEF T
<1> QED BY <1>0, <1>5

(* Yesterday is the same for every bar of a day, and so is the level a side   *)
(* is taken at: the second bar to take it finds the first (pdhl.rs).          *)
LEMMA YesterdayStays ==
  ASSUME NEW c, NEW d, Twice(c, d), SameDay(c, d)
  PROVE  PreviousDay(d) = PreviousDay(c)
<1>1. /\ d.local = c.local /\ c.i \in 1..d.i /\ c.i \in Nat /\ d.i \in Nat /\ c.i < d.i
  BY DEF Twice
<1> DEFINE days(e) == {DayOf(e, j) : j \in 1..e.i} \ {DayOf(e, e.i)}
<1>2. \A k : DayOf(d, k) = DayOf(c, k)
  BY <1>1 DEF DayOf
<1>3. \A j \in 1..d.i : j \in 1..c.i \/ DayOf(c, j) = DayOf(c, c.i)
  <2>1. \A j \in 1..d.i : j \in 1..c.i \/ j \in c.i..d.i
    BY <1>1
  <2> QED BY <2>1, BetweenADay
<1>4. \A j \in 1..c.i : j \in 1..d.i
  BY <1>1
<1>5. DayOf(d, d.i) = DayOf(c, c.i)
  BY DEF SameDay
<1>6. days(d) = days(c)
  BY <1>2, <1>3, <1>4, <1>5
<1>7. ASSUME days(c) # {} PROVE PreviousDay(d) = PreviousDay(c)
  <2>1. PICK y : y = Max(days(c))
    OBVIOUS
  <2>2. y \in days(c)
    <3> DEFINE P == {j \in 1..c.i : DayOf(c, j) # DayOf(c, c.i)}
    <3>1. P \subseteq 1..c.i /\ P # {}
      BY <1>7
    <3> HIDE DEF P
    <3>2. PICK m \in P : \A j \in P : j <= m
      BY <1>1, <3>1, LastPlace
    <3>3. \A j \in P : DayOf(c, j) <= DayOf(c, m)
      <4>1. \A j \in P : j \in 1..d.i
        BY <1>4, <3>1
      <4>2. \A j \in P : Later(c.local, j, m)
        BY <3>2, <4>1 DEF Twice
      <4> QED BY <4>2 DEF Later, DayOf
    <3>4. DayOf(c, m) \in days(c) /\ \A x \in days(c) : x <= DayOf(c, m)
      BY <3>3 DEF P
    <3>5. \A x \in days(c) : x \in Int
      BY <1>1, <1>4 DEF Twice, Later, DayOf
    <3> HIDE DEF days
    <3>6. \A x \in days(c) : DayOf(c, m) >= x
      BY <3>4, <3>5
    <3> QED BY <2>1, <3>4, <3>6, Zenon DEF Max
  <2>3. PreviousDay(c) = {j \in 1..c.i : DayOf(c, j) = y}
    BY <1>7, <2>1 DEF PreviousDay
  <2>4. PreviousDay(d) = {j \in 1..d.i : DayOf(d, j) = y}
    BY <1>6, <1>7, <2>1 DEF PreviousDay
  <2>5. y # DayOf(c, c.i)
    BY <2>2
  <2> QED BY <1>2, <1>3, <1>4, <2>3, <2>4, <2>5
<1> QED BY <1>6, <1>7 DEF PreviousDay

LEMMA PdhlOnce ==
  ASSUME NEW c, NEW d, Twice(c, d), Enters(Pdhl(c)), Enters(Pdhl(d)), SameDay(c, d)
  PROVE  Pdhl(c).side # Pdhl(d).side
<1> DEFINE pdh(e) == HighOf(e, PreviousDay(e))
           pdl(e) == LowOf(e, PreviousDay(e))
           At(side, level, stop) == [side |-> side, level |-> level, stop |-> stop]
           Signal(e, b) ==
             IF e.p.fade
             THEN Either(b.high > pdh(e) /\ b.close < pdh(e), At("Short", pdh(e), b.high + e.p.buffer),
                         b.low < pdl(e) /\ b.close > pdl(e), At("Long", pdl(e), b.low - e.p.buffer))
             ELSE Either(b.close > pdh(e), At("Long", pdh(e), pdh(e) - e.p.buffer),
                         b.close < pdl(e), At("Short", pdl(e), pdl(e) + e.p.buffer))
           Level(e, side) == IF e.p.fade <=> side = "Long" THEN pdl(e) ELSE pdh(e)
<1>1. /\ d.bars = c.bars /\ d.p = c.p /\ d.local = c.local /\ c.i \in 1..d.i /\ c.i # d.i
  BY DEF Twice
<1>2. pdh(d) = pdh(c) /\ pdl(d) = pdl(c)
  BY <1>1, YesterdayStays DEF HighOf, LowOf
<1>3. \A b : Signal(d, b) = Signal(c, b)
  BY <1>1, <1>2
<1> HIDE DEF pdh, pdl
<1>4. \A e, b : Signal(e, b) # Nothing => Signal(e, b).level = Level(e, Signal(e, b).side)
  BY DEF Either
<1> HIDE DEF Signal
<1>5. /\ Signal(c, Bar(c)) # Nothing /\ Pdhl(c).side = Signal(c, Bar(c)).side
  BY DEF Pdhl, Enters, Signal, pdh, pdl, EnterFor, ToEnter
<1>6. /\ Signal(d, Bar(d)) # Nothing /\ Pdhl(d).side = Signal(d, Bar(d)).side
      /\ ~\E j \in Today(d) \ {d.i} :
            LET s == Signal(d, d.bars[j]) IN IF s = Nothing THEN FALSE ELSE s.level = Signal(d, Bar(d)).level
  BY DEF Pdhl, Enters, Signal, pdh, pdl, EnterFor, ToEnter
<1>7. c.i \in Today(d) \ {d.i}
  BY <1>1 DEF Today, SameDay, DayOf
<1>8. Signal(d, d.bars[c.i]) = Signal(c, Bar(c))
  BY <1>1, <1>3 DEF Bar
<1>9. Signal(c, Bar(c)).level # Signal(d, Bar(d)).level
  BY <1>5, <1>6, <1>7, <1>8
<1> QED BY <1>1, <1>2, <1>4, <1>5, <1>6, <1>9

-----------------------------------------------------------------------------
(* The tape is in order, its calendar is read off it, and what is said is     *)
(* what the rule answers when it is asked on each bar of this very tape.      *)
SignalsInv ==
  /\ rule \in Rules
  /\ \E T : tape \in Seq(T)
  /\ Len(tape) >= 2 /\ local = LocalTimes(tape)
  /\ \A j \in DOMAIN tape : tape[j].time \in Nat
  /\ \A j, k \in DOMAIN tape : j < k => tape[j].time < tape[k].time
  /\ Len(Opening) \in Nat /\ Len(Opening) >= 2
  /\ \/ said.own = << >>
     \/ \E warmup : said.own = [i \in Watched(tape) |-> AskedOn(tape, local, series, warmup, i)]

(* The step of a tape in order is that of its first two bars.                 *)
LEMMA StepForward ==
  ASSUME NEW bars, InOrder(bars)
  PROVE  BarStep(bars) \in Nat \ {0}
<1> DEFINE steps == {i \in 2..Len(bars) : bars[i].time > bars[i - 1].time}
<1>1. Len(bars) \in Nat /\ DOMAIN bars = 1..Len(bars) /\ Len(bars) >= 2
  BY DEF InOrder
<1>2. \A i \in 2..Len(bars) : /\ i \in Int /\ i >= 2
                              /\ bars[i].time \in Nat /\ bars[i - 1].time \in Nat
                              /\ bars[i - 1].time < bars[i].time
  <2>1. \A i \in 2..Len(bars) : i \in 1..Len(bars) /\ i - 1 \in 1..Len(bars) /\ i - 1 < i
    BY <1>1
  <2> QED BY <1>1, <2>1 DEF InOrder
<1>3. 2 \in steps /\ \A i \in steps : 2 <= i
  BY <1>1, <1>2
<1>4. PICK m : m = Min(steps)
  OBVIOUS
<1>5. m \in steps
  <2> HIDE DEF steps
  <2> QED BY <1>3, <1>4, Zenon DEF Min
<1>6. steps # {} /\ m \in 2..Len(bars)
  BY <1>5
<1>7. BarStep(bars) = bars[m].time - bars[m - 1].time
  BY <1>4, <1>6 DEF BarStep
<1> QED BY <1>2, <1>6, <1>7

(* The calendar of a tape in order never goes back.                           *)
LEMMA CalendarGoesOn ==
  ASSUME NEW bars, NEW n \in Nat, DOMAIN bars = 1..n,
         \A j \in 1..n : bars[j].time \in Nat,
         \A j, k \in 1..n : j < k => bars[j].time < bars[k].time
  PROVE  \A j, k \in 1..n : j <= k => Later(LocalTimes(bars), j, k)
<1> SUFFICES ASSUME NEW j \in 1..n, NEW k \in 1..n, j <= k
             PROVE  Later(LocalTimes(bars), j, k)
  OBVIOUS
<1>1. bars[j].time \in Nat /\ bars[k].time \in Nat /\ bars[j].time <= bars[k].time
  <2>1. CASE j = k
    BY <2>1
  <2>2. CASE j < k
    BY <2>2
  <2> QED BY <2>1, <2>2
<1>2. GoesOn(bars[j].time, bars[k].time)
  BY <1>1, ClockGoesOn
<1>3. /\ LocalTimes(bars)[j] = [day |-> NewYorkDay(bars[j].time), minute |-> NewYorkMinute(bars[j].time),
                                session |-> SessionIndex(bars[j].time)]
      /\ LocalTimes(bars)[k] = [day |-> NewYorkDay(bars[k].time), minute |-> NewYorkMinute(bars[k].time),
                                session |-> SessionIndex(bars[k].time)]
  BY DEF LocalTimes
<1> QED BY <1>2, <1>3 DEF Later, GoesOn

LEMMA SignalsBegin == ASSUME OfOneDay PROVE SignalsInit => SignalsInv
<1> SUFFICES ASSUME SignalsInit PROVE SignalsInv
  OBVIOUS
<1>1. rule \in Rules /\ tape = Opening /\ local = LocalTimes(tape) /\ said.own = << >>
  BY DEF SignalsInit
<1>2. InOrder(tape)
  BY <1>1 DEF OfOneDay, Opening
<1>3. /\ \E T : tape \in Seq(T)
      /\ Len(tape) >= 2 /\ Len(tape) \in Nat
      /\ \A j \in DOMAIN tape : tape[j].time \in Nat
      /\ \A j, k \in DOMAIN tape : j < k => tape[j].time < tape[k].time
  BY <1>2 DEF InOrder
<1> QED BY <1>1, <1>3 DEF SignalsInv

LEMMA SignalsStep == ASSUME OfOneDay PROVE SignalsInv /\ [SignalsNext]_signalVars => SignalsInv'
<1> SUFFICES ASSUME SignalsInv, [SignalsNext]_signalVars PROVE SignalsInv'
  OBVIOUS
<1>1. ASSUME NEW form \in Forms, BarCloses(form) PROVE SignalsInv'
  <2> DEFINE bar == Following(Last(tape), BarStep(Opening), form)  n == Len(tape)
  <2>1. rule' = rule /\ laid' = laid /\ tape' = Append(tape, bar) /\ local' = LocalTimes(tape')
    BY <1>1 DEF BarCloses
  <2>2. said'.own = [i \in Watched(tape') |->
                       AskedOn(tape', local', series', FilteredNeeds(Inner, laid).warmup, i)]
    BY <1>1 DEF BarCloses
  <2>3. PICK T : tape \in Seq(T)
    BY DEF SignalsInv
  <2>4. n \in Nat /\ n >= 2 /\ DOMAIN tape = 1..n
    BY <2>3 DEF SignalsInv
  <2>5. bar.time = tape[n].time + BarStep(Opening) * form.skip
    BY DEF Following, Last
  <2>6. BarStep(Opening) \in Nat \ {0} /\ form.skip \in Nat \ {0}
    BY StepForward DEF SignalsInv, OfOneDay, Opening
  <2>7. tape[n].time \in Nat /\ bar.time \in Nat /\ tape[n].time < bar.time
    <3>1. tape[n].time \in Nat
      BY <2>4 DEF SignalsInv
    <3>2. \A a, b \in Nat \ {0} : a * b \in Nat \ {0}
      OBVIOUS
    <3>3. BarStep(Opening) * form.skip \in Nat \ {0}
      BY <2>6, <3>2
    <3> HIDE DEF bar, n
    <3> QED BY <2>5, <3>1, <3>3
  <2> HIDE DEF bar, n
  <2>8. /\ tape' \in Seq(T \cup {bar}) /\ Len(tape') = n + 1 /\ DOMAIN tape' = 1..(n + 1)
        /\ \A j \in 1..n : tape'[j] = tape[j]
        /\ tape'[n + 1] = bar
    BY <2>1, <2>3, <2>4 DEF n
  <2>9. \A j \in 1..(n + 1) : tape'[j].time \in Nat
    <3>1. \A j \in 1..(n + 1) : j \in 1..n \/ j = n + 1
      BY <2>4
    <3> QED BY <2>4, <2>7, <2>8, <3>1 DEF SignalsInv
  <2>10. ASSUME NEW j \in 1..(n + 1), NEW k \in 1..(n + 1), j < k
         PROVE  tape'[j].time < tape'[k].time
    <3>1. j \in 1..n
      BY <2>4, <2>10
    <3>2. CASE k \in 1..n
      BY <2>4, <2>8, <2>10, <3>1, <3>2 DEF SignalsInv
    <3>3. CASE k = n + 1
      <4>1. tape[j].time \in Nat /\ tape[j].time <= tape[n].time
        <5>1. CASE j = n
          BY <2>7, <5>1
        <5>2. CASE j # n
          <6>1. j < n /\ n \in 1..n
            BY <2>4, <3>1, <5>2
          <6>2. tape[j].time \in Nat /\ tape[j].time < tape[n].time
            BY <2>4, <3>1, <6>1 DEF SignalsInv
          <6> QED BY <2>7, <6>2
        <5> QED BY <5>1, <5>2
      <4> QED BY <2>7, <2>8, <3>1, <3>3, <4>1
    <3> QED BY <2>4, <3>2, <3>3
  <2>11. Opening' = Opening /\ Watched(tape)' = Watched(tape')
    BY <2>1 DEF Opening, Watched
  <2>12. PICK w : w = FilteredNeeds(Inner, laid).warmup
    OBVIOUS
  <2>13. ASSUME NEW i PROVE AskedOn(tape', local', series', w, i) = AskedOn(tape, local, series, w, i)'
    BY <2>1, <2>11 DEF AskedOn, Context
  <2>14. said'.own = [i \in Watched(tape)' |-> AskedOn(tape, local, series, w, i)']
    BY <2>2, <2>11, <2>12, <2>13, Zenon
  <2>15. (\E warmup : said.own = [i \in Watched(tape) |-> AskedOn(tape, local, series, warmup, i)])'
    BY <2>14
  <2>16. rule' \in Rules /\ Len(Opening') \in Nat /\ Len(Opening') >= 2
    BY <2>1, <2>11 DEF SignalsInv
  <2>17. \E U : tape' \in Seq(U)
    BY <2>8
  <2>18. n + 1 >= 2
    BY <2>4
  <2> QED BY <2>1, <2>8, <2>9, <2>10, <2>15, <2>16, <2>17, <2>18 DEF SignalsInv
<1>2. ASSUME UNCHANGED signalVars PROVE SignalsInv'
  <2>1. /\ rule' = rule /\ tape' = tape /\ local' = local /\ series' = series /\ said' = said
        /\ Opening' = Opening
    BY <1>2 DEF signalVars, Opening
  <2>2. Watched(tape)' = Watched(tape)
    BY <2>1 DEF Watched
  <2>3. ASSUME NEW w, NEW i PROVE AskedOn(tape, local, series, w, i)' = AskedOn(tape, local, series, w, i)
    BY <2>1 DEF AskedOn, Context
  <2>4. ASSUME NEW w, said.own = [i \in Watched(tape) |-> AskedOn(tape, local, series, w, i)]
        PROVE  (\E warmup : said.own = [i \in Watched(tape) |-> AskedOn(tape, local, series, warmup, i)])'
    <3>1. [i \in Watched(tape) |-> AskedOn(tape, local, series, w, i)]
            = [i \in Watched(tape)' |-> AskedOn(tape, local, series, w, i)']
      BY <2>2, <2>3, Zenon
    <3>2. said'.own = said.own
      BY <2>1
    <3>3. said'.own = [i \in Watched(tape)' |-> AskedOn(tape, local, series, w, i)']
      BY <2>4, <3>1, <3>2, Zenon
    <3> QED BY <3>3
  <2>5. (\/ said.own = << >>
         \/ \E warmup : said.own = [i \in Watched(tape) |-> AskedOn(tape, local, series, warmup, i)])'
    BY <2>1, <2>4 DEF SignalsInv
  <2> QED BY <2>1, <2>5 DEF SignalsInv
<1> QED BY <1>1, <1>2 DEF SignalsNext

(* An entry said of a bar is the rule's own answer there, asked while flat.   *)
LEMMA EntryIsAnswer ==
  ASSUME SignalsInv, NEW i \in Entries
  PROVE  LET c == Context(tape, local, series, i, "None")
         IN  /\ said.own[i]["None"] = OnBar(rule, c) /\ Enters(OnBar(rule, c))
             /\ Flat(c) /\ c.i = i /\ c.bars = tape /\ c.local = local /\ c.p = ParamsOf[rule]
             /\ i \in Nat /\ 1 <= i /\ i <= Len(tape)
<1>1. i \in DOMAIN said.own /\ said.own[i]["None"] \notin {Nothing, ToExit}
  BY DEF Entries
<1>2. said.own # << >>
  BY <1>1
<1>3. PICK w : said.own = [k \in Watched(tape) |-> AskedOn(tape, local, series, w, k)]
  BY <1>2 DEF SignalsInv
<1>4. i \in Watched(tape) /\ said.own[i] = AskedOn(tape, local, series, w, i)
  BY <1>1, <1>3
<1>5. said.own[i]["None"] = OnBar(rule, Context(tape, local, series, i, "None"))
  <2>1. said.own[i]["None"] = IF i > w THEN OnBar(rule, Context(tape, local, series, i, "None")) ELSE Nothing
    BY <1>4 DEF AskedOn, Held
  <2> QED BY <1>1, <2>1
<1>6. i \in Nat /\ 1 <= i /\ i <= Len(tape)
  <2>1. Len(tape) \in Nat
    BY DEF SignalsInv
  <2> QED BY <1>4, <2>1 DEF Watched, SignalsInv
<1>7. LET c == Context(tape, local, series, i, "None")
      IN  Flat(c) /\ c.i = i /\ c.bars = tape /\ c.local = local /\ c.p = ParamsOf[rule]
  BY DEF Context, Flat
<1> QED BY <1>1, <1>5, <1>6, <1>7 DEF Enters

(* Two entries are two answers of one rule on one tape.                       *)
OneApart(i, j) ==
  /\ local[i].day = local[j].day =>
       /\ rule \notin OnceADay
       /\ rule = "pdhl" => said.own[i]["None"].side # said.own[j]["None"].side
  /\ rule = "quiet-swing" => local[i].session # local[j].session

LEMMA EntriesApart ==
  ASSUME OfOneDay, SignalsInv, NEW i \in Entries, NEW j \in Entries, i < j
  PROVE  OneApart(i, j)
<1> DEFINE c == Context(tape, local, series, i, "None")
           d == Context(tape, local, series, j, "None")
<1>1. /\ said.own[i]["None"] = OnBar(rule, c) /\ Enters(OnBar(rule, c))
      /\ Flat(c) /\ c.i = i /\ c.bars = tape /\ c.local = local /\ c.p = ParamsOf[rule]
      /\ i \in Nat /\ 1 <= i /\ i <= Len(tape)
  BY EntryIsAnswer
<1>2. /\ said.own[j]["None"] = OnBar(rule, d) /\ Enters(OnBar(rule, d))
      /\ Flat(d) /\ d.i = j /\ d.bars = tape /\ d.local = local /\ d.p = ParamsOf[rule]
      /\ j \in Nat /\ 1 <= j /\ j <= Len(tape)
  BY EntryIsAnswer
<1> HIDE DEF c, d
<1>3. \A m, n \in 1..j : m <= n => Later(local, m, n)
  <2>1. PICK T : tape \in Seq(T)
    BY DEF SignalsInv
  <2>2. PICK n : n = Len(tape)
    OBVIOUS
  <2>3. n \in Nat /\ DOMAIN tape = 1..n /\ j <= n
    BY <1>2, <2>1, <2>2
  <2>4. \A l, m \in 1..n : l <= m => Later(LocalTimes(tape), l, m)
    BY <2>3, CalendarGoesOn DEF SignalsInv
  <2>5. \A l \in 1..j : l \in 1..n
    BY <1>2, <2>3
  <2> QED BY <2>4, <2>5 DEF SignalsInv
<1>4. Twice(c, d)
  BY <1>1, <1>2, <1>3 DEF Twice
<1>5. HoursOfADay(rule, c.p)
  BY <1>1 DEF SignalsInv, OfOneDay
<1>6. SameDay(c, d) <=> local[i].day = local[j].day
  BY <1>1, <1>2 DEF SameDay, DayOf
<1>7. CASE rule = "orb"
  <2>1. OnBar(rule, c) = Orb(c) /\ OnBar(rule, d) = Orb(d)
    BY <1>7 DEF OnBar
  <2>2. ~SameDay(c, d)
    BY <1>1, <1>2, <1>4, <1>5, <1>7, <2>1, OrbOnce DEF HoursOfADay
  <2> QED BY <1>6, <1>7, <2>2 DEF OneApart
<1>8. CASE rule = "session-hold"
  <2>1. OnBar(rule, c) = SessionHold(c) /\ OnBar(rule, d) = SessionHold(d)
    BY <1>8 DEF OnBar
  <2>2. ~SameDay(c, d)
    BY <1>1, <1>2, <1>4, <1>5, <1>8, <2>1, SessionHoldOnce DEF HoursOfADay
  <2> QED BY <1>6, <1>8, <2>2 DEF OneApart
<1>9. CASE rule = "intraday-momentum"
  <2>1. OnBar(rule, c) = IntradayMomentum(c) /\ OnBar(rule, d) = IntradayMomentum(d)
    BY <1>9 DEF OnBar
  <2>2. ~SameDay(c, d)
    BY <1>1, <1>2, <1>4, <1>5, <1>9, <2>1, IntradayMomentumOnce DEF HoursOfADay
  <2> QED BY <1>6, <1>9, <2>2 DEF OneApart
<1>10. CASE rule = "tsmom"
  <2>1. OnBar(rule, c) = Tsmom(c) /\ OnBar(rule, d) = Tsmom(d)
    BY <1>10 DEF OnBar
  <2>2. ~SameDay(c, d)
    BY <1>1, <1>2, <1>4, <1>5, <1>10, <2>1, TsmomOnce DEF HoursOfADay
  <2> QED BY <1>6, <1>10, <2>2 DEF OneApart
<1>11. CASE rule = "pdhl"
  <2>1. OnBar(rule, c) = Pdhl(c) /\ OnBar(rule, d) = Pdhl(d)
    BY <1>11 DEF OnBar
  <2>2. SameDay(c, d) => Pdhl(c).side # Pdhl(d).side
    BY <1>1, <1>2, <1>4, <2>1, PdhlOnce
  <2> QED BY <1>1, <1>2, <1>6, <1>11, <2>1, <2>2 DEF OneApart, OnceADay
<1>12. CASE rule = "quiet-swing"
  <2>1. OnBar(rule, c) = QuietSwing(c) /\ OnBar(rule, d) = QuietSwing(d)
    BY <1>12 DEF OnBar
  <2>2. SessionOf(c, c.i) # SessionOf(d, d.i)
    BY <1>1, <1>2, <1>4, <2>1, QuietSwingOnce
  <2> QED BY <1>1, <1>2, <1>12, <2>2 DEF OneApart, OnceADay, SessionOf
<1> QED BY <1>7, <1>8, <1>9, <1>10, <1>11, <1>12 DEF OneApart, OnceADay

(* However long the tape grows and whatever bars follow it, a rule that takes *)
(* the first signal of its day enters on one bar of that day, yesterday's     *)
(* high and low are each taken once, and the quiet swing enters once a        *)
(* session (orb.rs, session_hold.rs, tsmom.rs, pdhl.rs, quiet_swing.rs).      *)
THEOREM EntersOnceADay ==
  ASSUME OfOneDay
  PROVE  SignalsSpec => []OneEntryADay
<1>1. SignalsInit => SignalsInv
  BY SignalsBegin
<1>2. SignalsInv /\ [SignalsNext]_signalVars => SignalsInv'
  BY SignalsStep
<1>3. SignalsInv => OneEntryADay
  <2> SUFFICES ASSUME SignalsInv, NEW i \in Entries, NEW j \in Entries, i # j
               PROVE  OneApart(i, j)
    BY DEF OneEntryADay, OneApart
  <2>1. i \in Nat /\ j \in Nat
    BY EntryIsAnswer
  <2>2. i < j => OneApart(i, j)
    BY EntriesApart
  <2>3. j < i => OneApart(j, i)
    BY EntriesApart
  <2>4. OneApart(j, i) => OneApart(i, j)
    BY DEF OneApart
  <2> QED BY <2>1, <2>2, <2>3, <2>4
<1> QED BY <1>1, <1>2, <1>3, PTL DEF SignalsSpec
=============================================================================
