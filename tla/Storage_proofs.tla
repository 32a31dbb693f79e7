---------------------------- MODULE Storage_proofs ---------------------------
(***************************************************************************)
(* That what the collectors of option prints have flushed is read again,   *)
(* that a day which backfill took is all of that day, that the polls of    *)
(* the gold feed miss nothing, and that a reader of a run's log gets its   *)
(* end: for every set of prints and every order of their times, every      *)
(* length of a day, a page, a line and a window, and every number of       *)
(* contracts, pair of windows that overlap and limit of a request.         *)
(***************************************************************************)
EXTENDS Collector, GoldPoll, EventLog, FiniteSetTheorems, TLAPS
-----------------------------------------------------------------------------
(* Sets in a line: the order in which a set is arranged. *)

(* upTo says of every member of a finite set what comes up to it in a line. *)
InLine(S, upTo) ==
  /\ IsFiniteSet(S) /\ upTo \in [S -> SUBSET S]
  /\ \A x \in S : x \in upTo[x]
  /\ \A x, y \in S : x \in upTo[y] \/ y \in upTo[x]
  /\ \A x, y \in S : x \in upTo[y] /\ y \in upTo[x] => x = y
  /\ \A x, y \in S : x \in upTo[y] => upTo[x] \subseteq upTo[y]

(* What comes up to a member is counted: every number once, up to that of the set. *)
LEMMA RanksAreOneEach ==
  ASSUME NEW S, NEW upTo, InLine(S, upTo)
  PROVE  /\ Cardinality(S) \in Nat
         /\ \A x, y \in S : x \in upTo[y] /\ x # y => Cardinality(upTo[x]) < Cardinality(upTo[y])
         /\ \A x \in S : Cardinality(upTo[x]) \in 1..Cardinality(S)
         /\ \A n \in 1..Cardinality(S) : \E x \in S : Cardinality(upTo[x]) = n
<1> USE DEF InLine
<1>1. \A x \in S : IsFiniteSet(upTo[x]) /\ Cardinality(upTo[x]) \in Nat
  BY FS_Subset, FS_CardinalityType
<1>2. Cardinality(S) \in Nat
  BY FS_CardinalityType
<1>3. ASSUME NEW x \in S, NEW y \in S, x \in upTo[y], x # y
      PROVE  Cardinality(upTo[x]) < Cardinality(upTo[y])
  <2>1. upTo[x] \in SUBSET upTo[y] /\ upTo[x] # upTo[y]
    BY <1>3
  <2>2. Cardinality(upTo[x]) <= Cardinality(upTo[y]) /\ Cardinality(upTo[x]) # Cardinality(upTo[y])
    BY <1>1, <2>1, FS_Subset
  <2> QED BY <1>1, <2>2
<1>4. ASSUME NEW x \in S PROVE Cardinality(upTo[x]) \in 1..Cardinality(S)
  <2>1. Cardinality(upTo[x]) <= Cardinality(S)
    BY FS_Subset
  <2>2. upTo[x] # {}
    OBVIOUS
  <2>3. Cardinality(upTo[x]) # 0
    BY <1>1, <2>2, FS_EmptySet
  <2> QED BY <1>1, <1>2, <2>1, <2>3
<1> DEFINE rank == [x \in S |-> Cardinality(upTo[x])]  T == 1..Cardinality(S)
<1>5. rank \in Injection(S, T)
  <2>1. rank \in [S -> T]
    BY <1>4
  <2>2. ASSUME NEW x \in S, NEW y \in S, x # y PROVE rank[x] # rank[y]
    <3>1. CASE x \in upTo[y]
      BY <1>1, <1>3, <2>2, <3>1
    <3>2. CASE y \in upTo[x]
      BY <1>1, <1>3, <2>2, <3>2
    <3> QED BY <3>1, <3>2
  <2> QED BY <2>1, <2>2 DEF Injection, IsInjective
<1>6. IsFiniteSet(T) /\ Cardinality(T) = Cardinality(S)
  BY <1>2, FS_Interval
<1>7. rank \in Surjection(S, T)
  BY <1>5, <1>6, FS_Injection
<1>8. \A n \in T : \E x \in S : rank[x] = n
  BY <1>7 DEF Surjection
<1> QED BY <1>2, <1>3, <1>4, <1>8

(* The members of S one after another, as they come in line. *)
Lines(s, S, upTo) ==
  /\ s \in [1..Cardinality(S) -> S]
  /\ \A x \in S : \E n \in 1..Cardinality(S) : s[n] = x
  /\ \A m, n \in 1..Cardinality(S) : m < n => s[m] # s[n] /\ s[m] \in upTo[s[n]]

(* So Arranged gives every member its place. *)
LEMMA ArrangedLines ==
  ASSUME NEW S, NEW upTo, InLine(S, upTo)
  PROVE  Cardinality(S) \in Nat /\ Lines(Arranged(S, upTo), S, upTo)
<1> DEFINE s == Arranged(S, upTo)  N == Cardinality(S)
<1>1. /\ N \in Nat
      /\ \A x, y \in S : x \in upTo[y] /\ x # y => Cardinality(upTo[x]) < Cardinality(upTo[y])
      /\ \A x \in S : Cardinality(upTo[x]) \in 1..N
      /\ \A n \in 1..N : \E x \in S : Cardinality(upTo[x]) = n
  BY RanksAreOneEach
<1>2. /\ DOMAIN s = 1..N
      /\ \A n \in 1..N : s[n] = CHOOSE x \in S : Cardinality(upTo[x]) = n
  BY DEF Arranged
<1>3. \A n \in 1..N : s[n] \in S /\ Cardinality(upTo[s[n]]) = n
  BY <1>1, <1>2, Zenon
<1>4. s = [n \in 1..N |-> s[n]]
  BY DEF Arranged
<1> HIDE DEF s, N
<1>5. \A x, y \in S : Cardinality(upTo[x]) = Cardinality(upTo[y]) => x = y
  BY <1>1 DEF InLine
<1>6. s \in [1..N -> S]
  BY <1>3, <1>4
<1>7. \A x \in S : s[Cardinality(upTo[x])] = x
  BY <1>1, <1>3, <1>5
<1>8. ASSUME NEW m \in 1..N, NEW n \in 1..N, m < n
      PROVE  s[m] # s[n] /\ s[m] \in upTo[s[n]]
  <2>1. s[m] \in S /\ s[n] \in S /\ Cardinality(upTo[s[m]]) = m /\ Cardinality(upTo[s[n]]) = n
    BY <1>3
  <2>2. s[m] # s[n]
    BY <1>1, <1>8, <2>1
  <2>3. s[n] \notin upTo[s[m]]
    <3>1. m \in Int /\ n \in Int
      BY <1>1
    <3> QED BY <1>1, <1>8, <2>1, <2>2, <3>1
  <2> QED BY <2>1, <2>2, <2>3 DEF InLine
<1> QED BY <1>1, <1>6, <1>7, <1>8 DEF Lines, s, N

-----------------------------------------------------------------------------
(* The prints of an append, sorted and split by day. *)

(* The numbers of S one after another, the least first. *)
Climbs(s, S) ==
  /\ s \in Seq(S) /\ DOMAIN s = 1..Cardinality(S) /\ RangeOf(s) = S
  /\ \A m, n \in DOMAIN s : m < n => s[m] < s[n]

(* A finite set of numbers is in line by its order. *)
LEMMA NumbersInLine ==
  ASSUME NEW S, S \subseteq Int, IsFiniteSet(S)
  PROVE  InLine(S, [i \in S |-> {j \in S : j <= i}])
<1> DEFINE upTo == [i \in S |-> {j \in S : j <= i}]
<1>1. \A i \in S : i \in Int
  OBVIOUS
<1>2. \A i \in S : upTo[i] = {j \in S : j <= i}
  OBVIOUS
<1>3. upTo \in [S -> SUBSET S]
  OBVIOUS
<1> HIDE DEF upTo
<1>4. \A x, y \in S : x \in upTo[y] <=> x <= y
  BY <1>2
<1>5. \A x, y \in S : x \in upTo[y] => upTo[x] \subseteq upTo[y]
  <2>1. \A x, y, z \in S : x <= y /\ z <= x => z <= y
    BY <1>1
  <2> QED BY <1>3, <1>4, <2>1
<1>6. \A x, y \in S : (x <= y \/ y <= x) /\ (x <= y /\ y <= x => x = y) /\ x <= x
  BY <1>1
<1> QED BY <1>3, <1>4, <1>5, <1>6 DEF InLine

(* Ascending sorts a finite set of numbers. *)
LEMMA AscendingIs ==
  ASSUME NEW S, S \subseteq Int, IsFiniteSet(S)
  PROVE  Cardinality(S) \in Nat /\ Climbs(Ascending(S), S)
<1> DEFINE upTo == [i \in S |-> {j \in S : j <= i}]  s == Ascending(S)
<1>1. InLine(S, upTo)
  BY NumbersInLine
<1>2. Cardinality(S) \in Nat /\ Lines(s, S, upTo)
  BY <1>1, ArrangedLines DEF Ascending
<1>3. \A m, n \in 1..Cardinality(S) : m < n => s[m] # s[n] /\ s[m] <= s[n]
  BY <1>2 DEF Lines
<1> HIDE DEF s
<1>4. s \in [1..Cardinality(S) -> S] /\ \A x \in S : \E n \in 1..Cardinality(S) : s[n] = x
  BY <1>2 DEF Lines
<1>5. RangeOf(s) = S
  BY <1>4 DEF RangeOf
<1>6. \A m, n \in 1..Cardinality(S) : m < n => s[m] < s[n]
  <2>1. \A m \in 1..Cardinality(S) : s[m] \in Int
    BY <1>4
  <2> QED BY <1>3, <2>1
<1>7. s \in Seq(S)
  BY <1>2, <1>4
<1>8. DOMAIN s = 1..Cardinality(S)
  BY <1>4
<1> QED BY <1>2, <1>5, <1>6, <1>7, <1>8 DEF Climbs, s

(* A sequence of prints in order of time, and every entry of it once. *)
SortedOf(s, prints) ==
  /\ s \in Seq(Prints) /\ Len(s) = Len(prints) /\ RangeOf(s) = RangeOf(prints)
  /\ \A m, n \in DOMAIN s : m < n => At[s[m]] <= At[s[n]]
  /\ (\A i, j \in DOMAIN prints : prints[i] = prints[j] => i = j) =>
       \A m, n \in DOMAIN s : s[m] = s[n] => m = n

(* ByTime loses nothing, adds nothing, and sorts (sort_by_key in append). *)
LEMMA ByTimeSorts ==
  ASSUME NEW prints \in Seq(Prints)
  PROVE  SortedOf(ByTime(prints), prints)
<1> DEFINE D == DOMAIN prints
           upTo == [i \in D |-> {j \in D :
                      \/ At[prints[j]] < At[prints[i]]
                      \/ At[prints[j]] = At[prints[i]] /\ j <= i}]
           order == Arranged(D, upTo)  s == ByTime(prints)
<1>0. PICK N \in Nat : N = Len(prints) /\ D = 1..N
  OBVIOUS
<1>1. \A i \in D : prints[i] \in Prints /\ At[prints[i]] \in Nat
  BY TapeAssumption
<1>2. IsFiniteSet(D) /\ Cardinality(D) = N
  <2>1. IsFiniteSet(1..N) /\ Cardinality(1..N) = IF 1 > N THEN 0 ELSE N - 1 + 1
    BY FS_Interval
  <2>2. Cardinality(1..N) = N
    BY <2>1
  <2> HIDE DEF D
  <2> QED BY <1>0, <2>1, <2>2
<1>3. s = [n \in D |-> prints[order[n]]]
  BY DEF ByTime
<1>4. InLine(D, upTo)
  <2>1. \A i \in D : upTo[i] = {j \in D :
                        \/ At[prints[j]] < At[prints[i]]
                        \/ At[prints[j]] = At[prints[i]] /\ j <= i}
    OBVIOUS
  <2>2. upTo \in [D -> SUBSET D] /\ \A i \in D : i \in Int
    BY <1>0
  <2> HIDE DEF upTo, D
  <2> DEFINE T(i) == At[prints[i]]
             Upto(j, i) == T(j) < T(i) \/ (T(j) = T(i) /\ j <= i)
  <2>3. \A x, y \in D : x \in upTo[y] <=> Upto(x, y)
    BY <2>1
  <2>4. \A x \in D : x \in Int /\ T(x) \in Int
    BY <1>1, <2>2
  <2> HIDE DEF T
  <2>5. \A x, y \in D : (Upto(x, y) \/ Upto(y, x)) /\ (Upto(x, y) /\ Upto(y, x) => x = y) /\ Upto(x, x)
    BY <2>4
  <2>6. \A x, y, z \in D : Upto(x, y) /\ Upto(z, x) => Upto(z, y)
    BY <2>4
  <2> HIDE DEF Upto
  <2>7. \A x, y \in D : x \in upTo[y] => upTo[x] \subseteq upTo[y]
    BY <2>2, <2>3, <2>6
  <2> QED BY <1>2, <2>2, <2>3, <2>5, <2>7 DEF InLine
<1>5. Lines(order, D, upTo)
  BY <1>4, ArrangedLines
<1>6. /\ order \in [1..N -> D] /\ \A i \in D : \E n \in 1..N : order[n] = i
      /\ \A m, n \in 1..N : m < n =>
           order[m] # order[n] /\ At[prints[order[m]]] <= At[prints[order[n]]]
  <2>1. \A i, j \in D : j \in upTo[i] => At[prints[j]] <= At[prints[i]]
    BY <1>1
  <2> HIDE DEF upTo, order
  <2> QED BY <1>2, <1>5, <2>1 DEF Lines
<1> HIDE DEF order, s, upTo
<1>7. s \in [1..N -> Prints] /\ DOMAIN s = 1..N /\ \A n \in 1..N : s[n] = prints[order[n]]
  BY <1>0, <1>1, <1>3, <1>6
<1>8. s \in Seq(Prints) /\ Len(s) = N
  BY <1>7
<1>9. RangeOf(s) = RangeOf(prints)
  <2>1. \A i \in D : \E n \in 1..N : s[n] = prints[i]
    BY <1>6, <1>7
  <2>2. \A n \in 1..N : \E i \in D : s[n] = prints[i]
    BY <1>6, <1>7
  <2>3. RangeOf(s) = {s[n] : n \in 1..N} /\ RangeOf(prints) = {prints[i] : i \in D}
    BY <1>7 DEF RangeOf
  <2>4. RangeOf(s) \subseteq RangeOf(prints)
    BY <2>2, <2>3
  <2>5. RangeOf(prints) \subseteq RangeOf(s)
    BY <2>1, <2>3
  <2> QED BY <2>4, <2>5
<1>10. \A m, n \in DOMAIN s : m < n => At[s[m]] <= At[s[n]]
  BY <1>6, <1>7
<1>11. ASSUME \A i, j \in D : prints[i] = prints[j] => i = j
       PROVE  \A m, n \in DOMAIN s : s[m] = s[n] => m = n
  <2>1. \A m, n \in 1..N : order[m] = order[n] => m = n
    BY <1>6
  <2> QED BY <1>6, <1>7, <1>11, <2>1
<1> QED BY <1>0, <1>8, <1>9, <1>10, <1>11 DEF SortedOf, s

(* Picked takes what lies at the places, and no more. *)
LEMMA PickedIs ==
  ASSUME NEW prints \in Seq(Prints), NEW places, places \subseteq DOMAIN prints
  PROVE  /\ Picked(prints, places) \in Seq(Prints)
         /\ RangeOf(Picked(prints, places)) = {prints[i] : i \in places}
<1> DEFINE s == Picked(prints, places)  a == Ascending(places)
<1>1. PICK N \in Nat : N = Len(prints) /\ DOMAIN prints = 1..N
  OBVIOUS
<1>2. places \subseteq Int /\ IsFiniteSet(places)
  <2>1. IsFiniteSet(DOMAIN prints)
    BY <1>1, FS_Interval
  <2> QED BY <1>1, <2>1, FS_Subset
<1>3. Cardinality(places) \in Nat /\ Climbs(a, places)
  BY <1>2, AscendingIs
<1>4. DOMAIN a = 1..Cardinality(places) /\ RangeOf(a) = places /\ \A n \in DOMAIN a : a[n] \in places
  BY <1>3 DEF Climbs, RangeOf
<1>5. s = [n \in DOMAIN a |-> prints[a[n]]]
  BY DEF Picked
<1> HIDE DEF s, a
<1>6. \A n \in DOMAIN a : prints[a[n]] \in Prints
  BY <1>4
<1>7. s \in [1..Cardinality(places) -> Prints]
  BY <1>4, <1>5, <1>6
<1>8. s \in Seq(Prints)
  BY <1>3, <1>7
<1>9. RangeOf(s) = {prints[i] : i \in places}
  BY <1>4, <1>5 DEF RangeOf
<1> QED BY <1>8, <1>9 DEF s

(* The rows of a day are the prints of that day. *)
LEMMA RowsOfTheDay ==
  ASSUME NEW prints \in Seq(Prints), NEW day
  PROVE  /\ RowsOf(prints, day) \in Seq(Prints)
         /\ RangeOf(RowsOf(prints, day)) = {p \in RangeOf(prints) : DayStart(At[p]) = day}
<1> DEFINE places == {i \in DOMAIN prints : DayStart(At[prints[i]]) = day}
<1>1. /\ Picked(prints, places) \in Seq(Prints)
      /\ RangeOf(Picked(prints, places)) = {prints[i] : i \in places}
  BY PickedIs
<1>2. SortedOf(RowsOf(prints, day), Picked(prints, places))
  BY <1>1, ByTimeSorts DEF RowsOf
<1>3. {prints[i] : i \in places} = {p \in RangeOf(prints) : DayStart(At[p]) = day}
  BY DEF RangeOf
<1> QED BY <1>1, <1>2, <1>3 DEF SortedOf

(* What an append has to write: for each of its days the prints of that day. *)
Rows == [day : Days, rows : Seq(Prints)]
OfItsDay(batch) == \A p \in RangeOf(batch.rows) : DayStart(At[p]) = batch.day

(* Every print is of one day, which begins no later and ends after it. *)
LEMMA DayStartIs ==
  ASSUME NEW p \in Prints
  PROVE  /\ At[p] \in Nat /\ DayStart(At[p]) \in Int /\ DayStart(At[p]) \in Days
         /\ DayStart(At[p]) <= At[p] /\ At[p] < DayStart(At[p]) + DayLength
<1>1. At[p] \in Nat /\ DayLength \in Nat \ {0}
  BY TapeAssumption
<1>2. PICK q \in Int, r \in Int : At[p] = DayLength * q + r /\ 0 <= r /\ r < DayLength
                                    /\ q = At[p] \div DayLength
  <2>1. \A a \in Int, b \in Nat \ {0} :
           a = b * (a \div b) + (a % b) /\ a \div b \in Int /\ a % b \in Int /\ 0 <= a % b /\ a % b < b
    BY SMTT(30)
  <2> DEFINE a == At[p]  b == DayLength
  <2>0. a \in Int /\ b \in Nat \ {0}
    BY <1>1
  <2> HIDE DEF a, b
  <2>2. /\ a = b * (a \div b) + (a % b) /\ a \div b \in Int /\ a % b \in Int
        /\ 0 <= a % b /\ a % b < b
    BY <2>0, <2>1, Zenon
  <2>3. \E q \in Int, r \in Int : a = b * q + r /\ 0 <= r /\ r < b /\ q = a \div b
    BY <2>2
  <2> QED BY <2>3 DEF a, b
<1>3. DayStart(At[p]) = q * DayLength /\ q * DayLength \in Int /\ q * DayLength = DayLength * q
  BY <1>1, <1>2 DEF DayStart
<1> QED BY <1>1, <1>2, <1>3 DEF Days

(* The batches of an append hold all its prints, each with its day. *)
LEMMA BatchesAre ==
  ASSUME NEW prints \in Seq(Prints)
  PROVE  /\ Batches(prints) \in Seq(Rows)
         /\ \A n \in DOMAIN Batches(prints) : OfItsDay(Batches(prints)[n])
         /\ UNION {RangeOf(Batches(prints)[n].rows) : n \in DOMAIN Batches(prints)} = RangeOf(prints)
<1> DEFINE S == DaysOf(prints)  days == Ascending(S)  b == Batches(prints)
<1>1. \A i \in DOMAIN prints : prints[i] \in Prints
  OBVIOUS
<1>2. S \subseteq Int /\ S \subseteq Days
  BY <1>1, DayStartIs DEF DaysOf
<1>3. IsFiniteSet(S)
  <2>1. PICK N \in Nat : DOMAIN prints = 1..N
    OBVIOUS
  <2>2. IsFiniteSet(DOMAIN prints)
    BY <2>1, FS_Interval
  <2>3. [i \in DOMAIN prints |-> DayStart(At[prints[i]])] \in Surjection(DOMAIN prints, S)
    BY DEF Surjection, DaysOf
  <2> QED BY <2>2, <2>3, FS_Surjection
<1>4. Cardinality(S) \in Nat /\ Climbs(days, S)
  BY <1>2, <1>3, AscendingIs
<1>5. DOMAIN days = 1..Cardinality(S) /\ RangeOf(days) = S /\ \A n \in DOMAIN days : days[n] \in S
  BY <1>4 DEF Climbs, RangeOf
<1>6. b = [n \in DOMAIN days |-> [day |-> days[n], rows |-> RowsOf(prints, days[n])]]
  BY DEF Batches
<1> HIDE DEF days, b, S
<1>7. \A n \in DOMAIN days : b[n] = [day |-> days[n], rows |-> RowsOf(prints, days[n])]
  BY <1>6
<1>8. \A n \in DOMAIN days : b[n] \in Rows /\ OfItsDay(b[n])
  <2> TAKE n \in DOMAIN days
  <2>1. /\ RowsOf(prints, days[n]) \in Seq(Prints)
        /\ RangeOf(RowsOf(prints, days[n])) = {p \in RangeOf(prints) : DayStart(At[p]) = days[n]}
    BY RowsOfTheDay
  <2>2. days[n] \in Days
    BY <1>2, <1>5
  <2>3. b[n] = [day |-> days[n], rows |-> RowsOf(prints, days[n])]
    BY <1>7
  <2>4. b[n] \in Rows
    BY <2>1, <2>2, <2>3 DEF Rows
  <2>5. b[n].day = days[n] /\ b[n].rows = RowsOf(prints, days[n])
    BY <2>3
  <2> QED BY <2>1, <2>4, <2>5 DEF OfItsDay
<1>9. b \in [1..Cardinality(S) -> Rows] /\ DOMAIN b = DOMAIN days
  BY <1>5, <1>6, <1>8
<1>10. b \in Seq(Rows)
  BY <1>4, <1>9
<1>11. UNION {RangeOf(b[n].rows) : n \in DOMAIN b} = RangeOf(prints)
  <2>1. \A n \in DOMAIN b : RangeOf(b[n].rows) = {p \in RangeOf(prints) : DayStart(At[p]) = days[n]}
    <3> TAKE n \in DOMAIN b
    <3>1. b[n] = [day |-> days[n], rows |-> RowsOf(prints, days[n])]
      BY <1>7, <1>9
    <3> QED BY <3>1, RowsOfTheDay
  <2>2. \A p \in RangeOf(prints) : \E n \in DOMAIN b : DayStart(At[p]) = days[n]
    <3>1. \A p \in RangeOf(prints) : DayStart(At[p]) \in S
      BY DEF RangeOf, S, DaysOf
    <3>2. \A d \in S : \E n \in DOMAIN days : days[n] = d
      BY <1>5 DEF RangeOf
    <3> QED BY <1>9, <3>1, <3>2
  <2> QED BY <2>1, <2>2
<1> QED BY <1>8, <1>9, <1>10, <1>11 DEF b

(* The venue answers with the prints of the window, once each, in order of time. *)
LEMMA BetweenIs ==
  ASSUME NEW prints, prints \subseteq Prints, NEW from, NEW to
  PROVE  LET s == Between(prints, from, to)
         IN  /\ s \in Seq(Prints)
             /\ RangeOf(s) = {p \in prints : from <= At[p] /\ At[p] < to}
             /\ \A m, n \in DOMAIN s : m < n => At[s[m]] <= At[s[n]] /\ s[m] # s[n]
<1> DEFINE S == {p \in prints : from <= At[p] /\ At[p] < to}  a == Ascending(S)
<1>1. S \subseteq Int /\ IsFiniteSet(S) /\ S \subseteq Prints
  BY TapeAssumption, FS_Subset
<1> HIDE DEF S
<1>2. Cardinality(S) \in Nat /\ Climbs(a, S)
  BY <1>1, AscendingIs
<1> HIDE DEF a
<1>3. a \in Seq(Prints) /\ RangeOf(a) = S
  <2>1. RangeOf(a) = S /\ a \in Seq(S)
    BY <1>2 DEF Climbs
  <2>2. Len(a) \in Nat /\ a \in [1..Len(a) -> S]
    BY <2>1
  <2>3. a \in [1..Len(a) -> Prints]
    BY <1>1, <2>2
  <2> QED BY <2>1, <2>2, <2>3
<1>4. \A i, j \in DOMAIN a : a[i] = a[j] => i = j
  <2>1. DOMAIN a = 1..Cardinality(S) /\ \A i \in DOMAIN a : a[i] \in Int
    BY <1>1, <1>2 DEF Climbs, RangeOf
  <2> QED BY <1>2, <2>1 DEF Climbs
<1>5. SortedOf(ByTime(a), a)
  BY <1>3, ByTimeSorts
<1>6. ByTime(a) = Between(prints, from, to)
  BY DEF Between, a, S
<1>7. \A m, n \in DOMAIN ByTime(a) : m < n => m # n
  <2>1. \E N \in Nat : DOMAIN ByTime(a) = 1..N
    BY <1>5 DEF SortedOf
  <2> QED BY <2>1
<1> QED BY <1>3, <1>4, <1>5, <1>6, <1>7 DEF SortedOf, S

-----------------------------------------------------------------------------
(* Reading the store: rows have places, and are read in order of time. *)

(* A strict line of the members of S, as a set of pairs. *)
Strict(S, before) ==
  /\ IsFiniteSet(S)
  /\ \A x, y \in S : x = y \/ <<x, y>> \in before \/ <<y, x>> \in before
  /\ \A x, y \in S : <<x, y>> \in before => <<y, x>> \notin before
  /\ \A x, y, z \in S : <<x, y>> \in before /\ <<y, z>> \in before => <<x, z>> \in before

(* A strict line puts its members in line. *)
LEMMA StrictInLine ==
  ASSUME NEW S, NEW before, Strict(S, before), NEW upTo,
         upTo = [x \in S |-> {y \in S : y = x \/ <<y, x>> \in before}]
  PROVE  InLine(S, upTo)
<1>1. \A x, y \in S : x \in upTo[y] <=> x = y \/ <<x, y>> \in before
  OBVIOUS
<1>2. upTo \in [S -> SUBSET S]
  OBVIOUS
<1>3. \A x, y \in S : x \in upTo[y] => upTo[x] \subseteq upTo[y]
  <2> SUFFICES ASSUME NEW x \in S, NEW y \in S, x \in upTo[y], NEW z \in upTo[x]
               PROVE  z \in upTo[y]
    OBVIOUS
  <2>1. z \in S
    BY <1>2
  <2>2. (x = y \/ <<x, y>> \in before) /\ (z = x \/ <<z, x>> \in before)
    BY <1>1, <2>1
  <2>3. z = y \/ <<z, y>> \in before
    BY <2>1, <2>2 DEF Strict
  <2> QED BY <1>1, <2>1, <2>3
<1> QED BY <1>1, <1>2, <1>3 DEF InLine, Strict

(* Where a row is: its day, its part and its place in that. *)
IsPlace(x) ==
  \E d, i, n \in Int : x = <<d, i, n>>

(* Rows precede one another by day, part and place: a strict line. *)
LEMMA PlacesInLine ==
  /\ \A x, y : IsPlace(x) /\ IsPlace(y) => x = y \/ Precedes(x, y) \/ Precedes(y, x)
  /\ \A x, y : IsPlace(x) /\ IsPlace(y) /\ Precedes(x, y) => ~Precedes(y, x)
  /\ \A x, y, z : IsPlace(x) /\ IsPlace(y) /\ IsPlace(z) /\ Precedes(x, y) /\ Precedes(y, z) =>
       Precedes(x, z)
<1>1. \A x : IsPlace(x) => /\ x = <<x[1], x[2], x[3]>>
                           /\ x[1] \in Int /\ x[2] \in Int /\ x[3] \in Int
  BY DEF IsPlace
<1>2. ASSUME NEW x, NEW y, IsPlace(x), IsPlace(y)
      PROVE  /\ x = y \/ Precedes(x, y) \/ Precedes(y, x)
             /\ Precedes(x, y) => ~Precedes(y, x)
  <2>1. x = <<x[1], x[2], x[3]>> /\ y = <<y[1], y[2], y[3]>>
    BY <1>1, <1>2
  <2>2. /\ x[1] \in Int /\ x[2] \in Int /\ x[3] \in Int
        /\ y[1] \in Int /\ y[2] \in Int /\ y[3] \in Int
    BY <1>1, <1>2
  <2>3. x[1] = y[1] /\ x[2] = y[2] /\ x[3] = y[3] => x = y
    BY <2>1
  <2> QED BY <2>2, <2>3 DEF Precedes
<1>3. ASSUME NEW x, NEW y, NEW z, IsPlace(x), IsPlace(y), IsPlace(z), Precedes(x, y), Precedes(y, z)
      PROVE  Precedes(x, z)
  <2>1. /\ x[1] \in Int /\ x[2] \in Int /\ x[3] \in Int
        /\ y[1] \in Int /\ y[2] \in Int /\ y[3] \in Int
        /\ z[1] \in Int /\ z[2] \in Int /\ z[3] \in Int
    BY <1>1, <1>3
  <2> QED BY <1>3, <2>1 DEF Precedes
<1> QED BY <1>2, <1>3

(* A store of which every part can be read. *)
Whole(st) == st \in [Days -> Seq(Seq(Prints))]

(* No print is as late as Ever. *)
LEMMA LastTime ==
  Ever \in Nat /\ \A p \in Prints : At[p] < Ever
<1> DEFINE T == {At[p] : p \in Prints}  s == Ascending(T)
           Top(t) == \A p \in Prints : At[p] <= t
<1>1. T \subseteq Nat /\ T # {}
  BY TapeAssumption
<1>2. IsFiniteSet(T)
  <2>1. [p \in Prints |-> At[p]] \in Surjection(Prints, T)
    BY DEF Surjection
  <2> QED BY <2>1, TapeAssumption, FS_Surjection
<1>3. Cardinality(T) \in Nat /\ Climbs(s, T) /\ Cardinality(T) # 0
  BY <1>1, <1>2, AscendingIs, FS_EmptySet
<1>4. \E t \in T : Top(t)
  <2>0. \A p \in Prints : At[p] \in T
    OBVIOUS
  <2> HIDE DEF s, T
  <2>1. PICK N \in Nat : N # 0 /\ DOMAIN s = 1..N
    BY <1>3 DEF Climbs
  <2>2. \A n \in DOMAIN s : s[n] \in T
    BY <1>3 DEF Climbs, RangeOf
  <2>3. \A n \in DOMAIN s : s[n] <= s[N]
    <3> TAKE n \in DOMAIN s
    <3>1. n = N \/ n < N
      BY <2>1
    <3>2. N \in DOMAIN s
      BY <2>1
    <3>3. s[n] \in Int /\ s[N] \in Int
      <4>1. s[n] \in T /\ s[N] \in T
        BY <2>2, <3>2
      <4>2. s[n] \in Nat /\ s[N] \in Nat
        BY <1>1, <4>1, Zenon
      <4> QED BY <4>2
    <3> QED BY <1>3, <3>1, <3>2, <3>3 DEF Climbs
  <2>4. \A p \in Prints : \E n \in DOMAIN s : s[n] = At[p]
    BY <1>3, <2>0 DEF Climbs, RangeOf
  <2>5. s[N] \in T
    BY <2>1, <2>2
  <2> QED BY <2>3, <2>4, <2>5
<1>5. (CHOOSE t \in T : Top(t)) \in T /\ Top(CHOOSE t \in T : Top(t))
  BY <1>4, Zenon
<1>6. PICK t \in Nat : Ever = t + 1 /\ Top(t)
  BY <1>1, <1>5 DEF Ever
<1>7. \A p \in Prints : At[p] \in Nat
  BY TapeAssumption
<1> QED BY <1>6, <1>7

(* All days are read by ReadAll. *)
LEMMA EveryDayOverlaps == Overlapping(0, Ever) = Days
<1> SUFFICES ASSUME NEW d \in Days PROVE d < Ever /\ d + DayLength > 0
  BY DEF Overlapping
<1>1. PICK p \in Prints : d = DayStart(At[p])
  BY DEF Days
<1>2. At[p] \in Nat /\ d \in Int /\ d <= At[p] /\ At[p] < d + DayLength
  BY <1>1, DayStartIs
<1> QED BY <1>2, LastTime, TapeAssumption

(* The rows read are all those in the parts. *)
LEMMA StoredAre ==
  ASSUME NEW st, Whole(st)
  PROVE  LET R == StoredRows(st, 0, Ever)
         IN  /\ \A x \in R : IsPlace(x) /\ PrintAt(st, x) \in Prints
             /\ \A d \in Days : \A i \in DOMAIN st[d] : \A n \in DOMAIN st[d][i] :
                  <<d, i, n>> \in R /\ PrintAt(st, <<d, i, n>>) = st[d][i][n]
             /\ IsFiniteSet(R)
<1> DEFINE R == StoredRows(st, 0, Ever)  All == UNION {RowsOfDay(st, d) : d \in Days}
<1>1. \A d \in Days : st[d] \in Seq(Seq(Prints))
  BY DEF Whole
<1>2. \A d \in Days : d \in Int
  BY DayStartIs DEF Days
<1>3. \A d \in Days : \A i \in DOMAIN st[d] : \A n \in DOMAIN st[d][i] :
        i \in Int /\ n \in Int /\ st[d][i][n] \in Prints
  <2> TAKE d \in Days
  <2> TAKE i \in DOMAIN st[d]
  <2>1. i \in Int /\ st[d][i] \in Seq(Prints)
    BY <1>1
  <2> QED BY <2>1
<1>4. ASSUME NEW x \in All
      PROVE  \E d \in Days : \E i \in DOMAIN st[d] : \E n \in DOMAIN st[d][i] : x = <<d, i, n>>
  BY DEF RowsOfDay
<1>5. ASSUME NEW d \in Days, NEW i \in DOMAIN st[d], NEW n \in DOMAIN st[d][i]
      PROVE  <<d, i, n>> \in All
  BY DEF RowsOfDay
<1>6. R = {x \in All : 0 <= At[PrintAt(st, x)] /\ At[PrintAt(st, x)] < Ever}
  BY EveryDayOverlaps DEF StoredRows
<1> HIDE DEF R, All
<1>7. \A x \in R : IsPlace(x) /\ PrintAt(st, x) \in Prints
  <2> TAKE x \in R
  <2>1. PICK d \in Days : \E i \in DOMAIN st[d] : \E n \in DOMAIN st[d][i] : x = <<d, i, n>>
    BY <1>4, <1>6
  <2>2. PICK i \in DOMAIN st[d] : \E n \in DOMAIN st[d][i] : x = <<d, i, n>>
    BY <2>1
  <2>3. PICK n \in DOMAIN st[d][i] : x = <<d, i, n>>
    BY <2>2
  <2>4. d \in Int /\ i \in Int /\ n \in Int /\ st[d][i][n] \in Prints
    BY <1>2, <1>3
  <2>5. PrintAt(st, x) = st[d][i][n]
    BY <2>3 DEF PrintAt
  <2> QED BY <2>3, <2>4, <2>5 DEF IsPlace
<1>8. ASSUME NEW d \in Days, NEW i \in DOMAIN st[d], NEW n \in DOMAIN st[d][i]
      PROVE  <<d, i, n>> \in R /\ PrintAt(st, <<d, i, n>>) = st[d][i][n]
  <2>1. PrintAt(st, <<d, i, n>>) = st[d][i][n]
    BY DEF PrintAt
  <2>2. st[d][i][n] \in Prints
    BY <1>3
  <2>3. 0 <= At[st[d][i][n]] /\ At[st[d][i][n]] < Ever
    <3>1. \A p \in Prints : 0 <= At[p] /\ At[p] < Ever
      BY LastTime, TapeAssumption
    <3> QED BY <2>2, <3>1
  <2> QED BY <1>5, <1>6, <2>1, <2>3
<1>9. IsFiniteSet(All)
  <2>1. ASSUME NEW d \in Days PROVE IsFiniteSet(RowsOfDay(st, d))
    <3> DEFINE P(i) == {<<d, i, n>> : n \in DOMAIN st[d][i]}
               U == {P(i) : i \in DOMAIN st[d]}
    <3>1. \A i \in DOMAIN st[d] : IsFiniteSet(P(i))
      <4> TAKE i \in DOMAIN st[d]
      <4>1. st[d][i] \in Seq(Prints)
        BY <1>1
      <4>2. PICK N \in Nat : DOMAIN st[d][i] = 1..N
        BY <4>1
      <4>3. IsFiniteSet(DOMAIN st[d][i])
        BY <4>2, FS_Interval
      <4>4. [n \in DOMAIN st[d][i] |-> <<d, i, n>>] \in Surjection(DOMAIN st[d][i], P(i))
        BY DEF Surjection
      <4> HIDE DEF P
      <4> QED BY <4>3, <4>4, FS_Surjection
    <3>2. IsFiniteSet(DOMAIN st[d])
      <4>1. PICK N \in Nat : DOMAIN st[d] = 1..N
        BY <1>1
      <4> QED BY <4>1, FS_Interval
    <3> HIDE DEF P
    <3>3. [i \in DOMAIN st[d] |-> P(i)] \in Surjection(DOMAIN st[d], U)
      BY DEF Surjection
    <3>4. IsFiniteSet(U) /\ \A X \in U : IsFiniteSet(X)
      BY <3>1, <3>2, <3>3, FS_Surjection
    <3>5. RowsOfDay(st, d) = UNION U
      BY DEF RowsOfDay, P
    <3> HIDE DEF U
    <3> QED BY <3>4, <3>5, FS_UNION
  <2> DEFINE U == {RowsOfDay(st, d) : d \in Days}
  <2>2. IsFiniteSet(Days)
    <3>1. [p \in Prints |-> DayStart(At[p])] \in Surjection(Prints, Days)
      BY DEF Surjection, Days
    <3> QED BY <3>1, TapeAssumption, FS_Surjection
  <2>3. [d \in Days |-> RowsOfDay(st, d)] \in Surjection(Days, U)
    BY DEF Surjection
  <2>4. IsFiniteSet(U) /\ \A X \in U : IsFiniteSet(X)
    BY <2>1, <2>2, <2>3, FS_Surjection
  <2>5. All = UNION U
    BY DEF All
  <2> HIDE DEF U
  <2> QED BY <2>4, <2>5, FS_UNION
<1>10. IsFiniteSet(R)
  BY <1>6, <1>9, FS_Subset
<1> QED BY <1>7, <1>8, <1>10 DEF R

(* Of the rows of one print the first is kept. *)
LEMMA FirstIsKept ==
  ASSUME NEW st, NEW R, IsFiniteSet(R), \A x \in R : IsPlace(x), NEW x \in R
  PROVE  \E y \in FirstOfEach(st, R) : PrintAt(st, y) = PrintAt(st, x)
<1> DEFINE T == {y \in R : PrintAt(st, y) = PrintAt(st, x)}
           before == {e \in T \X T : Precedes(e[1], e[2])}
           upTo == [z \in T |-> {y \in T : y = z \/ <<y, z>> \in before}]
           s == Arranged(T, upTo)
<1>1. IsFiniteSet(T) /\ x \in T
  BY FS_Subset
<1>2. \A y, z \in T : <<y, z>> \in before <=> Precedes(y, z)
  OBVIOUS
<1>3. Strict(T, before)
  <2>1. \A y \in T : IsPlace(y)
    OBVIOUS
  <2> HIDE DEF before, T
  <2> QED BY <1>1, <1>2, <2>1, PlacesInLine DEF Strict
<1>4. InLine(T, upTo)
  <2> HIDE DEF before, T
  <2> QED BY <1>3, StrictInLine
<1>5. Cardinality(T) \in Nat /\ Lines(s, T, upTo)
  BY <1>4, ArrangedLines
<1>6. PICK N \in Nat : N = Cardinality(T)
  BY <1>5
<1>7. /\ s \in [1..N -> T] /\ \A y \in T : \E n \in 1..N : s[n] = y
      /\ \A n \in 1..N : 1 < n => s[1] # s[n] /\ s[1] \in upTo[s[n]]
  <2>1. 1 \in 1..N
    <3>1. N # 0
      BY <1>1, <1>6, FS_EmptySet
    <3> QED BY <3>1
  <2> HIDE DEF s, upTo, T
  <2> QED BY <1>5, <1>6, <2>1 DEF Lines
<1>8. 1 \in 1..N /\ s[1] \in T
  BY <1>1, <1>7
<1>9. ASSUME NEW y \in T PROVE ~Precedes(y, s[1])
  <2>1. PICK n \in 1..N : s[n] = y
    BY <1>7
  <2>2. n = 1 \/ 1 < n
    OBVIOUS
  <2>3. y = s[1] \/ s[1] \in upTo[y]
    BY <1>7, <2>1, <2>2
  <2>4. y = s[1] \/ Precedes(s[1], y)
    BY <1>2, <1>8, <2>3
  <2> HIDE DEF s
  <2>5. IsPlace(y) /\ IsPlace(s[1])
    BY <1>8
  <2> QED BY <2>4, <2>5, PlacesInLine
<1>10. s[1] \in FirstOfEach(st, R)
  <2> HIDE DEF s
  <2>1. s[1] \in R /\ PrintAt(st, s[1]) = PrintAt(st, x)
    BY <1>8
  <2>2. \A y \in R : PrintAt(st, y) = PrintAt(st, s[1]) => y \in T
    BY <2>1
  <2> QED BY <1>9, <2>1, <2>2 DEF FirstOfEach
<1> QED BY <1>8, <1>10

(* Each of rows that are one of each print is read once, in order of time. *)
LEMMA ReadInOrder ==
  ASSUME NEW st, NEW K, IsFiniteSet(K), \A x \in K : IsPlace(x) /\ PrintAt(st, x) \in Prints,
         \A x, y \in K : PrintAt(st, x) = PrintAt(st, y) => x = y
  PROVE  LET rows == RowsByTime(st, K)
         IN  /\ \A x \in K : PrintAt(st, x) \in RangeOf(rows)
             /\ \A i, j \in DOMAIN rows : i < j => rows[i] # rows[j] /\ At[rows[i]] <= At[rows[j]]
<1> DEFINE T(x) == At[PrintAt(st, x)]
           Before(y, x) == T(y) < T(x) \/ (T(y) = T(x) /\ Precedes(y, x))
           before == {e \in K \X K : Before(e[1], e[2])}
           upTo == [x \in K |-> {y \in K : y = x \/ <<y, x>> \in before}]
           s == Arranged(K, upTo)  rows == RowsByTime(st, K)
<1>1. \A y, x \in K : <<y, x>> \in before <=> Before(y, x)
  OBVIOUS
<1>2. \A x \in K : T(x) \in Int
  BY TapeAssumption
<1>3. Strict(K, before)
  <2> HIDE DEF before, T
  <2>1. \A x, y \in K : x = y \/ Before(x, y) \/ Before(y, x)
    BY <1>2, PlacesInLine
  <2>2. \A x, y \in K : Before(x, y) => ~Before(y, x)
    BY <1>2, PlacesInLine
  <2>3. \A x, y, z \in K : Before(x, y) /\ Before(y, z) => Before(x, z)
    BY <1>2, PlacesInLine
  <2> HIDE DEF Before
  <2> QED BY <1>1, <2>1, <2>2, <2>3 DEF Strict
<1>4. InLine(K, upTo)
  <2> HIDE DEF before
  <2> QED BY <1>3, StrictInLine
<1>5. Cardinality(K) \in Nat /\ Lines(s, K, upTo)
  BY <1>4, ArrangedLines
<1>6. rows = [n \in 1..Cardinality(K) |-> PrintAt(st, s[n])]
  <2>1. upTo = [x \in K |-> {y \in K :
                 \/ y = x
                 \/ At[PrintAt(st, y)] < At[PrintAt(st, x)]
                 \/ At[PrintAt(st, y)] = At[PrintAt(st, x)] /\ Precedes(y, x)}]
    OBVIOUS
  <2> HIDE DEF upTo
  <2> QED BY <2>1, Zenon DEF RowsByTime
<1>7. \A x, y \in K : x \in upTo[y] => T(x) <= T(y)
  <2>1. \A x, y \in K : x \in upTo[y] => x = y \/ Before(x, y)
    OBVIOUS
  <2> HIDE DEF upTo, T
  <2> QED BY <1>2, <2>1
<1> HIDE DEF rows, s, upTo, before
<1>8. PICK N \in Nat : N = Cardinality(K)
  BY <1>5
<1>9. /\ s \in [1..N -> K] /\ \A y \in K : \E n \in 1..N : s[n] = y
      /\ \A m, n \in 1..N : m < n => s[m] # s[n] /\ s[m] \in upTo[s[n]]
  BY <1>5, <1>8 DEF Lines
<1>10. DOMAIN rows = 1..N /\ \A n \in 1..N : rows[n] = PrintAt(st, s[n])
  BY <1>6, <1>8
<1>11. \A x \in K : PrintAt(st, x) \in RangeOf(rows)
  BY <1>9, <1>10 DEF RangeOf
<1>12. ASSUME NEW i \in DOMAIN rows, NEW j \in DOMAIN rows, i < j
       PROVE  rows[i] # rows[j] /\ At[rows[i]] <= At[rows[j]]
  <2>1. s[i] \in K /\ s[j] \in K /\ s[i] # s[j] /\ s[i] \in upTo[s[j]]
    BY <1>9, <1>10, <1>12
  <2>2. rows[i] = PrintAt(st, s[i]) /\ rows[j] = PrintAt(st, s[j])
    BY <1>10
  <2>3. T(s[i]) <= T(s[j])
    BY <1>7, <2>1
  <2> QED BY <2>1, <2>2, <2>3
<1> QED BY <1>11, <1>12 DEF rows

(* A store whose parts can all be read gives back every print, once, in order of time. *)
LEMMA AllIsRead ==
  ASSUME NEW st, Whole(st)
  PROVE  LET rows == ReadAll(st)
         IN  /\ \A d \in Days : \A i \in DOMAIN st[d] : \A n \in DOMAIN st[d][i] :
                  st[d][i][n] \in RangeOf(rows)
             /\ \A i, j \in DOMAIN rows : i < j => rows[i] # rows[j] /\ At[rows[i]] <= At[rows[j]]
<1> DEFINE R == StoredRows(st, 0, Ever)  K == FirstOfEach(st, R)
<1>1. /\ \A x \in R : IsPlace(x) /\ PrintAt(st, x) \in Prints
      /\ \A d \in Days : \A i \in DOMAIN st[d] : \A n \in DOMAIN st[d][i] :
           <<d, i, n>> \in R /\ PrintAt(st, <<d, i, n>>) = st[d][i][n]
      /\ IsFiniteSet(R)
  BY StoredAre
<1>2. ReadAll(st) = RowsByTime(st, K)
  BY DEF ReadAll, ReadRange
<1> HIDE DEF R
<1>3. K \subseteq R /\ IsFiniteSet(K)
  BY <1>1, FS_Subset DEF FirstOfEach
<1>4. \A x, y \in K : PrintAt(st, x) = PrintAt(st, y) => x = y
  <2> SUFFICES ASSUME NEW x \in K, NEW y \in K, PrintAt(st, x) = PrintAt(st, y) PROVE x = y
    OBVIOUS
  <2>1. ~Precedes(x, y) /\ ~Precedes(y, x)
    BY DEF FirstOfEach
  <2>2. IsPlace(x) /\ IsPlace(y)
    BY <1>1, <1>3
  <2> QED BY <2>1, <2>2, PlacesInLine
<1>5. \A x \in R : \E y \in K : PrintAt(st, y) = PrintAt(st, x)
  BY <1>1, FirstIsKept
<1> HIDE DEF K
<1>6. /\ \A x \in K : PrintAt(st, x) \in RangeOf(ReadAll(st))
      /\ \A i, j \in DOMAIN ReadAll(st) : i < j =>
           ReadAll(st)[i] # ReadAll(st)[j] /\ At[ReadAll(st)[i]] <= At[ReadAll(st)[j]]
  BY <1>1, <1>2, <1>3, <1>4, ReadInOrder
<1>7. \A d \in Days : \A i \in DOMAIN st[d] : \A n \in DOMAIN st[d][i] :
        st[d][i][n] \in RangeOf(ReadAll(st))
  <2> TAKE d \in Days
  <2> TAKE i \in DOMAIN st[d]
  <2> TAKE n \in DOMAIN st[d][i]
  <2>1. <<d, i, n>> \in R /\ PrintAt(st, <<d, i, n>>) = st[d][i][n]
    BY <1>1
  <2>2. PICK y \in K : PrintAt(st, y) = st[d][i][n]
    BY <1>5, <2>1
  <2> QED BY <1>6, <2>2
<1> QED BY <1>6, <1>7

-----------------------------------------------------------------------------
(* The two collectors. *)

(* The invariant of the collectors: what a process has still to do, and what *)
(* lies in the store.  One that does not run has nothing to do. *)
Jobs ==
  [runs : BOOLEAN, batches : Seq(Rows), part : Nat, open : BOOLEAN, left : SUBSET Int,
   until : Int, pages : Nat, cursor : Int, fetched : Seq(Prints)]
Fits(job) ==
  /\ job \in Jobs
  /\ \A n \in DOMAIN job.batches : OfItsDay(job.batches[n])
  /\ ~job.runs => job = Stopped
  /\ job.open => job.part # 0
  /\ job.part # 0 => job.batches # << >>
Stores == [Days -> Seq(Seq(Prints) \cup {Unclosed})]

CollectTyped ==
  /\ printed \subseteq Prints /\ buffer \in Seq(Prints)
  /\ jobs \in [Processes -> Jobs] /\ \A w \in Processes : Fits(jobs[w])
  /\ store \in Stores
  /\ flushed \subseteq Prints

(* A process that is stopped, or that has just begun, fits. *)
LEMMA StoppedFits == Fits(Stopped) /\ Fits(Started)
<1>1. << >> \in Seq(Rows) /\ << >> \in Seq(Prints) /\ DOMAIN << >> = {}
  OBVIOUS
<1>2. Stopped \in Jobs /\ Stopped.batches = << >> /\ Stopped.part = 0 /\ ~Stopped.open
  BY <1>1 DEF Stopped, Jobs
<1>3. Started \in Jobs /\ Started.runs /\ Started.batches = Stopped.batches
      /\ Started.part = 0 /\ ~Started.open
  BY <1>2 DEF Started, Jobs
<1> QED BY <1>1, <1>2, <1>3 DEF Fits

(* Setting one job leaves the other. *)
LEMMA OneJobSet ==
  ASSUME CollectTyped, NEW w \in Processes, NEW job, Fits(job), Sets(w, job)
  PROVE  /\ jobs' \in [Processes -> Jobs] /\ \A v \in Processes : Fits(jobs'[v])
         /\ jobs'[w] = job /\ \A v \in Processes : v # w => jobs'[v] = jobs[v]
<1>1. job \in Jobs
  BY DEF Fits
<1>2. jobs \in [Processes -> Jobs] /\ \A v \in Processes : Fits(jobs[v])
  BY DEF CollectTyped
<1>3. jobs' = [jobs EXCEPT ![w] = job]
  BY DEF Sets
<1> QED BY <1>1, <1>2, <1>3

(* The batch in hand, and those after it. *)
LEMMA BatchIs ==
  ASSUME NEW w \in Processes, CollectTyped, Busy(w)
  PROVE  /\ Batch(w) \in Rows /\ Batch(w).day \in Days /\ Batch(w).rows \in Seq(Prints)
         /\ OfItsDay(Batch(w))
         /\ Tail(jobs[w].batches) \in Seq(Rows)
         /\ \A n \in DOMAIN Tail(jobs[w].batches) : OfItsDay(Tail(jobs[w].batches)[n])
<1> DEFINE b == jobs[w].batches
<1>1. b \in Seq(Rows) /\ b # << >> /\ \A n \in DOMAIN b : OfItsDay(b[n])
  BY DEF CollectTyped, Fits, Jobs, Busy
<1> HIDE DEF b
<1>2. PICK N \in Nat : N = Len(b) /\ DOMAIN b = 1..N /\ N # 0
  BY <1>1
<1>3. b[1] \in Rows /\ OfItsDay(b[1])
  BY <1>1, <1>2
<1>4. Tail(b) \in Seq(Rows) /\ DOMAIN Tail(b) = 1..(N - 1) /\ \A n \in 1..(N - 1) : Tail(b)[n] = b[n + 1]
  BY <1>1, <1>2
<1>5. \A n \in DOMAIN Tail(b) : OfItsDay(Tail(b)[n])
  BY <1>1, <1>2, <1>4
<1>6. b[1].day \in Days /\ b[1].rows \in Seq(Prints)
  BY <1>3 DEF Rows
<1>7. Batch(w) = b[1]
  BY DEF Batch, b
<1> QED BY <1>3, <1>4, <1>5, <1>6, <1>7 DEF b

(* Writing a part leaves a store. *)
LEMMA WritesPart ==
  ASSUME NEW st \in Stores, NEW d \in Days, NEW part \in Nat, part # 0,
         NEW content, content \in Seq(Prints) \/ content = Unclosed,
         NEW after, after = WritePart(st, d, part, content)
  PROVE  after \in Stores
<1> DEFINE C == Seq(Prints) \cup {Unclosed}  s == st[d]
           t == IF part > Len(s) THEN Append(s, content) ELSE [s EXCEPT ![part] = content]
<1>1. s \in Seq(C) /\ content \in C
  BY DEF Stores
<1> HIDE DEF C, s
<1>2. t \in Seq(C)
  <2>1. Append(s, content) \in Seq(C)
    BY <1>1
  <2>2. [s EXCEPT ![part] = content] \in Seq(C)
    <3>1. PICK N \in Nat : N = Len(s) /\ s \in [1..N -> C]
      BY <1>1
    <3>2. [s EXCEPT ![part] = content] \in [1..N -> C]
      BY <1>1, <3>1
    <3>3. \A u \in [1..N -> C] : u \in Seq(C)
      BY <3>1
    <3> QED BY <3>2, <3>3
  <2> QED BY <2>1, <2>2
<1>4. WritePart(st, d, part, content) = [st EXCEPT ![d] = t]
  BY DEF WritePart, s
<1> HIDE DEF t
<1>5. st \in [Days -> Seq(C)]
  BY DEF Stores, C
<1>6. WritePart(st, d, part, content) \in [Days -> Seq(C)]
  BY <1>2, <1>4, <1>5
<1> QED BY <1>6 DEF Stores, C

(* The collectors begin well. *)
LEMMA CollectBegins ==
  ASSUME CollectInit
  PROVE  CollectTyped
<1>1. \A w \in Processes : jobs[w] = Stopped
  BY DEF CollectInit
<1>2. jobs \in [Processes -> Jobs] /\ \A w \in Processes : Fits(jobs[w])
  BY <1>1, StoppedFits DEF CollectInit, Fits
<1>3. store \in Stores
  <2>1. << >> \in Seq(Seq(Prints) \cup {Unclosed})
    OBVIOUS
  <2> QED BY <2>1 DEF CollectInit, EmptyStore, Stores
<1> QED BY <1>2, <1>3 DEF CollectInit, CollectTyped

(* Two sequences, one after the other. *)
LEMMA Joined ==
  ASSUME NEW S, NEW a \in Seq(S), NEW b \in Seq(S)
  PROVE  a \o b \in Seq(S) /\ RangeOf(a \o b) = RangeOf(a) \cup RangeOf(b)
<1>1. PICK M \in Nat, N \in Nat : M = Len(a) /\ N = Len(b) /\ DOMAIN a = 1..M /\ DOMAIN b = 1..N
  OBVIOUS
<1>2. /\ a \o b \in Seq(S) /\ DOMAIN (a \o b) = 1..(M + N)
      /\ \A i \in 1..(M + N) : (a \o b)[i] = IF i <= M THEN a[i] ELSE b[i - M]
  BY <1>1
<1> DEFINE c == a \o b
<1> HIDE DEF c
<1>3. RangeOf(c) \subseteq RangeOf(a) \cup RangeOf(b)
  <2> SUFFICES ASSUME NEW i \in 1..(M + N) PROVE c[i] \in RangeOf(a) \cup RangeOf(b)
    BY <1>2 DEF RangeOf, c
  <2>1. CASE i <= M
    BY <1>1, <1>2, <2>1 DEF RangeOf, c
  <2>2. CASE ~(i <= M)
    <3>1. i - M \in 1..N /\ c[i] = b[i - M]
      BY <1>2, <2>2 DEF c
    <3> QED BY <1>1, <3>1 DEF RangeOf
  <2> QED BY <2>1, <2>2
<1>4. RangeOf(a) \cup RangeOf(b) \subseteq RangeOf(c)
  <2>1. ASSUME NEW i \in 1..M PROVE a[i] \in RangeOf(c)
    <3>1. i \in 1..(M + N) /\ c[i] = a[i]
      BY <1>2 DEF c
    <3> QED BY <1>2, <3>1 DEF RangeOf, c
  <2>2. ASSUME NEW i \in 1..N PROVE b[i] \in RangeOf(c)
    <3>1. i + M \in 1..(M + N) /\ ~(i + M <= M) /\ (i + M) - M = i
      OBVIOUS
    <3>2. c[i + M] = b[i]
      BY <1>2, <3>1 DEF c
    <3> QED BY <1>2, <3>1, <3>2 DEF RangeOf, c
  <2> QED BY <1>1, <2>1, <2>2 DEF RangeOf
<1> QED BY <1>2, <1>3, <1>4 DEF c

(* The first n of a sequence. *)
LEMMA Firsts ==
  ASSUME NEW S, NEW s \in Seq(S), NEW n \in Nat, n <= Len(s)
  PROVE  /\ SubSeq(s, 1, n) \in Seq(S) /\ DOMAIN SubSeq(s, 1, n) = 1..n /\ Len(SubSeq(s, 1, n)) = n
         /\ \A i \in 1..n : SubSeq(s, 1, n)[i] = s[i]
OBVIOUS

(* What one request answers: the prints of its window, and the page of them. *)
Asked(day) == IF jobs["backfill"].pages = 0 THEN day ELSE jobs["backfill"].cursor
There(day) == Between(printed, Asked(day), DayEnds(day, jobs["backfill"]))
PageOf(day) ==
  SubSeq(There(day), 1, IF Len(There(day)) < Page THEN Len(There(day)) ELSE Page)
LatestOf(day) == At[PageOf(day)[Len(PageOf(day))]]
MoreOf(day) ==
  /\ Len(There(day)) > Page /\ LatestOf(day) > Asked(day)
  /\ Cursor(LatestOf(day)) < DayEnds(day, jobs["backfill"]) /\ jobs["backfill"].pages + 1 < MaxPages
DayOver(day, rows) ==
  [jobs["backfill"] EXCEPT !.left = @ \ {day}, !.pages = 0, !.cursor = 0, !.fetched = << >>,
                           !.batches = Batches(rows)]
NextPage(day) ==
  [jobs["backfill"] EXCEPT !.fetched = @ \o PageOf(day), !.pages = @ + 1,
                           !.cursor = Cursor(LatestOf(day))]

(* A step of backfill in these terms. *)
LEMMA PageAsked ==
  ASSUME NEW day, NEW fails, BackfillPage(day, fails)
  PROVE  /\ Ready("backfill") /\ day \in jobs["backfill"].left
         /\ \A d \in jobs["backfill"].left : day <= d
         /\ \/ fails /\ Sets("backfill", DayOver(day, << >>))
            \/ ~fails /\ MoreOf(day) /\ Sets("backfill", NextPage(day))
            \/ ~fails /\ ~MoreOf(day)
               /\ Sets("backfill", DayOver(day, jobs["backfill"].fetched \o PageOf(day)))
         /\ UNCHANGED <<printed, socket, buffer, store, flushed>>
BY Zenon DEF BackfillPage, Asked, There, PageOf, LatestOf, MoreOf, DayOver, NextPage

(* The types of backfill's job. *)
LEMMA BackfillIs ==
  ASSUME CollectTyped
  PROVE  LET job == jobs["backfill"]
         IN  /\ Fits(job) /\ job \in Jobs /\ job.left \subseteq Int /\ job.fetched \in Seq(Prints)
             /\ job.pages \in Nat /\ job.cursor \in Int /\ job.until \in Int
BY DEF CollectTyped, Processes, Jobs

(* A page is the beginning of what the venue has of the window. *)
LEMMA AnswerIs ==
  ASSUME CollectTyped, NEW day
  PROVE  /\ There(day) \in Seq(Prints)
         /\ RangeOf(There(day)) =
              {p \in printed : Asked(day) <= At[p] /\ At[p] < DayEnds(day, jobs["backfill"])}
         /\ \A m, n \in DOMAIN There(day) : m < n =>
              At[There(day)[m]] <= At[There(day)[n]] /\ There(day)[m] # There(day)[n]
         /\ PageOf(day) \in Seq(Prints)
         /\ \E n \in Nat : /\ n = IF Len(There(day)) < Page THEN Len(There(day)) ELSE Page
                           /\ n <= Len(There(day))
                           /\ DOMAIN PageOf(day) = 1..n /\ Len(PageOf(day)) = n
                           /\ \A i \in 1..n : PageOf(day)[i] = There(day)[i]
<1>1. /\ There(day) \in Seq(Prints)
      /\ RangeOf(There(day)) =
           {p \in printed : Asked(day) <= At[p] /\ At[p] < DayEnds(day, jobs["backfill"])}
      /\ \A m, n \in DOMAIN There(day) : m < n =>
           At[There(day)[m]] <= At[There(day)[n]] /\ There(day)[m] # There(day)[n]
  BY BetweenIs DEF There, CollectTyped
<1>2. PICK n \in Nat : /\ n = IF Len(There(day)) < Page THEN Len(There(day)) ELSE Page
                       /\ n <= Len(There(day))
  <2>1. Len(There(day)) \in Nat /\ Page \in Nat
    BY <1>1, CollectorAssumption
  <2> QED BY <2>1
<1>3. PageOf(day) = SubSeq(There(day), 1, n)
  BY <1>2 DEF PageOf
<1>4. /\ PageOf(day) \in Seq(Prints) /\ DOMAIN PageOf(day) = 1..n /\ Len(PageOf(day)) = n
      /\ \A i \in 1..n : PageOf(day)[i] = There(day)[i]
  BY <1>1, <1>2, <1>3, Firsts
<1> QED BY <1>1, <1>2, <1>4

(* A day that is over leaves its batches to be written. *)
LEMMA OverFits ==
  ASSUME CollectTyped, Ready("backfill"), NEW day, NEW rows \in Seq(Prints)
  PROVE  /\ Fits(DayOver(day, rows))
         /\ DayOver(day, rows).left = jobs["backfill"].left \ {day}
         /\ DayOver(day, rows).batches = Batches(rows)
         /\ DayOver(day, rows).pages = 0 /\ DayOver(day, rows).fetched = << >>
         /\ DayOver(day, rows).part = jobs["backfill"].part /\ DayOver(day, rows).open = jobs["backfill"].open
         /\ DayOver(day, rows).runs
         /\ DayOver(day, rows).until = jobs["backfill"].until
<1> DEFINE job == jobs["backfill"]
<1>1. job \in Jobs /\ job.runs /\ job.part = 0 /\ ~job.open
  BY BackfillIs DEF Ready, Busy, Fits
<1>2. Batches(rows) \in Seq(Rows) /\ \A n \in DOMAIN Batches(rows) : OfItsDay(Batches(rows)[n])
  BY BatchesAre
<1>3. << >> \in Seq(Prints)
  OBVIOUS
<1>4. DayOver(day, rows) = [job EXCEPT !.left = @ \ {day}, !.pages = 0, !.cursor = 0, !.fetched = << >>,
                                       !.batches = Batches(rows)]
  BY DEF DayOver
<1> HIDE DEF job
<1>5. DayOver(day, rows) \in Jobs
  <2>1. DayOver(day, rows) =
          [runs |-> job.runs, batches |-> Batches(rows), part |-> job.part, open |-> job.open,
           left |-> job.left \ {day}, until |-> job.until, pages |-> 0, cursor |-> 0, fetched |-> << >>]
    BY <1>1, <1>4 DEF Jobs
  <2>2. job.left \ {day} \in SUBSET Int
    BY <1>1 DEF Jobs
  <2>3. /\ job.runs \in BOOLEAN /\ job.part \in Nat /\ job.open \in BOOLEAN /\ job.until \in Int
        /\ 0 \in Nat /\ 0 \in Int
    BY <1>1 DEF Jobs
  <2> DEFINE b == Batches(rows)  left == job.left \ {day}  runs == job.runs  part == job.part
             open == job.open  until == job.until  none == << >>
  <2>4. /\ b \in Seq(Rows) /\ left \in SUBSET Int /\ runs \in BOOLEAN /\ part \in Nat /\ open \in BOOLEAN
        /\ until \in Int /\ none \in Seq(Prints)
    BY <1>2, <1>3, <2>2, <2>3
  <2>5. DayOver(day, rows) = [runs |-> runs, batches |-> b, part |-> part, open |-> open,
           left |-> left, until |-> until, pages |-> 0, cursor |-> 0, fetched |-> none]
    BY <2>1
  <2> HIDE DEF b, left, runs, part, open, until, none
  <2>6. [runs |-> runs, batches |-> b, part |-> part, open |-> open,
         left |-> left, until |-> until, pages |-> 0, cursor |-> 0, fetched |-> none] \in Jobs
    BY <2>4 DEF Jobs
  <2> QED BY <2>5, <2>6, Zenon
<1>6. /\ DayOver(day, rows).left = job.left \ {day}
      /\ DayOver(day, rows).batches = Batches(rows)
      /\ DayOver(day, rows).pages = 0 /\ DayOver(day, rows).fetched = << >>
      /\ DayOver(day, rows).part = job.part /\ DayOver(day, rows).open = job.open
      /\ DayOver(day, rows).runs /\ DayOver(day, rows).until = job.until
  BY <1>1, <1>4 DEF Jobs
<1> QED BY <1>1, <1>2, <1>5, <1>6 DEF Fits, job

(* A page that is not the last is added to what was fetched. *)
LEMMA NextFits ==
  ASSUME CollectTyped, Ready("backfill"), NEW day, MoreOf(day)
  PROVE  /\ Fits(NextPage(day))
         /\ NextPage(day).left = jobs["backfill"].left
         /\ NextPage(day).batches = jobs["backfill"].batches
         /\ NextPage(day).pages = jobs["backfill"].pages + 1
         /\ NextPage(day).fetched = jobs["backfill"].fetched \o PageOf(day)
         /\ NextPage(day).cursor = Cursor(LatestOf(day))
         /\ NextPage(day).part = jobs["backfill"].part /\ NextPage(day).open = jobs["backfill"].open
         /\ NextPage(day).runs
         /\ NextPage(day).until = jobs["backfill"].until
<1> DEFINE job == jobs["backfill"]
<1>1. job \in Jobs /\ job.runs /\ Fits(job) /\ job.pages \in Nat /\ job.fetched \in Seq(Prints)
  BY BackfillIs DEF Ready
<1>2. job.fetched \o PageOf(day) \in Seq(Prints)
  BY <1>1, AnswerIs, Joined
<1>3. LatestOf(day) \in Nat /\ Cursor(LatestOf(day)) \in Int
  <2>1. PICK n \in Nat : /\ n = IF Len(There(day)) < Page THEN Len(There(day)) ELSE Page
                         /\ DOMAIN PageOf(day) = 1..n /\ Len(PageOf(day)) = n
    BY AnswerIs
  <2>2. n = Page /\ n # 0
    BY <2>1, AnswerIs, CollectorAssumption DEF MoreOf
  <2>3. n \in 1..n
    BY <2>2
  <2>4. PageOf(day)[n] \in Prints
    BY <2>1, <2>3, AnswerIs
  <2>5. LatestOf(day) = At[PageOf(day)[n]]
    BY <2>1 DEF LatestOf
  <2> QED BY <2>4, <2>5, TapeAssumption DEF Cursor
<1>4. NextPage(day) = [job EXCEPT !.fetched = @ \o PageOf(day), !.pages = @ + 1,
                                  !.cursor = Cursor(LatestOf(day))]
  BY DEF NextPage
<1> HIDE DEF job
<1>5. NextPage(day) \in Jobs
  <2>1. NextPage(day) =
          [runs |-> job.runs, batches |-> job.batches, part |-> job.part, open |-> job.open,
           left |-> job.left, until |-> job.until, pages |-> job.pages + 1,
           cursor |-> Cursor(LatestOf(day)), fetched |-> job.fetched \o PageOf(day)]
    BY <1>1, <1>4 DEF Jobs
  <2>2. job.pages + 1 \in Nat
    BY <1>1
  <2>3. /\ job.runs \in BOOLEAN /\ job.part \in Nat /\ job.open \in BOOLEAN /\ job.until \in Int
        /\ job.left \in SUBSET Int /\ job.batches \in Seq(Rows)
    BY <1>1 DEF Jobs
  <2> DEFINE b == job.batches  left == job.left  runs == job.runs  part == job.part
             open == job.open  until == job.until  pages == job.pages + 1
             cursor == Cursor(LatestOf(day))  fetched == job.fetched \o PageOf(day)
  <2>4. /\ b \in Seq(Rows) /\ left \in SUBSET Int /\ runs \in BOOLEAN /\ part \in Nat /\ open \in BOOLEAN
        /\ until \in Int /\ pages \in Nat /\ cursor \in Int /\ fetched \in Seq(Prints)
    BY <1>2, <1>3, <2>2, <2>3
  <2>5. NextPage(day) = [runs |-> runs, batches |-> b, part |-> part, open |-> open,
           left |-> left, until |-> until, pages |-> pages, cursor |-> cursor, fetched |-> fetched]
    BY <2>1
  <2> HIDE DEF b, left, runs, part, open, until, pages, cursor, fetched
  <2>6. [runs |-> runs, batches |-> b, part |-> part, open |-> open,
         left |-> left, until |-> until, pages |-> pages, cursor |-> cursor, fetched |-> fetched] \in Jobs
    BY <2>4 DEF Jobs
  <2> QED BY <2>5, <2>6, Zenon
<1>6. /\ NextPage(day).left = job.left
      /\ NextPage(day).batches = job.batches
      /\ NextPage(day).pages = job.pages + 1
      /\ NextPage(day).fetched = job.fetched \o PageOf(day)
      /\ NextPage(day).cursor = Cursor(LatestOf(day))
      /\ NextPage(day).part = job.part /\ NextPage(day).open = job.open
      /\ NextPage(day).runs /\ NextPage(day).until = job.until
  BY <1>1, <1>4 DEF Jobs
<1> QED BY <1>1, <1>5, <1>6 DEF Fits, job

(* A job after a step of writing. *)
Worked(job, batches, part, open) == [job EXCEPT !.batches = batches, !.part = part, !.open = open]

(* What writing changes of a job. *)
LEMMA WorkedFits ==
  ASSUME NEW job, Fits(job), job.runs,
         NEW batches \in Seq(Rows), \A n \in DOMAIN batches : OfItsDay(batches[n]),
         NEW part \in Nat, NEW open \in BOOLEAN,
         open => part # 0, part # 0 => batches # << >>,
         NEW new, new = Worked(job, batches, part, open)
  PROVE  /\ Fits(new) /\ new.batches = batches /\ new.part = part /\ new.open = open /\ new.runs
         /\ new.left = job.left /\ new.pages = job.pages /\ new.cursor = job.cursor
         /\ new.fetched = job.fetched /\ new.until = job.until
<1>1. job \in Jobs
  BY DEF Fits
<1>2. new \in Jobs
  BY <1>1 DEF Jobs, Worked
<1>3. /\ new.batches = batches /\ new.part = part /\ new.open = open /\ new.runs
      /\ new.left = job.left /\ new.pages = job.pages /\ new.cursor = job.cursor
      /\ new.fetched = job.fetched /\ new.until = job.until
  BY <1>1 DEF Jobs, Worked
<1> QED BY <1>2, <1>3 DEF Fits

(* The types of any job; only one that runs is busy. *)
LEMMA ThatJob ==
  ASSUME CollectTyped, NEW w \in Processes
  PROVE  /\ Fits(jobs[w]) /\ jobs[w] \in Jobs /\ (Busy(w) => jobs[w].runs)
         /\ (jobs[w].open => jobs[w].part # 0) /\ (jobs[w].part # 0 => Busy(w))
         /\ jobs[w].batches \in Seq(Rows) /\ jobs[w].part \in Nat /\ jobs[w].open \in BOOLEAN
         /\ \A n \in DOMAIN jobs[w].batches : OfItsDay(jobs[w].batches[n])
         /\ jobs[w].runs \in BOOLEAN
<1>1. Fits(jobs[w]) /\ jobs[w] \in Jobs
  BY DEF CollectTyped, Fits
<1>2. /\ Busy(w) => jobs[w].runs
      /\ jobs[w].open => jobs[w].part # 0
      /\ jobs[w].part # 0 => Busy(w)
  BY <1>1 DEF Fits, Busy, Stopped
<1> QED BY <1>1, <1>2 DEF Fits, Jobs

(* A flush changes the collector's batches and its buffer only. *)
LEMMA FlushesFit ==
  ASSUME CollectTyped, Ready("collect"), Flushes
  PROVE  /\ jobs' \in [Processes -> Jobs] /\ \A v \in Processes : Fits(jobs'[v])
         /\ jobs'["backfill"] = jobs["backfill"]
         /\ jobs'["collect"].part = jobs["collect"].part /\ jobs'["collect"].open = jobs["collect"].open
         /\ jobs'["collect"].runs = jobs["collect"].runs
         /\ buffer' \in Seq(Prints)
<1>1. CASE buffer = << >>
  BY <1>1 DEF CollectTyped, Flushes
<1>2. CASE buffer # << >>
  <2> DEFINE w == "collect"
             new == [jobs[w] EXCEPT !.batches = Batches(buffer)]
  <2>1. /\ Batches(buffer) \in Seq(Rows)
        /\ \A n \in DOMAIN Batches(buffer) : OfItsDay(Batches(buffer)[n])
    BY BatchesAre DEF CollectTyped
  <2>2. w \in Processes /\ "backfill" \in Processes /\ jobs[w].runs
    BY DEF Processes, Ready
  <2>3. /\ Fits(jobs[w]) /\ jobs[w] \in Jobs /\ jobs[w].part \in Nat /\ jobs[w].open \in BOOLEAN
        /\ jobs[w].part = 0 /\ ~jobs[w].open
    BY <2>2, ThatJob DEF Ready
  <2>4. new = Worked(jobs[w], Batches(buffer), jobs[w].part, jobs[w].open)
    BY <2>3 DEF Jobs, Worked
  <2>5. Sets(w, new) /\ buffer' = << >>
    BY <1>2 DEF Flushes
  <2> HIDE DEF new
  <2>6. Fits(new) /\ new.part = jobs[w].part /\ new.open = jobs[w].open /\ new.runs
    BY <2>1, <2>2, <2>3, <2>4, WorkedFits
  <2>7. /\ jobs' \in [Processes -> Jobs] /\ \A v \in Processes : Fits(jobs'[v])
        /\ jobs'[w] = new /\ \A v \in Processes : v # w => jobs'[v] = jobs[v]
    BY <2>2, <2>5, <2>6, OneJobSet
  <2>8. << >> \in Seq(Prints)
    OBVIOUS
  <2> QED BY <2>2, <2>5, <2>6, <2>7, <2>8
<1> QED BY <1>1, <1>2

(* Counting the parts changes the part of the job only. *)
LEMMA CountFits ==
  ASSUME CollectTyped, NEW w \in Processes, CountParts(w)
  PROVE  /\ jobs' \in [Processes -> Jobs] /\ \A v \in Processes : Fits(jobs'[v])
         /\ \A v \in Processes : v # w => jobs'[v] = jobs[v]
         /\ jobs'[w].part = Len(store[Batch(w).day]) + 1 /\ jobs'[w].part \in Nat \ {0}
         /\ jobs'[w].batches = jobs[w].batches /\ jobs'[w].open = jobs[w].open /\ jobs'[w].runs
         /\ jobs'[w].left = jobs[w].left /\ jobs'[w].pages = jobs[w].pages
         /\ jobs'[w].cursor = jobs[w].cursor /\ jobs'[w].fetched = jobs[w].fetched
         /\ jobs'[w].until = jobs[w].until
<1> DEFINE part == NextPart(store, Batch(w).day)
           new == [jobs[w] EXCEPT !.part = part]
<1>1. /\ Fits(jobs[w]) /\ jobs[w] \in Jobs /\ jobs[w].runs /\ jobs[w].open \in BOOLEAN
      /\ jobs[w].batches \in Seq(Rows) /\ \A n \in DOMAIN jobs[w].batches : OfItsDay(jobs[w].batches[n])
      /\ jobs[w].batches # << >>
  BY ThatJob DEF CountParts, Busy
<1>2. part \in Nat \ {0} /\ part = Len(store[Batch(w).day]) + 1
  <2>1. Batch(w).day \in Days
    BY BatchIs DEF CountParts
  <2>2. Len(store[Batch(w).day]) \in Nat
    BY <2>1 DEF CollectTyped, Stores
  <2> QED BY <2>2 DEF NextPart
<1>3. new = Worked(jobs[w], jobs[w].batches, part, jobs[w].open)
  BY <1>1 DEF Jobs, Worked
<1>4. Sets(w, new)
  BY DEF CountParts
<1> HIDE DEF new, part
<1>5. /\ Fits(new) /\ new.batches = jobs[w].batches /\ new.part = part /\ new.open = jobs[w].open /\ new.runs
      /\ new.left = jobs[w].left /\ new.pages = jobs[w].pages /\ new.cursor = jobs[w].cursor
      /\ new.fetched = jobs[w].fetched /\ new.until = jobs[w].until
  BY <1>1, <1>2, <1>3, WorkedFits
<1>6. /\ jobs' \in [Processes -> Jobs] /\ \A v \in Processes : Fits(jobs'[v])
      /\ jobs'[w] = new /\ \A v \in Processes : v # w => jobs'[v] = jobs[v]
  BY <1>4, <1>5, OneJobSet
<1> QED BY <1>2, <1>5, <1>6

(* Opening the file changes nothing of a job but that. *)
LEMMA OpenFits ==
  ASSUME CollectTyped, NEW w \in Processes, OpenPart(w)
  PROVE  /\ jobs' \in [Processes -> Jobs] /\ \A v \in Processes : Fits(jobs'[v])
         /\ \A v \in Processes : v # w => jobs'[v] = jobs[v]
         /\ jobs'[w].part = jobs[w].part /\ jobs'[w].open
         /\ jobs'[w].batches = jobs[w].batches /\ jobs'[w].runs
         /\ jobs'[w].left = jobs[w].left /\ jobs'[w].pages = jobs[w].pages
         /\ jobs'[w].cursor = jobs[w].cursor /\ jobs'[w].fetched = jobs[w].fetched
         /\ jobs'[w].until = jobs[w].until
<1> DEFINE open == TRUE
           new == [jobs[w] EXCEPT !.open = TRUE]
<1>1. /\ Fits(jobs[w]) /\ jobs[w] \in Jobs /\ jobs[w].runs /\ jobs[w].part \in Nat
      /\ jobs[w].batches \in Seq(Rows) /\ \A n \in DOMAIN jobs[w].batches : OfItsDay(jobs[w].batches[n])
      /\ jobs[w].batches # << >> /\ jobs[w].part # 0
  BY ThatJob DEF OpenPart, Busy
<1>3. new = Worked(jobs[w], jobs[w].batches, jobs[w].part, open)
  BY <1>1 DEF Jobs, Worked
<1>4. Sets(w, new)
  BY DEF OpenPart
<1>7. open \in BOOLEAN
  OBVIOUS
<1>8. open
  OBVIOUS
<1> HIDE DEF new, open
<1>5. /\ Fits(new) /\ new.batches = jobs[w].batches /\ new.part = jobs[w].part /\ new.open = open /\ new.runs
      /\ new.left = jobs[w].left /\ new.pages = jobs[w].pages /\ new.cursor = jobs[w].cursor
      /\ new.fetched = jobs[w].fetched /\ new.until = jobs[w].until
  BY <1>1, <1>3, <1>7, WorkedFits
<1>6. /\ jobs' \in [Processes -> Jobs] /\ \A v \in Processes : Fits(jobs'[v])
      /\ jobs'[w] = new /\ \A v \in Processes : v # w => jobs'[v] = jobs[v]
  BY <1>4, <1>5, OneJobSet
<1> QED BY <1>5, <1>6, <1>8

(* Closing the file ends a batch. *)
LEMMA CloseFits ==
  ASSUME CollectTyped, NEW w \in Processes, ClosePart(w)
  PROVE  /\ jobs' \in [Processes -> Jobs] /\ \A v \in Processes : Fits(jobs'[v])
         /\ \A v \in Processes : v # w => jobs'[v] = jobs[v]
         /\ jobs'[w].part = 0 /\ ~jobs'[w].open
         /\ jobs'[w].batches = Tail(jobs[w].batches) /\ jobs'[w].runs
         /\ jobs'[w].left = jobs[w].left /\ jobs'[w].pages = jobs[w].pages
         /\ jobs'[w].cursor = jobs[w].cursor /\ jobs'[w].fetched = jobs[w].fetched
         /\ jobs'[w].until = jobs[w].until
<1> DEFINE open == FALSE  rest == Tail(jobs[w].batches)
           new == [jobs[w] EXCEPT !.batches = Tail(@), !.part = 0, !.open = FALSE]
<1>1. /\ Fits(jobs[w]) /\ jobs[w] \in Jobs /\ jobs[w].runs /\ 0 \in Nat 
  BY ThatJob DEF ClosePart
<1>2. rest \in Seq(Rows) /\ \A n \in DOMAIN rest : OfItsDay(rest[n])
  BY BatchIs DEF ClosePart
<1>3. new = Worked(jobs[w], rest, 0, open)
  BY <1>1 DEF Jobs, Worked
<1>4. Sets(w, new)
  BY DEF ClosePart
<1>7. open \in BOOLEAN
  OBVIOUS
<1>8. ~open
  OBVIOUS
<1> HIDE DEF new, open, rest
<1>5. /\ Fits(new) /\ new.batches = rest /\ new.part = 0 /\ new.open = open /\ new.runs
      /\ new.left = jobs[w].left /\ new.pages = jobs[w].pages /\ new.cursor = jobs[w].cursor
      /\ new.fetched = jobs[w].fetched /\ new.until = jobs[w].until
  BY <1>1, <1>2, <1>3, <1>7, <1>8, WorkedFits
<1>6. /\ jobs' \in [Processes -> Jobs] /\ \A v \in Processes : Fits(jobs'[v])
      /\ jobs'[w] = new /\ \A v \in Processes : v # w => jobs'[v] = jobs[v]
  BY <1>4, <1>5, OneJobSet
<1> QED BY <1>5, <1>6, <1>8 DEF rest

(* Backfill begins with nothing in hand. *)
LEMMA BackfillBegins ==
  ASSUME CollectTyped, NEW until \in 0..Ever, BackfillStarts(until)
  PROVE  /\ jobs' \in [Processes -> Jobs] /\ \A v \in Processes : Fits(jobs'[v])
         /\ jobs'["collect"] = jobs["collect"]
         /\ jobs'["backfill"].part = 0 /\ ~jobs'["backfill"].open
         /\ jobs'["backfill"].batches = << >>
         /\ jobs'["backfill"].pages = 0 /\ jobs'["backfill"].fetched = << >>
<1> DEFINE left == {d \in DaysAsked : d < until}
           new == [Started EXCEPT !.left = left, !.until = until]
<1>1. left \in SUBSET Int /\ until \in Int
  <2>1. \A n \in Nat : \A u \in 0..n : u \in Int
    OBVIOUS
  <2>2. until \in Int
    BY <2>1, LastTime
  <2> QED BY <2>2, CollectorAssumption
<1>2. Started \in Jobs /\ Started.runs /\ Started.batches = << >> /\ Started.part = 0 /\ ~Started.open
      /\ Started.pages = 0 /\ Started.fetched = << >>
  BY StoppedFits DEF Fits, Started, Stopped
<1>3. Sets("backfill", new)
  BY DEF BackfillStarts
<1> HIDE DEF left
<1>4. /\ new \in Jobs /\ new.runs /\ new.batches = << >> /\ new.part = 0 /\ ~new.open
      /\ new.pages = 0 /\ new.fetched = << >>
  BY <1>1, <1>2 DEF Jobs
<1> HIDE DEF new
<1>5. Fits(new)
  BY <1>4 DEF Fits
<1>6. "backfill" \in Processes /\ "collect" \in Processes
  BY DEF Processes
<1>7. /\ jobs' \in [Processes -> Jobs] /\ \A v \in Processes : Fits(jobs'[v])
      /\ jobs'["backfill"] = new /\ \A v \in Processes : v # "backfill" => jobs'[v] = jobs[v]
  BY <1>3, <1>5, <1>6, OneJobSet
<1> QED BY <1>4, <1>6, <1>7

(* No page is asked for while a part is written. *)
LEMMA PageFits ==
  ASSUME CollectTyped, NEW day, NEW fails, BackfillPage(day, fails)
  PROVE  /\ jobs' \in [Processes -> Jobs] /\ \A v \in Processes : Fits(jobs'[v])
         /\ jobs'["collect"] = jobs["collect"]
         /\ jobs'["backfill"].part = jobs["backfill"].part
         /\ jobs'["backfill"].open = jobs["backfill"].open
         /\ jobs'["backfill"].runs
<1> DEFINE job == jobs["backfill"]
<1>1. Ready("backfill") /\ \/ fails /\ Sets("backfill", DayOver(day, << >>))
                           \/ ~fails /\ MoreOf(day) /\ Sets("backfill", NextPage(day))
                           \/ ~fails /\ ~MoreOf(day)
                              /\ Sets("backfill", DayOver(day, job.fetched \o PageOf(day)))
  BY PageAsked
<1>2. << >> \in Seq(Prints) /\ job.fetched \o PageOf(day) \in Seq(Prints)
  BY BackfillIs, AnswerIs, Joined
<1>3. PICK new : /\ Sets("backfill", new) /\ Fits(new) /\ new.runs
                 /\ new.part = job.part /\ new.open = job.open
  <2>1. CASE fails
    BY <1>1, <1>2, <2>1, OverFits
  <2>2. CASE ~fails /\ MoreOf(day)
    BY <1>1, <2>2, NextFits
  <2>3. CASE ~fails /\ ~MoreOf(day)
    BY <1>1, <1>2, <2>3, OverFits
  <2> QED BY <1>1, <2>1, <2>2, <2>3
<1>4. "backfill" \in Processes /\ "collect" \in Processes
  BY DEF Processes
<1>5. /\ jobs' \in [Processes -> Jobs] /\ \A v \in Processes : Fits(jobs'[v])
      /\ jobs'["backfill"] = new /\ \A v \in Processes : v # "backfill" => jobs'[v] = jobs[v]
  BY <1>3, <1>4, OneJobSet
<1> QED BY <1>3, <1>4, <1>5

(* CollectTyped is inductive: one step of it for every action. *)
LEMMA CollectTypedStays ==
  ASSUME CollectTyped, [CollectNext]_collectorVars
  PROVE  CollectTyped'
<1> DEFINE JobsFit == jobs' \in [Processes -> Jobs] /\ \A w \in Processes : Fits(jobs'[w])
<1>0. /\ printed \subseteq Prints /\ buffer \in Seq(Prints) /\ store \in Stores /\ flushed \subseteq Prints
      /\ jobs \in [Processes -> Jobs] /\ \A w \in Processes : Fits(jobs[w])
      /\ "collect" \in Processes /\ "backfill" \in Processes /\ << >> \in Seq(Prints)
  BY DEF CollectTyped, Processes
<1>1. ASSUME NEW p \in Prints, Printing(p) PROVE CollectTyped'
  <2>1. printed' \subseteq Prints /\ buffer' \in Seq(Prints) /\ UNCHANGED <<jobs, store, flushed>>
    BY <1>0, <1>1 DEF Printing
  <2> QED BY <1>0, <2>1 DEF CollectTyped
<1>2. CASE Connects
  BY <1>0, <1>2 DEF Connects, CollectTyped
<1>3. CASE FlushTimer
  <2>1. JobsFit /\ buffer' \in Seq(Prints)
    BY <1>3, FlushesFit DEF FlushTimer
  <2> QED BY <1>0, <1>3, <2>1 DEF FlushTimer, CollectTyped
<1>4. CASE Disconnects
  <2>1. JobsFit /\ buffer' \in Seq(Prints)
    BY <1>4, FlushesFit DEF Disconnects
  <2> QED BY <1>0, <1>4, <2>1 DEF Disconnects, CollectTyped
<1>5. CASE Interrupt
  <2>1. JobsFit
    BY <1>0, <1>5, StoppedFits, OneJobSet DEF Interrupt
  <2> QED BY <1>0, <1>5, <2>1 DEF Interrupt, CollectTyped
<1>6. ASSUME NEW w \in Processes, CountParts(w) PROVE CollectTyped'
  <2>1. JobsFit
    BY <1>6, CountFits
  <2> QED BY <1>0, <1>6, <2>1 DEF CountParts, CollectTyped
<1>7. ASSUME NEW w \in Processes, OpenPart(w) PROVE CollectTyped'
  <2>1. JobsFit
    BY <1>7, OpenFits
  <2>2. store' \in Stores
    <3>1. Batch(w).day \in Days /\ jobs[w].part \in Nat /\ jobs[w].part # 0
      BY <1>7, BatchIs, ThatJob DEF OpenPart
    <3>2. store' = WritePart(store, Batch(w).day, jobs[w].part, Unclosed)
      BY <1>7 DEF OpenPart
    <3> QED BY <1>0, <3>1, <3>2, WritesPart
  <2> QED BY <1>0, <1>7, <2>1, <2>2 DEF OpenPart, CollectTyped
<1>8. ASSUME NEW w \in Processes, ClosePart(w) PROVE CollectTyped'
  <2>1. JobsFit
    BY <1>8, CloseFits
  <2>2. Batch(w).day \in Days /\ Batch(w).rows \in Seq(Prints) /\ jobs[w].part \in Nat /\ jobs[w].part # 0
    BY <1>8, BatchIs, ThatJob DEF ClosePart
  <2>3. store' \in Stores
    <3>2. store' = WritePart(store, Batch(w).day, jobs[w].part, Batch(w).rows)
      BY <1>8 DEF ClosePart
    <3> QED BY <1>0, <2>2, <3>2, WritesPart
  <2>4. flushed' \subseteq Prints
    BY <1>0, <1>8, <2>2 DEF ClosePart, RangeOf
  <2> QED BY <1>0, <1>8, <2>1, <2>3, <2>4 DEF ClosePart, CollectTyped
<1>9. ASSUME NEW w \in Processes, Kill(w) PROVE CollectTyped'
  <2>1. JobsFit
    BY <1>0, <1>9, StoppedFits, OneJobSet DEF Kill
  <2>2. buffer' \in Seq(Prints)
    BY <1>0, <1>9 DEF Kill
  <2> QED BY <1>0, <1>9, <2>1, <2>2 DEF Kill, CollectTyped
<1>10. ASSUME NEW day, NEW fails, BackfillPage(day, fails) PROVE CollectTyped'
  <2>1. JobsFit
    BY <1>10, PageFits
  <2>2. UNCHANGED <<printed, socket, buffer, store, flushed>>
    BY <1>10, PageAsked
  <2> QED BY <1>0, <2>1, <2>2 DEF CollectTyped
<1>11. CASE CollectStarts
  <2>1. JobsFit
    BY <1>0, <1>11, StoppedFits, OneJobSet DEF CollectStarts
  <2> QED BY <1>0, <1>11, <2>1 DEF CollectStarts, CollectTyped
<1>12. CASE BackfillEnds
  <2>1. JobsFit
    BY <1>0, <1>12, StoppedFits, OneJobSet DEF BackfillEnds
  <2> QED BY <1>0, <1>12, <2>1 DEF BackfillEnds, CollectTyped
<1>13. ASSUME NEW until \in 0..Ever, BackfillStarts(until) PROVE CollectTyped'
  <2>1. JobsFit
    BY <1>13, BackfillBegins
  <2> QED BY <1>0, <1>13, <2>1 DEF BackfillStarts, CollectTyped
<1>14. CASE UNCHANGED collectorVars
  BY <1>0, <1>14 DEF collectorVars, CollectTyped
<1> QED BY <1>1, <1>2, <1>3, <1>4, <1>5, <1>6, <1>7, <1>8, <1>9, <1>10, <1>11, <1>12, <1>13, <1>14
        DEF CollectNext

-----------------------------------------------------------------------------
(* What was flushed stays in the store. *)

(* A print lies in a part that can be read. *)
Holds(st, p) ==
  \E d \in Days : \E i \in DOMAIN st[d] : st[d][i] # Unclosed /\ p \in RangeOf(st[d][i])

(* The processes take turns. *)
OneAtATime == ~(jobs["collect"].runs /\ jobs["backfill"].runs)

(* The number a process has counted is that of the next part until it has
   opened it, and of an open part after that (append, which counts and then creates). *)
Counted(w) ==
  /\ jobs[w].part # 0 /\ ~jobs[w].open => jobs[w].part = Len(store[Batch(w).day]) + 1
  /\ jobs[w].open => /\ jobs[w].part = Len(store[Batch(w).day])
                     /\ store[Batch(w).day][jobs[w].part] = Unclosed

(* The inductive invariant: prints that were flushed lie in a part that can be read. *)
FlushedKept ==
  /\ CollectTyped
  /\ OneAtATime
  /\ \A w \in Processes : Counted(w)
  /\ \A p \in flushed : Holds(store, p)

(* A part that is opened takes nothing away. *)
LEMMA Appended ==
  ASSUME NEW st \in Stores, NEW d \in Days, NEW after \in Stores,
         \A e \in Days : e # d => after[e] = st[e], after[d] = Append(st[d], Unclosed)
  PROVE  /\ \A p : Holds(st, p) => Holds(after, p)
         /\ Len(after[d]) = Len(st[d]) + 1 /\ after[d][Len(st[d]) + 1] = Unclosed
<1> DEFINE C == Seq(Prints) \cup {Unclosed}  s == st[d]  t == Append(s, Unclosed)
<1>1. s \in Seq(C)
  BY DEF Stores
<1> HIDE DEF C, s
<1>2. PICK N \in Nat : N = Len(s) /\ DOMAIN s = 1..N
  BY <1>1
<1>3. DOMAIN t = 1..(N + 1) /\ Len(t) = N + 1 /\ t[N + 1] = Unclosed /\ \A i \in 1..N : t[i] = s[i]
  BY <1>1, <1>2
<1>4. ASSUME NEW p, Holds(st, p) PROVE Holds(after, p)
  <2>1. PICK e \in Days : \E i \in DOMAIN st[e] : st[e][i] # Unclosed /\ p \in RangeOf(st[e][i])
    BY <1>4 DEF Holds
  <2>2. PICK i \in DOMAIN st[e] : st[e][i] # Unclosed /\ p \in RangeOf(st[e][i])
    BY <2>1
  <2>3. i \in DOMAIN after[e] /\ after[e][i] = st[e][i]
    <3>1. CASE e # d
      BY <3>1
    <3>2. CASE e = d
      <4>1. i \in 1..N /\ after[e] = t
        BY <1>2, <3>2 DEF s
      <4>2. i \in 1..(N + 1)
        BY <4>1
      <4> QED BY <1>3, <3>2, <4>1, <4>2 DEF s
    <3> QED BY <3>1, <3>2
  <2> QED BY <2>2, <2>3 DEF Holds
<1>5. after[d] = t /\ Len(st[d]) = N
  BY <1>2 DEF s
<1> HIDE DEF t
<1> QED BY <1>3, <1>4, <1>5

(* Nor does the rest of the write, which adds its rows. *)
LEMMA Replaced ==
  ASSUME NEW st \in Stores, NEW d \in Days, NEW after \in Stores, NEW n, n = Len(st[d]), n # 0,
         NEW content \in Seq(Prints), st[d][n] = Unclosed,
         \A e \in Days : e # d => after[e] = st[e], after[d] = [st[d] EXCEPT ![n] = content]
  PROVE  /\ \A p : Holds(st, p) => Holds(after, p)
         /\ \A p \in RangeOf(content) : Holds(after, p)
<1> DEFINE C == Seq(Prints) \cup {Unclosed}  s == st[d]  t == [s EXCEPT ![n] = content]
<1>1. s \in Seq(C)
  BY DEF Stores
<1>2. n = Len(s) /\ s[n] = Unclosed /\ after[d] = t
  OBVIOUS
<1> HIDE DEF C, s
<1>3. n \in DOMAIN s
  BY <1>1, <1>2
<1>4. DOMAIN t = DOMAIN s /\ t[n] = content /\ \A i \in DOMAIN s : i # n => t[i] = s[i]
  BY <1>3
<1> HIDE DEF t
<1>5. ASSUME NEW p, Holds(st, p) PROVE Holds(after, p)
  <2>1. PICK e \in Days : \E i \in DOMAIN st[e] : st[e][i] # Unclosed /\ p \in RangeOf(st[e][i])
    BY <1>5 DEF Holds
  <2>2. PICK i \in DOMAIN st[e] : st[e][i] # Unclosed /\ p \in RangeOf(st[e][i])
    BY <2>1
  <2>3. i \in DOMAIN after[e] /\ after[e][i] = st[e][i]
    <3>1. CASE e # d
      BY <3>1
    <3>2. CASE e = d
      <4>1. i \in DOMAIN s /\ s[i] # Unclosed
        BY <2>2, <3>2 DEF s
      <4>2. i # n
        BY <1>2, <4>1
      <4> QED BY <1>2, <1>4, <3>2, <4>1, <4>2 DEF s
    <3> QED BY <3>1, <3>2
  <2> QED BY <2>2, <2>3 DEF Holds
<1>6. ASSUME NEW p \in RangeOf(content) PROVE Holds(after, p)
  <2>1. content # Unclosed
    BY TapeAssumption
  <2>2. n \in DOMAIN after[d] /\ after[d][n] = content
    BY <1>2, <1>3, <1>4
  <2> QED BY <2>1, <2>2 DEF Holds
<1> QED BY <1>5, <1>6

(* The parts of a day after one of them is written. *)
Written(s, part, content) ==
  IF part > Len(s) THEN Append(s, content) ELSE [s EXCEPT ![part] = content]

(* WritePart changes one day. *)
LEMMA PartWritten ==
  ASSUME NEW st \in Stores, NEW d \in Days, NEW part, NEW content,
         NEW after, after = WritePart(st, d, part, content)
  PROVE  after[d] = Written(st[d], part, content) /\ \A e \in Days : e # d => after[e] = st[e]
<1>1. after = [st EXCEPT ![d] = Written(st[d], part, content)]
  BY DEF WritePart, Written
<1> QED BY <1>1 DEF Stores

(* The part after the last is appended, and the last one replaced. *)
LEMMA NextWritten ==
  ASSUME NEW C, NEW s \in Seq(C), NEW content
  PROVE  /\ Written(s, Len(s) + 1, content) = Append(s, content)
         /\ Written(s, Len(s), content) = [s EXCEPT ![Len(s)] = content]
<1>1. Len(s) \in Nat
  OBVIOUS
<1> QED BY <1>1 DEF Written

(* Whoever does nothing has counted as before. *)
LEMMA StaysCounted ==
  ASSUME NEW v \in Processes, Counted(v), store' = store, jobs'[v] = jobs[v]
  PROVE  Counted(v)'
BY DEF Counted, Batch

(* Whoever has no part in hand has none to be wrong about. *)
LEMMA IdleCounted ==
  ASSUME NEW v \in Processes, jobs'[v].part = 0, ~jobs'[v].open
  PROVE  Counted(v)'
BY DEF Counted

(* While one process runs, the other has stopped. *)
LEMMA OnlyOne ==
  ASSUME CollectTyped, OneAtATime, NEW w \in Processes, jobs[w].runs, NEW v \in Processes, v # w
  PROVE  jobs[v] = Stopped /\ jobs[v].part = 0 /\ ~jobs[v].open
<1>1. ~jobs[v].runs
  BY DEF Processes, OneAtATime
<1> QED BY <1>1 DEF CollectTyped, Fits, Stopped

(* Opening a part keeps what was flushed. *)
LEMMA KeptOpen ==
  ASSUME FlushedKept, NEW w \in Processes, OpenPart(w), CollectTyped'
  PROVE  FlushedKept'
<1>1. /\ jobs'[w].part = jobs[w].part /\ jobs'[w].open /\ jobs'[w].batches = jobs[w].batches
      /\ \A v \in Processes : v # w => jobs'[v] = jobs[v]
  BY OpenFits DEF FlushedKept
<1>2. /\ jobs[w].runs /\ jobs[w].part \in Nat /\ jobs[w].part # 0 /\ Batch(w).day \in Days
      /\ store \in Stores /\ Counted(w)
  BY ThatJob, BatchIs DEF FlushedKept, OpenPart, CollectTyped
<1>3. jobs[w].part = Len(store[Batch(w).day]) + 1
  BY <1>2 DEF Counted, OpenPart
<1>4. /\ store' \in Stores
      /\ \A e \in Days : e # Batch(w).day => store'[e] = store[e]
      /\ store'[Batch(w).day] = Append(store[Batch(w).day], Unclosed)
  <2>1. store' = WritePart(store, Batch(w).day, jobs[w].part, Unclosed)
    BY DEF OpenPart
  <2>2. store' \in Stores
    BY <1>2, <2>1, WritesPart
  <2>3. /\ store'[Batch(w).day] = Written(store[Batch(w).day], jobs[w].part, Unclosed)
        /\ \A e \in Days : e # Batch(w).day => store'[e] = store[e]
    BY <1>2, <2>1, PartWritten
  <2>4. store[Batch(w).day] \in Seq(Seq(Prints) \cup {Unclosed})
    BY <1>2 DEF Stores
  <2> QED BY <1>3, <2>2, <2>3, <2>4, NextWritten
<1>5. /\ \A p : Holds(store, p) => Holds(store', p)
      /\ Len(store'[Batch(w).day]) = Len(store[Batch(w).day]) + 1
      /\ store'[Batch(w).day][Len(store[Batch(w).day]) + 1] = Unclosed
  BY <1>2, <1>4, Appended
<1>6. Counted(w)'
  <2>1. Batch(w)' = Batch(w)
    BY <1>1 DEF Batch
  <2> QED BY <1>1, <1>3, <1>5, <2>1 DEF Counted
<1>7. ASSUME NEW v \in Processes, v # w PROVE Counted(v)' /\ jobs'[v] = Stopped
  <2>1. jobs[v] = Stopped /\ jobs'[v] = jobs[v] /\ jobs[v].part = 0 /\ ~jobs[v].open
    BY <1>1, <1>2, <1>7, OnlyOne DEF FlushedKept
  <2> QED BY <2>1, IdleCounted
<1>8. OneAtATime'
  BY <1>7 DEF OneAtATime, Processes, Stopped
<1>9. \A p \in flushed' : Holds(store', p)
  BY <1>5 DEF FlushedKept, OpenPart
<1> QED BY <1>6, <1>7, <1>8, <1>9 DEF FlushedKept

(* So does closing it, and its rows are then flushed too. *)
LEMMA KeptClose ==
  ASSUME FlushedKept, NEW w \in Processes, ClosePart(w), CollectTyped'
  PROVE  FlushedKept'
<1>1. /\ jobs'[w].part = 0 /\ ~jobs'[w].open
      /\ \A v \in Processes : v # w => jobs'[v] = jobs[v]
  BY CloseFits DEF FlushedKept
<1>2. /\ jobs[w].runs /\ jobs[w].part \in Nat /\ jobs[w].part # 0
      /\ Batch(w).day \in Days /\ Batch(w).rows \in Seq(Prints)
      /\ store \in Stores /\ Counted(w)
  BY ThatJob, BatchIs DEF FlushedKept, ClosePart, CollectTyped
<1>3. /\ jobs[w].part = Len(store[Batch(w).day])
      /\ store[Batch(w).day][jobs[w].part] = Unclosed
  BY <1>2 DEF Counted, ClosePart
<1>4. /\ store' \in Stores
      /\ \A e \in Days : e # Batch(w).day => store'[e] = store[e]
      /\ store'[Batch(w).day] = [store[Batch(w).day] EXCEPT ![jobs[w].part] = Batch(w).rows]
  <2>1. store' = WritePart(store, Batch(w).day, jobs[w].part, Batch(w).rows)
    BY DEF ClosePart
  <2>2. store' \in Stores
    BY <1>2, <2>1, WritesPart
  <2>3. /\ store'[Batch(w).day] = Written(store[Batch(w).day], jobs[w].part, Batch(w).rows)
        /\ \A e \in Days : e # Batch(w).day => store'[e] = store[e]
    BY <1>2, <2>1, PartWritten
  <2>4. store[Batch(w).day] \in Seq(Seq(Prints) \cup {Unclosed})
    BY <1>2 DEF Stores
  <2> QED BY <1>3, <2>2, <2>3, <2>4, NextWritten
<1>5. /\ \A p : Holds(store, p) => Holds(store', p)
      /\ \A p \in RangeOf(Batch(w).rows) : Holds(store', p)
  <2>1. jobs[w].part # 0
    BY <1>2
  <2> QED BY <1>2, <1>3, <1>4, <2>1, Replaced
<1>7. ASSUME NEW v \in Processes PROVE Counted(v)' /\ (v # w => jobs'[v] = Stopped)
  <2>1. CASE v # w
    <3>1. jobs[v] = Stopped /\ jobs'[v] = jobs[v] /\ jobs[v].part = 0 /\ ~jobs[v].open
      BY <1>1, <1>2, <2>1, OnlyOne DEF FlushedKept
    <3> QED BY <3>1, IdleCounted
  <2>2. CASE v = w
    BY <1>1, <2>2, IdleCounted
  <2> QED BY <2>1, <2>2
<1>8. OneAtATime'
  BY <1>7 DEF OneAtATime, Processes, Stopped
<1>9. \A p \in flushed' : Holds(store', p)
  BY <1>5 DEF FlushedKept, ClosePart
<1> QED BY <1>7, <1>8, <1>9 DEF FlushedKept

(* FlushedKept is inductive when the processes take turns. *)
LEMMA KeptStays ==
  ASSUME ~Together, FlushedKept, [CollectNext]_collectorVars
  PROVE  FlushedKept'
<1>0. CollectTyped' /\ CollectTyped /\ OneAtATime /\ (\A w \in Processes : Counted(w))
  BY CollectTypedStays DEF FlushedKept
<1>1. ASSUME store' = store, flushed' = flushed, OneAtATime',
             \A v \in Processes : jobs'[v] = jobs[v] \/ (jobs'[v].part = 0 /\ ~jobs'[v].open)
                                  \/ Counted(v)'
      PROVE  FlushedKept'
  <2>1. \A v \in Processes : Counted(v)'
    BY <1>0, <1>1, StaysCounted, IdleCounted
  <2> QED BY <1>0, <1>1, <2>1 DEF FlushedKept
<1>2. "collect" \in Processes /\ "backfill" \in Processes /\ Processes = {"collect", "backfill"}
  BY DEF Processes
<1>3. Stopped.part = 0 /\ ~Stopped.open /\ ~Stopped.runs /\ Started.part = 0 /\ ~Started.open
  BY StoppedFits DEF Fits, Stopped, Started
<1>4. ASSUME NEW w \in Processes, NEW job, Fits(job), Sets(w, job)
      PROVE  jobs'[w] = job /\ \A v \in Processes : v # w => jobs'[v] = jobs[v]
  BY <1>0, <1>4, OneJobSet
<1>5. ASSUME NEW p \in Prints, Printing(p) PROVE FlushedKept'
  BY <1>0, <1>1, <1>5 DEF Printing, OneAtATime
<1>6. CASE Connects
  BY <1>0, <1>1, <1>6 DEF Connects, OneAtATime
<1>7. ASSUME Ready("collect"), Flushes, store' = store, flushed' = flushed PROVE FlushedKept'
  <2>1. /\ jobs'["backfill"] = jobs["backfill"]
        /\ jobs'["collect"].part = jobs["collect"].part /\ jobs'["collect"].open = jobs["collect"].open
        /\ jobs'["collect"].runs = jobs["collect"].runs
    BY <1>0, <1>7, FlushesFit
  <2>2. jobs["collect"].part = 0 /\ ~jobs["collect"].open
    BY <1>0, <1>2, <1>7, ThatJob DEF Ready
  <2>3. OneAtATime'
    BY <1>0, <2>1 DEF OneAtATime
  <2> QED BY <1>1, <1>2, <1>7, <2>1, <2>2, <2>3
<1>8. CASE FlushTimer
  BY <1>7, <1>8 DEF FlushTimer
<1>9. CASE Disconnects
  BY <1>7, <1>9 DEF Disconnects
<1>10. ASSUME NEW w \in Processes, Sets(w, Stopped), store' = store, flushed' = flushed PROVE FlushedKept'
  <2>1. jobs'[w] = Stopped /\ \A v \in Processes : v # w => jobs'[v] = jobs[v]
    BY <1>4, <1>10, StoppedFits
  <2>2. OneAtATime'
    BY <1>0, <1>2, <1>3, <2>1 DEF OneAtATime
  <2> QED BY <1>1, <1>3, <1>10, <2>1, <2>2
<1>11. CASE Interrupt
  BY <1>2, <1>10, <1>11 DEF Interrupt
<1>12. ASSUME NEW w \in Processes, Kill(w) PROVE FlushedKept'
  BY <1>10, <1>12 DEF Kill
<1>13. CASE BackfillEnds
  BY <1>2, <1>10, <1>13 DEF BackfillEnds
<1>14. ASSUME NEW w \in Processes, CountParts(w) PROVE FlushedKept'
  <2>1. /\ \A v \in Processes : v # w => jobs'[v] = jobs[v]
        /\ jobs'[w].part = Len(store[Batch(w).day]) + 1
        /\ jobs'[w].batches = jobs[w].batches /\ jobs'[w].open = jobs[w].open /\ jobs'[w].runs
    BY <1>0, <1>14, CountFits
  <2>2. jobs[w].runs /\ ~jobs[w].open
    BY <1>0, <1>14, ThatJob DEF CountParts
  <2>3. Batch(w)' = Batch(w) /\ store' = store /\ flushed' = flushed
    BY <1>14, <2>1 DEF Batch, CountParts
  <2>4. Counted(w)'
    BY <2>1, <2>2, <2>3 DEF Counted
  <2>5. OneAtATime'
    BY <1>0, <1>2, <2>1, <2>2 DEF OneAtATime
  <2> QED BY <1>1, <2>1, <2>3, <2>4, <2>5
<1>15. ASSUME NEW w \in Processes, OpenPart(w) PROVE FlushedKept'
  BY <1>0, <1>15, KeptOpen
<1>16. ASSUME NEW w \in Processes, ClosePart(w) PROVE FlushedKept'
  BY <1>0, <1>16, KeptClose
<1>17. ASSUME NEW day, NEW fails, BackfillPage(day, fails) PROVE FlushedKept'
  <2>1. /\ jobs'["collect"] = jobs["collect"]
        /\ jobs'["backfill"].part = jobs["backfill"].part
        /\ jobs'["backfill"].open = jobs["backfill"].open
        /\ jobs'["backfill"].runs
    BY <1>0, <1>17, PageFits
  <2>2. /\ Ready("backfill") /\ store' = store /\ flushed' = flushed
    BY <1>17, PageAsked
  <2>3. jobs["backfill"].part = 0 /\ ~jobs["backfill"].open /\ jobs["backfill"].runs
    BY <1>0, <1>2, <2>2, ThatJob DEF Ready
  <2>4. OneAtATime'
    BY <1>0, <2>1, <2>3 DEF OneAtATime
  <2> QED BY <1>1, <1>2, <2>1, <2>2, <2>3, <2>4
<1>18. CASE CollectStarts
  <2>1. jobs'["collect"] = Started /\ jobs'["backfill"] = jobs["backfill"] /\ ~jobs["backfill"].runs
    BY <1>2, <1>4, <1>18, StoppedFits DEF CollectStarts
  <2>2. OneAtATime' /\ store' = store /\ flushed' = flushed
    BY <1>18, <2>1 DEF CollectStarts, OneAtATime
  <2> QED BY <1>1, <1>2, <1>3, <2>1, <2>2
<1>19. ASSUME NEW until \in 0..Ever, BackfillStarts(until) PROVE FlushedKept'
  <2>1. /\ jobs'["collect"] = jobs["collect"] /\ ~jobs["collect"].runs
        /\ jobs'["backfill"].part = 0 /\ ~jobs'["backfill"].open
    <3>1. ~jobs["collect"].runs
      BY <1>19 DEF BackfillStarts
    <3> QED BY <1>0, <1>19, <3>1, BackfillBegins
  <2>2. OneAtATime' /\ store' = store /\ flushed' = flushed
    BY <1>19, <2>1 DEF BackfillStarts, OneAtATime
  <2> QED BY <1>1, <1>2, <2>1, <2>2
<1>20. CASE UNCHANGED collectorVars
  BY <1>0, <1>1, <1>20 DEF collectorVars, OneAtATime
<1> QED BY <1>5, <1>6, <1>8, <1>9, <1>11, <1>12, <1>13, <1>14, <1>15, <1>16, <1>17, <1>18, <1>19, <1>20
        DEF CollectNext

(* And what is kept in parts that can be read is read. *)
LEMMA KeptIsReadable ==
  ASSUME FlushedKept
  PROVE  FlushedIsReadable
<1> SUFFICES ASSUME AllReadable(store)
             PROVE  /\ flushed \subseteq RangeOf(ReadAll(store))
                    /\ LET rows == ReadAll(store)
                       IN  \A i, j \in DOMAIN rows : i < j => rows[i] # rows[j] /\ At[rows[i]] <= At[rows[j]]
  BY DEF FlushedIsReadable
<1>1. \A d \in Days : \A i \in DOMAIN store[d] : store[d][i] # Unclosed
  BY EveryDayOverlaps DEF AllReadable, Readable
<1>2. Whole(store)
  <2>1. store \in Stores
    BY DEF FlushedKept, CollectTyped
  <2> SUFFICES ASSUME NEW d \in Days PROVE store[d] \in Seq(Seq(Prints))
    BY <2>1 DEF Whole, Stores
  <2> DEFINE s == store[d]
  <2>2. s \in Seq(Seq(Prints) \cup {Unclosed})
    BY <2>1 DEF Stores
  <2>3. \A i \in DOMAIN s : s[i] # Unclosed
    BY <1>1
  <2> HIDE DEF s
  <2>4. PICK N \in Nat : N = Len(s) /\ DOMAIN s = 1..N /\ s \in [1..N -> Seq(Prints) \cup {Unclosed}]
    BY <2>2
  <2>5. \A i \in 1..N : s[i] \in Seq(Prints)
    BY <2>3, <2>4
  <2>6. s \in [1..N -> Seq(Prints)]
    BY <2>4, <2>5
  <2>7. \A u \in [1..N -> Seq(Prints)] : u \in Seq(Seq(Prints))
    BY <2>4
  <2>8. s \in Seq(Seq(Prints))
    BY <2>6, <2>7
  <2> QED BY <2>8 DEF s
<1>3. \A p \in flushed : \E d \in Days : \E i \in DOMAIN store[d] : \E n \in DOMAIN store[d][i] :
        p = store[d][i][n]
  BY DEF FlushedKept, Holds, RangeOf
<1> QED BY <1>2, <1>3, AllIsRead

(* "Safe to kill at any moment" (fd-ingest): what an append has returned for is
   read ever after, once and in order of time, whatever was flushed twice, by the
   live feed or by backfill, in whatever order, and wherever a process was killed,
   as long as no part was left unclosed.  The processes take turns: two that append
   at a time may count the same number for their part (TapeStore::next_part), and
   the second empties the file of the first. *)
THEOREM FlushedAlwaysReadable ==
  ASSUME ~Together
  PROVE  CollectSpec => []FlushedIsReadable
<1>1. CollectInit => FlushedKept
  <2> SUFFICES ASSUME CollectInit PROVE FlushedKept
    OBVIOUS
  <2>1. \A w \in Processes : jobs[w] = Stopped /\ ~jobs[w].runs /\ ~jobs[w].open /\ jobs[w].part = 0
    BY DEF CollectInit, Stopped
  <2>2. \A w \in Processes : Counted(w)
    BY <2>1 DEF Counted
  <2>3. OneAtATime
    BY <2>1 DEF OneAtATime, Processes
  <2> QED BY <2>2, <2>3, CollectBegins DEF FlushedKept, CollectInit
<1>2. FlushedKept /\ [CollectNext]_collectorVars => FlushedKept'
  BY KeptStays
<1>3. FlushedKept => FlushedIsReadable
  BY KeptIsReadable
<1> QED BY <1>1, <1>2, <1>3, PTL DEF CollectSpec

-----------------------------------------------------------------------------
(* What backfill has fetched of a day. *)

(* No two prints are of one millisecond. *)
Distinct == \A p, q \in printed : At[p] = At[q] => p = q

(* In the midst of a day: its prints up to the cursor are those fetched, and the
   cursor is just after one of them. *)
PagesKept(job, day) ==
  /\ \A d \in job.left : day <= d
  /\ day <= job.cursor /\ job.cursor <= DayEnds(day, job)
  /\ \E q \in printed : job.cursor = At[q] + 1
  /\ Distinct => RangeOf(job.fetched) = {p \in printed : day <= At[p] /\ At[p] < job.cursor}

(* The inductive invariant of the pages. *)
Paged ==
  /\ jobs["backfill"].pages = 0 => jobs["backfill"].fetched = << >>
  /\ jobs["backfill"].pages # 0 => \E day \in jobs["backfill"].left : PagesKept(jobs["backfill"], day)

(* An append of nothing has no batches. *)
LEMMA NoRows == Batches(<< >>) = << >>
<1> DEFINE none == << >>  b == Batches(none)  days == Ascending(DaysOf(none))
<1>1. none \in Seq(Prints) /\ DOMAIN none = {}
  OBVIOUS
<1>2. b \in Seq(Rows)
  BY <1>1, BatchesAre
<1>3. DaysOf(none) = {}
  BY <1>1 DEF DaysOf
<1>4. IsFiniteSet({}) /\ Cardinality({}) = 0 /\ {} \subseteq Int
  BY FS_EmptySet
<1>5. DOMAIN days = 1..0
  BY <1>3, <1>4, AscendingIs DEF Climbs
<1>6. DOMAIN b = 1..0
  BY <1>5 DEF Batches
<1> HIDE DEF b
<1>7. PICK N \in Nat : N = Len(b) /\ DOMAIN b = 1..N
  BY <1>2
<1>8. N = 0
  <2>1. ~(1 \in 1..0)
    OBVIOUS
  <2>2. N >= 1 => 1 \in 1..N
    BY <1>7
  <2> QED BY <1>6, <1>7, <2>1, <2>2
<1>9. b = << >>
  BY <1>2, <1>7, <1>8
<1> QED BY <1>9 DEF b

(* The times of a request are numbers. *)
LEMMA Times ==
  ASSUME CollectTyped, NEW day \in jobs["backfill"].left
  PROVE  /\ day \in Int /\ Asked(day) \in Int /\ DayEnds(day, jobs["backfill"]) \in Int
         /\ \A p \in printed : p \in Prints /\ At[p] \in Int
<1>1. /\ jobs["backfill"].left \subseteq Int /\ jobs["backfill"].cursor \in Int
      /\ jobs["backfill"].until \in Int
  BY BackfillIs
<1>2. day \in Int /\ DayLength \in Int
  BY <1>1, TapeAssumption
<1>3. day + DayLength \in Int
  BY <1>2
<1>4. \A p \in printed : p \in Prints /\ At[p] \in Int
  BY TapeAssumption DEF CollectTyped
<1> QED BY <1>1, <1>2, <1>3, <1>4 DEF Asked, DayEnds

(* The newest print of a page that has another after it. *)
LEMMA FullPage ==
  ASSUME CollectTyped, NEW day \in jobs["backfill"].left, Len(There(day)) > Page
  PROVE  LET newest == There(day)[Page]
         IN  /\ newest \in printed /\ LatestOf(day) = At[newest] /\ LatestOf(day) \in Int
             /\ \A p \in RangeOf(PageOf(day)) : p \in printed /\ Asked(day) <= At[p] /\ At[p] <= LatestOf(day)
             /\ Distinct =>
                  /\ RangeOf(PageOf(day)) =
                       {p \in printed : Asked(day) <= At[p] /\ At[p] < DayEnds(day, jobs["backfill"])
                                        /\ At[p] <= LatestOf(day)}
                  /\ LatestOf(day) > Asked(day)
                  /\ LatestOf(day) + 1 < DayEnds(day, jobs["backfill"])
<1> DEFINE s == There(day)  page == PageOf(day)  from == Asked(day)
           to == DayEnds(day, jobs["backfill"])  newest == s[Page]
           W == {p \in printed : from <= At[p] /\ At[p] < to}
<1>1. /\ s \in Seq(Prints) /\ RangeOf(s) = W
      /\ \A m, n \in DOMAIN s : m < n => At[s[m]] <= At[s[n]] /\ s[m] # s[n]
  BY AnswerIs
<1>2. PICK n \in Nat : /\ n = (IF Len(s) < Page THEN Len(s) ELSE Page) /\ n <= Len(s)
                       /\ DOMAIN page = 1..n /\ Len(page) = n
                       /\ \A i \in 1..n : page[i] = s[i]
  BY AnswerIs
<1>3. PICK N \in Nat : N = Len(s) /\ DOMAIN s = 1..N
  BY <1>1
<1>4. Page \in Nat /\ Page >= 2 /\ n = Page /\ Page < N
  BY <1>2, <1>3, CollectorAssumption
<1>5. /\ from \in Int /\ to \in Int /\ \A p \in printed : At[p] \in Int
  BY Times
<1>6. LatestOf(day) = At[newest] /\ newest = page[n]
  <2>1. n \in 1..n
    BY <1>4
  <2> QED BY <1>2, <1>4, <2>1 DEF LatestOf
<1> HIDE DEF s, page, from, to
<1>7. \A i \in 1..N : s[i] \in printed /\ from <= At[s[i]] /\ At[s[i]] < to /\ At[s[i]] \in Int
  BY <1>1, <1>3, <1>5 DEF RangeOf
<1>8. 1 \in 1..N /\ Page \in 1..N /\ Page + 1 \in 1..N /\ 1 < Page /\ Page < Page + 1
  BY <1>4
<1>9. newest \in printed /\ At[newest] \in Int
  BY <1>7, <1>8
<1>10. \A i \in 1..N : i <= Page => At[s[i]] <= At[newest]
  <2> SUFFICES ASSUME NEW i \in 1..N, i <= Page PROVE At[s[i]] <= At[newest]
    OBVIOUS
  <2>1. CASE i = Page
    BY <1>9, <2>1
  <2>2. CASE i < Page
    BY <1>1, <1>3, <1>8, <2>2
  <2> QED BY <1>4, <2>1, <2>2
<1>11. \A p \in RangeOf(page) : \E i \in 1..N : i <= Page /\ p = s[i]
  <2> SUFFICES ASSUME NEW k \in 1..n PROVE k \in 1..N /\ k <= Page /\ page[k] = s[k]
    BY <1>2 DEF RangeOf
  <2> QED BY <1>2, <1>4
<1>12. \A p \in RangeOf(page) : p \in printed /\ from <= At[p] /\ At[p] < to /\ At[p] <= At[newest]
  BY <1>7, <1>10, <1>11
<1>13. ASSUME Distinct, NEW p \in printed, from <= At[p], At[p] < to, At[p] <= At[newest]
       PROVE  p \in RangeOf(page)
  <2>1. PICK k \in 1..N : p = s[k]
    BY <1>1, <1>3, <1>13 DEF RangeOf
  <2>2. k <= Page
    <3> SUFFICES ASSUME Page < k PROVE FALSE
      BY <1>4
    <3>1. At[newest] <= At[p] /\ newest # p
      BY <1>1, <1>3, <1>8, <2>1
    <3>2. At[newest] = At[p]
      BY <1>5, <1>9, <1>13, <3>1
    <3> QED BY <1>9, <1>13, <3>1, <3>2 DEF Distinct
  <2>3. k \in 1..n /\ page[k] = p
    BY <1>2, <1>4, <2>1, <2>2
  <2> QED BY <1>2, <2>3 DEF RangeOf
<1>14. ASSUME Distinct PROVE At[newest] > from /\ At[newest] + 1 < to
  <2>1. At[s[1]] <= At[newest] /\ s[1] # newest /\ At[newest] <= At[s[Page + 1]] /\ newest # s[Page + 1]
    BY <1>1, <1>3, <1>8
  <2>2. At[s[1]] # At[newest] /\ At[newest] # At[s[Page + 1]]
    BY <1>7, <1>8, <1>9, <1>14, <2>1 DEF Distinct
  <2>3. /\ from <= At[s[1]] /\ At[s[Page + 1]] < to
        /\ At[s[1]] \in Int /\ At[s[Page + 1]] \in Int
    BY <1>7, <1>8
  <2> QED BY <1>5, <1>9, <2>1, <2>2, <2>3
<1>15. Distinct => RangeOf(page) = {p \in printed : from <= At[p] /\ At[p] < to /\ At[p] <= At[newest]}
  BY <1>12, <1>13
<1> HIDE DEF newest
<1>16. /\ \A p \in RangeOf(page) : p \in printed /\ from <= At[p] /\ At[p] <= LatestOf(day)
       /\ Distinct => /\ RangeOf(page) = {p \in printed : from <= At[p] /\ At[p] < to /\ At[p] <= LatestOf(day)}
                      /\ LatestOf(day) > from /\ LatestOf(day) + 1 < to
  BY <1>6, <1>12, <1>14, <1>15
<1> QED BY <1>6, <1>9, <1>16 DEF page, from, to, newest, s

(* A page that has none after it is all of its window. *)
LEMMA LastPage ==
  ASSUME CollectTyped, NEW day \in jobs["backfill"].left, ~(Len(There(day)) > Page)
  PROVE  RangeOf(PageOf(day)) =
           {p \in printed : Asked(day) <= At[p] /\ At[p] < DayEnds(day, jobs["backfill"])}
<1> DEFINE s == There(day)  page == PageOf(day)
<1>1. /\ s \in Seq(Prints)
      /\ RangeOf(s) = {p \in printed : Asked(day) <= At[p] /\ At[p] < DayEnds(day, jobs["backfill"])}
  BY AnswerIs
<1>2. PICK n \in Nat : /\ n = (IF Len(s) < Page THEN Len(s) ELSE Page) /\ n <= Len(s)
                       /\ DOMAIN page = 1..n /\ Len(page) = n
                       /\ \A i \in 1..n : page[i] = s[i]
  BY AnswerIs
<1> HIDE DEF s, page
<1>3. PICK N \in Nat : N = Len(s) /\ DOMAIN s = 1..N
  BY <1>1
<1>4. n = N
  BY <1>2, <1>3, CollectorAssumption DEF s
<1> QED BY <1>1, <1>2, <1>3, <1>4 DEF RangeOf, s, page

(* Up to the time asked from, the day has been fetched. *)
LEMMA Fetched ==
  ASSUME CollectTyped, Paged, NEW day \in jobs["backfill"].left, \A d \in jobs["backfill"].left : day <= d
  PROVE  /\ day <= Asked(day)
         /\ Distinct => RangeOf(jobs["backfill"].fetched) = {p \in printed : day <= At[p] /\ At[p] < Asked(day)}
         /\ jobs["backfill"].pages # 0 => Asked(day) <= DayEnds(day, jobs["backfill"])
         /\ jobs["backfill"].pages = 0 => Asked(day) = day
<1> DEFINE job == jobs["backfill"]
<1>1. day \in Int /\ \A p \in printed : At[p] \in Int
  BY Times
<1>2. CASE job.pages = 0
  <2>1. Asked(day) = day /\ RangeOf(job.fetched) = {}
    BY <1>2 DEF Asked, Paged, RangeOf
  <2> QED BY <1>1, <1>2, <2>1
<1>3. CASE job.pages # 0
  <2>1. PICK d \in job.left : PagesKept(job, d)
    BY <1>3 DEF Paged
  <2>2. d = day
    <3>1. d \in Int
      BY <2>1, BackfillIs
    <3> QED BY <1>1, <2>1, <3>1 DEF PagesKept
  <2>3. Asked(day) = job.cursor
    BY <1>3 DEF Asked
  <2> QED BY <1>3, <2>1, <2>2, <2>3 DEF PagesKept
<1> QED BY <1>2, <1>3

(* A page that is not the last is one more stretch of the day. *)
LEMMA NextPageKept ==
  ASSUME CollectTyped, Paged, Ready("backfill"), NEW day \in jobs["backfill"].left,
         \A d \in jobs["backfill"].left : day <= d, MoreOf(day)
  PROVE  PagesKept(NextPage(day), day)
<1> DEFINE job == jobs["backfill"]  next == NextPage(day)  from == Asked(day)  newest == LatestOf(day)
           to == DayEnds(day, job)
<1>1. /\ next.left = job.left /\ next.until = job.until /\ next.cursor = newest + 1
      /\ next.fetched = job.fetched \o PageOf(day)
  BY NextFits DEF Cursor
<1>2. /\ newest > from /\ newest + 1 < to /\ Len(There(day)) > Page
  BY DEF MoreOf, Cursor
<1>3. /\ There(day)[Page] \in printed /\ newest = At[There(day)[Page]] /\ newest \in Int
      /\ Distinct => RangeOf(PageOf(day)) = {p \in printed : from <= At[p] /\ At[p] < to /\ At[p] <= newest}
  BY <1>2, FullPage
<1>4. /\ day <= from
      /\ Distinct => RangeOf(job.fetched) = {p \in printed : day <= At[p] /\ At[p] < from}
  BY Fetched
<1>5. day \in Int /\ from \in Int /\ to \in Int /\ \A p \in printed : At[p] \in Int
  BY Times
<1>6. RangeOf(job.fetched \o PageOf(day)) = RangeOf(job.fetched) \cup RangeOf(PageOf(day))
  BY BackfillIs, AnswerIs, Joined
<1>7. DayEnds(day, next) = to
  BY <1>1 DEF DayEnds
<1> HIDE DEF next, from, newest, to
<1>8. Distinct => RangeOf(job.fetched) \cup RangeOf(PageOf(day)) = {p \in printed : day <= At[p] /\ At[p] < newest + 1}
  <2> SUFFICES ASSUME Distinct
               PROVE  RangeOf(job.fetched) \cup RangeOf(PageOf(day)) = {p \in printed : day <= At[p] /\ At[p] < newest + 1}
    OBVIOUS
  <2>1. \A p \in printed : (day <= At[p] /\ At[p] < from) \/ (from <= At[p] /\ At[p] < to /\ At[p] <= newest)
                           <=> day <= At[p] /\ At[p] < newest + 1
    BY <1>2, <1>3, <1>4, <1>5
  <2> QED BY <1>3, <1>4, <2>1
<1>9. day <= newest + 1 /\ newest + 1 <= to
  BY <1>2, <1>3, <1>4, <1>5
<1>10. PagesKept(next, day)
  BY <1>1, <1>3, <1>6, <1>7, <1>8, <1>9 DEF PagesKept
<1> QED BY <1>10 DEF next

(* The last page completes the day. *)
LEMMA LastPageCompletes ==
  ASSUME CollectTyped, Paged, NEW day \in jobs["backfill"].left,
         \A d \in jobs["backfill"].left : day <= d, ~MoreOf(day), Distinct,
         jobs["backfill"].pages + 1 < MaxPages
  PROVE  RangeOf(jobs["backfill"].fetched \o PageOf(day))
           = {p \in printed : day <= At[p] /\ At[p] < DayEnds(day, jobs["backfill"])}
<1> DEFINE job == jobs["backfill"]  from == Asked(day)  to == DayEnds(day, job)
<1>1. ~(Len(There(day)) > Page)
  <2> SUFFICES ASSUME Len(There(day)) > Page PROVE FALSE
    OBVIOUS
  <2>1. LatestOf(day) > from /\ LatestOf(day) + 1 < to
    BY FullPage
  <2> QED BY <2>1 DEF MoreOf, Cursor
<1>2. RangeOf(PageOf(day)) = {p \in printed : from <= At[p] /\ At[p] < to}
  BY <1>1, LastPage
<1>3. /\ day <= from /\ RangeOf(job.fetched) = {p \in printed : day <= At[p] /\ At[p] < from}
      /\ job.pages # 0 => from <= to
      /\ job.pages = 0 => from = day
  BY Fetched
<1>4. RangeOf(job.fetched \o PageOf(day)) = RangeOf(job.fetched) \cup RangeOf(PageOf(day))
  BY BackfillIs, AnswerIs, Joined
<1>5. day \in Int /\ from \in Int /\ to \in Int /\ \A p \in printed : At[p] \in Int
  BY Times
<1> HIDE DEF from, to
<1>6. from <= to \/ from = day
  BY <1>3
<1>7. \A p \in printed : (day <= At[p] /\ At[p] < from) \/ (from <= At[p] /\ At[p] < to)
                         <=> day <= At[p] /\ At[p] < to
  BY <1>3, <1>5, <1>6
<1> QED BY <1>2, <1>3, <1>4, <1>7 DEF to

(* A print made meanwhile is no earlier than the cursor, unless it shares a time. *)
LEMMA PrintingPages ==
  ASSUME CollectTyped, Paged, NEW p \in Prints, Printing(p)
  PROVE  Paged'
<1>1. /\ jobs' = jobs /\ printed' = printed \cup {p} /\ p \notin printed /\ \A q \in printed : At[q] <= At[p]
  BY DEF Printing
<1>2. ASSUME NEW day \in jobs["backfill"].left, PagesKept(jobs["backfill"], day)
      PROVE  PagesKept(jobs["backfill"], day)'
  <2> DEFINE job == jobs["backfill"]
  <2>1. PICK q \in printed : job.cursor = At[q] + 1
    BY <1>2 DEF PagesKept
  <2>2. q \in Prints /\ At[q] \in Int /\ At[p] \in Int /\ job.cursor \in Int
    BY TapeAssumption, BackfillIs DEF CollectTyped
  <2>3. ASSUME Distinct'
        PROVE  RangeOf(job.fetched) = {r \in printed' : day <= At[r] /\ At[r] < job.cursor}
    <3>1. Distinct
      BY <1>1, <2>3 DEF Distinct
    <3>2. At[q] # At[p] /\ At[q] <= At[p]
      BY <1>1, <2>1, <2>3 DEF Distinct
    <3>3. ~(At[p] < job.cursor)
      BY <2>1, <2>2, <3>2
    <3>4. RangeOf(job.fetched) = {r \in printed : day <= At[r] /\ At[r] < job.cursor}
      BY <1>2, <3>1 DEF PagesKept
    <3> QED BY <1>1, <3>3, <3>4
  <2>4. RangeOf(job.fetched)' = RangeOf(job.fetched)
    BY <1>1
  <2> QED BY <1>1, <1>2, <2>1, <2>3, <2>4 DEF PagesKept, DayEnds
<1> QED BY <1>1, <1>2 DEF Paged

(* A step that leaves the pages alone. *)
LEMMA SamePages ==
  ASSUME Paged, printed' = printed, jobs'["backfill"].left = jobs["backfill"].left,
         jobs'["backfill"].pages = jobs["backfill"].pages, jobs'["backfill"].cursor = jobs["backfill"].cursor,
         jobs'["backfill"].fetched = jobs["backfill"].fetched, jobs'["backfill"].until = jobs["backfill"].until
  PROVE  Paged'
BY DEF Paged, PagesKept, Distinct, DayEnds, RangeOf

(* Paged is inductive. *)
LEMMA PagedStays ==
  ASSUME CollectTyped, Paged, [CollectNext]_collectorVars
  PROVE  Paged'
<1> DEFINE SameJob == printed' = printed /\ jobs'["backfill"] = jobs["backfill"]
           NoPages == jobs'["backfill"].pages = 0 /\ jobs'["backfill"].fetched = << >>
<1>1. SameJob => Paged'
  BY SamePages
<1>2. NoPages => Paged'
  BY DEF Paged
<1>3. "collect" \in Processes /\ "backfill" \in Processes
  BY DEF Processes
<1>4. ASSUME NEW w \in Processes, NEW job, Fits(job), Sets(w, job)
      PROVE  jobs'[w] = job /\ \A v \in Processes : v # w => jobs'[v] = jobs[v]
  BY <1>4, OneJobSet
<1>5. ASSUME NEW w \in Processes, Sets(w, Stopped), printed' = printed PROVE Paged'
  <2>1. jobs'[w] = Stopped /\ \A v \in Processes : v # w => jobs'[v] = jobs[v]
    BY <1>4, <1>5, StoppedFits
  <2>2. CASE w = "backfill"
    BY <1>2, <2>1, <2>2 DEF Stopped
  <2>3. CASE w # "backfill"
    BY <1>1, <1>3, <1>5, <2>1, <2>3
  <2> QED BY <2>2, <2>3
<1>6. ASSUME NEW p \in Prints, Printing(p) PROVE Paged'
  BY <1>6, PrintingPages
<1>7. CASE Connects
  BY <1>1, <1>7 DEF Connects
<1>8. CASE FlushTimer
  BY <1>1, <1>8, FlushesFit DEF FlushTimer
<1>9. CASE Disconnects
  BY <1>1, <1>9, FlushesFit DEF Disconnects
<1>10. CASE Interrupt
  BY <1>3, <1>5, <1>10 DEF Interrupt
<1>11. ASSUME NEW w \in Processes, Kill(w) PROVE Paged'
  BY <1>5, <1>11 DEF Kill
<1>12. CASE BackfillEnds
  BY <1>3, <1>5, <1>12 DEF BackfillEnds
<1>13. ASSUME NEW w \in Processes, CountParts(w) \/ OpenPart(w) \/ ClosePart(w) PROVE Paged'
  <2>1. /\ jobs'[w].left = jobs[w].left /\ jobs'[w].pages = jobs[w].pages
        /\ jobs'[w].cursor = jobs[w].cursor /\ jobs'[w].fetched = jobs[w].fetched
        /\ jobs'[w].until = jobs[w].until
        /\ \A v \in Processes : v # w => jobs'[v] = jobs[v]
    BY <1>13, CountFits, OpenFits, CloseFits
  <2>2. printed' = printed
    BY <1>13 DEF CountParts, OpenPart, ClosePart
  <2>3. CASE w = "backfill"
    BY <2>1, <2>2, <2>3, SamePages
  <2>4. CASE w # "backfill"
    BY <1>1, <1>3, <2>1, <2>2, <2>4
  <2> QED BY <2>3, <2>4
<1>14. ASSUME NEW day, NEW fails, BackfillPage(day, fails) PROVE Paged'
  <2>1. /\ Ready("backfill") /\ day \in jobs["backfill"].left /\ \A d \in jobs["backfill"].left : day <= d
        /\ printed' = printed
        /\ \/ Sets("backfill", DayOver(day, << >>))
           \/ MoreOf(day) /\ Sets("backfill", NextPage(day))
           \/ Sets("backfill", DayOver(day, jobs["backfill"].fetched \o PageOf(day)))
    BY <1>14, PageAsked
  <2>2. ASSUME NEW rows \in Seq(Prints), Sets("backfill", DayOver(day, rows)) PROVE Paged'
    <3>1. /\ Fits(DayOver(day, rows)) /\ DayOver(day, rows).pages = 0 /\ DayOver(day, rows).fetched = << >>
      BY <2>1, OverFits
    <3>2. jobs'["backfill"] = DayOver(day, rows)
      BY <1>3, <1>4, <2>2, <3>1
    <3> QED BY <1>2, <3>1, <3>2
  <2>3. << >> \in Seq(Prints) /\ jobs["backfill"].fetched \o PageOf(day) \in Seq(Prints)
    BY BackfillIs, AnswerIs, Joined
  <2>4. ASSUME MoreOf(day), Sets("backfill", NextPage(day)) PROVE Paged'
    <3>1. /\ Fits(NextPage(day)) /\ NextPage(day).left = jobs["backfill"].left
          /\ NextPage(day).pages = jobs["backfill"].pages + 1
      BY <2>1, <2>4, NextFits
    <3>2. jobs'["backfill"] = NextPage(day)
      BY <1>3, <1>4, <2>4, <3>1
    <3>3. PagesKept(NextPage(day), day)
      BY <2>1, <2>4, NextPageKept
    <3>4. PagesKept(jobs["backfill"], day)'
      <4>1. jobs["backfill"]' = NextPage(day)
        BY <3>2
      <4> QED BY <2>1, <3>3, <4>1 DEF PagesKept, Distinct
    <3>5. jobs'["backfill"].pages # 0 /\ day \in jobs'["backfill"].left
      <4>1. jobs["backfill"].pages \in Nat
        BY BackfillIs
      <4> QED BY <2>1, <3>1, <3>2, <4>1
    <3> QED BY <3>4, <3>5 DEF Paged
  <2> QED BY <2>1, <2>2, <2>3, <2>4
<1>15. CASE CollectStarts
  BY <1>1, <1>3, <1>4, <1>15, StoppedFits DEF CollectStarts
<1>16. ASSUME NEW until \in 0..Ever, BackfillStarts(until) PROVE Paged'
  BY <1>2, <1>16, BackfillBegins
<1>17. CASE UNCHANGED collectorVars
  BY <1>1, <1>17 DEF collectorVars
<1> QED BY <1>6, <1>7, <1>8, <1>9, <1>10, <1>11, <1>12, <1>13, <1>14, <1>15, <1>16, <1>17 DEF CollectNext

(* The step by which a day is taken up for writing takes all of it. *)
LEMMA WholeDays ==
  ASSUME CollectTyped, Paged, [CollectNext]_collectorVars, NEW day,
         day \in jobs["backfill"].left, day \notin jobs'["backfill"].left,
         jobs'["backfill"].batches # << >>, Distinct, jobs["backfill"].pages + 1 < MaxPages
  PROVE  UNION {RangeOf(jobs'["backfill"].batches[n].rows) : n \in DOMAIN jobs'["backfill"].batches}
           = {p \in printed : day <= At[p] /\ At[p] < DayEnds(day, jobs["backfill"])}
<1> DEFINE NoDay == jobs'["backfill"].left = jobs["backfill"].left \/ jobs'["backfill"].batches = << >>
           Done == UNION {RangeOf(jobs'["backfill"].batches[n].rows) : n \in DOMAIN jobs'["backfill"].batches}
                   = {p \in printed : day <= At[p] /\ At[p] < DayEnds(day, jobs["backfill"])}
<1>1. NoDay => FALSE
  OBVIOUS
<1>3. "collect" \in Processes /\ "backfill" \in Processes /\ Stopped.batches = << >>
  BY DEF Processes, Stopped
<1>4. ASSUME NEW w \in Processes, NEW job, Fits(job), Sets(w, job)
      PROVE  jobs'[w] = job /\ \A v \in Processes : v # w => jobs'[v] = jobs[v]
  BY <1>4, OneJobSet
<1>5. ASSUME NEW w \in Processes, Sets(w, Stopped) PROVE NoDay
  <2>1. jobs'[w] = Stopped /\ \A v \in Processes : v # w => jobs'[v] = jobs[v]
    BY <1>4, <1>5, StoppedFits
  <2>2. CASE w = "backfill"
    BY <1>3, <2>1, <2>2
  <2>3. CASE w # "backfill"
    BY <1>3, <2>1, <2>3
  <2> QED BY <2>2, <2>3
<1>6. ASSUME NEW p \in Prints, Printing(p) PROVE NoDay
  BY <1>6 DEF Printing
<1>7. CASE Connects
  BY <1>1, <1>7 DEF Connects
<1>8. CASE FlushTimer
  BY <1>1, <1>8, FlushesFit DEF FlushTimer
<1>9. CASE Disconnects
  BY <1>1, <1>9, FlushesFit DEF Disconnects
<1>10. CASE Interrupt
  BY <1>1, <1>3, <1>5, <1>10 DEF Interrupt
<1>11. ASSUME NEW w \in Processes, Kill(w) PROVE NoDay
  BY <1>5, <1>11 DEF Kill
<1>12. CASE BackfillEnds
  BY <1>1, <1>3, <1>5, <1>12 DEF BackfillEnds
<1>13. ASSUME NEW w \in Processes, CountParts(w) \/ OpenPart(w) \/ ClosePart(w) PROVE NoDay
  <2>1. /\ jobs'[w].left = jobs[w].left
        /\ \A v \in Processes : v # w => jobs'[v] = jobs[v]
    BY <1>13, CountFits, OpenFits, CloseFits
  <2> QED BY <1>3, <2>1
<1>14. ASSUME NEW that, NEW fails, BackfillPage(that, fails) PROVE Done
  <2>1. /\ Ready("backfill") /\ that \in jobs["backfill"].left /\ \A d \in jobs["backfill"].left : that <= d
        /\ \/ fails /\ Sets("backfill", DayOver(that, << >>))
           \/ ~fails /\ MoreOf(that) /\ Sets("backfill", NextPage(that))
           \/ ~fails /\ ~MoreOf(that)
              /\ Sets("backfill", DayOver(that, jobs["backfill"].fetched \o PageOf(that)))
    BY <1>14, PageAsked
  <2>2. ASSUME NEW rows \in Seq(Prints), Sets("backfill", DayOver(that, rows))
        PROVE  /\ jobs'["backfill"].batches = Batches(rows)
               /\ jobs'["backfill"].left = jobs["backfill"].left \ {that}
    <3>1. /\ Fits(DayOver(that, rows)) /\ DayOver(that, rows).batches = Batches(rows)
          /\ DayOver(that, rows).left = jobs["backfill"].left \ {that}
      BY <2>1, OverFits
    <3>2. jobs'["backfill"] = DayOver(that, rows)
      BY <1>3, <1>4, <2>2, <3>1
    <3> QED BY <3>1, <3>2
  <2>3. << >> \in Seq(Prints) /\ jobs["backfill"].fetched \o PageOf(that) \in Seq(Prints)
    BY BackfillIs, AnswerIs, Joined
  <2>4. CASE fails
    <3>1. jobs'["backfill"].batches = Batches(<< >>)
      BY <2>1, <2>2, <2>3, <2>4
    <3> QED BY <3>1, NoRows
  <2>5. CASE ~fails /\ MoreOf(that)
    <3>1. Fits(NextPage(that)) /\ NextPage(that).left = jobs["backfill"].left
      BY <2>1, <2>5, NextFits
    <3>2. jobs'["backfill"] = NextPage(that)
      BY <1>3, <1>4, <2>1, <2>5, <3>1
    <3> QED BY <3>1, <3>2
  <2>6. CASE ~fails /\ ~MoreOf(that)
    <3> DEFINE rows == jobs["backfill"].fetched \o PageOf(that)
    <3>1. /\ jobs'["backfill"].batches = Batches(rows)
          /\ jobs'["backfill"].left = jobs["backfill"].left \ {that}
      BY <2>1, <2>2, <2>3, <2>6
    <3>2. that = day
      BY <3>1
    <3>3. UNION {RangeOf(Batches(rows)[n].rows) : n \in DOMAIN Batches(rows)} = RangeOf(rows)
      BY <2>3, BatchesAre
    <3>4. RangeOf(rows) = {p \in printed : day <= At[p] /\ At[p] < DayEnds(day, jobs["backfill"])}
      BY <2>1, <2>6, <3>2, LastPageCompletes
    <3> QED BY <3>1, <3>3, <3>4
  <2> QED BY <2>1, <2>4, <2>5, <2>6
<1>15. CASE CollectStarts
  BY <1>1, <1>3, <1>4, <1>15, StoppedFits DEF CollectStarts
<1>16. ASSUME NEW until \in 0..Ever, BackfillStarts(until) PROVE NoDay
  BY <1>16, BackfillBegins
<1>17. CASE UNCHANGED collectorVars
  BY <1>1, <1>17 DEF collectorVars
<1> QED BY <1>1, <1>6, <1>7, <1>8, <1>9, <1>10, <1>11, <1>12, <1>13, <1>14, <1>15, <1>16, <1>17 DEF CollectNext

(* A day that backfill fetched and did not skip is all of that day, for every
   size of a page and every time the venue prints in between, when no two of its
   prints share a millisecond and the pages did not run out (DeribitClient::trades,
   which continues after the newest time of a page). *)
THEOREM DaysFetchedWhole == CollectSpec => FetchedWhole
<1>1. CollectInit => CollectTyped /\ Paged
  <2> SUFFICES ASSUME CollectInit PROVE CollectTyped /\ Paged
    OBVIOUS
  <2>1. jobs["backfill"] = Stopped
    BY DEF CollectInit, Processes
  <2> QED BY <2>1, CollectBegins DEF Paged, Stopped
<1>2. CollectTyped /\ Paged /\ [CollectNext]_collectorVars => (CollectTyped /\ Paged)'
  BY CollectTypedStays, PagedStays
<1>3. CollectTyped /\ Paged /\ [CollectNext]_collectorVars
      => [LET job == jobs["backfill"]  then == jobs'["backfill"]
          IN  \A day \in DaysAsked :
                /\ day \in job.left /\ day \notin then.left /\ then.batches # << >>
                /\ \A p, q \in printed : At[p] = At[q] => p = q
                /\ job.pages + 1 < MaxPages
                => UNION {RangeOf(then.batches[n].rows) : n \in DOMAIN then.batches}
                     = {p \in printed : day <= At[p] /\ At[p] < DayEnds(day, job)}]_collectorVars
  BY WholeDays DEF Distinct
<1> QED BY <1>1, <1>2, <1>3, PTL DEF CollectSpec, FetchedWhole

-----------------------------------------------------------------------------
(* The polls of the gold feed. *)

(* Minutes are numbered, and a poll that is on time asks for all the minutes *)
(* since the one before (collect.rs: "many polls' worth of overlap"). *)
WindowsOverlap ==
  /\ FullWindow \in Int /\ ShortWindow \in Int /\ PollEvery \in Int /\ MaxMinute \in Int
  /\ 0 <= PollEvery /\ PollEvery < ShortWindow

GoldPrints == [contract : Contracts, minute : Nat]

PollTyped ==
  /\ minute \in Nat /\ tape \subseteq GoldPrints
  /\ \A p \in tape : p.minute <= minute
  /\ collector = [up |-> collector.up, seen |-> collector.seen, short |-> collector.short,
                  asked |-> collector.asked, polling |-> collector.polling,
                  fresh |-> collector.fresh, failed |-> collector.failed,
                  closes |-> collector.closes, at |-> collector.at]
  /\ collector.at \in Nat
  /\ collector.polling => collector.up

(* A poll takes no time, and the next one is not overdue. *)
OnTime ==
  collector.up => /\ collector.at <= minute /\ minute - collector.at <= PollEvery
                  /\ collector.polling => collector.at = minute

(* What was seen is stored, or will be when the poll ends. *)
SeenIsKept ==
  collector.up /\ ~collector.failed =>
    collector.seen \subseteq kept \cup (IF collector.polling THEN collector.fresh ELSE {})

(* Between polls every print older than the last one was seen; in a poll, but *)
(* for those of contracts not yet asked, which the window still reaches. *)
StillFed(p) == p \in tape /\ minute - p.minute < FullWindow
OlderIsSeen ==
  collector.up /\ ~collector.failed =>
    /\ ~collector.polling /\ collector.short =>
         \A p \in tape : StillFed(p) /\ p.minute < collector.at => p \in collector.seen
    /\ collector.polling =>
         \A p \in tape : StillFed(p) /\ p.minute < minute =>
           \/ p \in collector.seen
           \/ /\ p.contract \notin collector.asked
              /\ collector.short => minute - p.minute <= PollEvery

Gathered == PollTyped /\ OnTime /\ SeenIsKept /\ OlderIsSeen

LEMMA GatheringBegins ==
  ASSUME WindowsOverlap, GoldInit
  PROVE  Gathered
BY DEF GoldInit, Down, Gathered, PollTyped, OnTime, SeenIsKept, OlderIsSeen, GoldPrints

LEMMA GatheringStays ==
  ASSUME WindowsOverlap, Gathered, [GoldNext]_goldVars
  PROVE  Gathered'
<1> USE DEF Gathered
<1> DEFINE later == collector'
<1>1. ASSUME NEW contract \in Contracts, GoldTrades(contract) PROVE Gathered'
  <2>1. /\ tape' = tape \cup {[contract |-> contract, minute |-> minute]}
        /\ UNCHANGED <<minute, collector, kept>>
    BY <1>1 DEF GoldTrades
  <2>2. PollTyped' /\ OnTime' /\ SeenIsKept'
    BY <2>1 DEF PollTyped, OnTime, SeenIsKept, GoldPrints
  <2>3. OlderIsSeen'
    <3>1. \A p \in tape' \ tape : p.minute = minute
      BY <2>1
    <3> QED BY <2>1, <3>1 DEF OlderIsSeen, OnTime, StillFed, PollTyped
  <2> QED BY <2>2, <2>3
<1>2. ASSUME NEW contract \in Contracts, Chart(contract) PROVE Gathered'
  <2> DEFINE prints == ChartPrints(contract)
  <2>1. /\ collector.polling /\ UNCHANGED <<minute, tape, kept>>
        /\ later = [collector EXCEPT !.asked = @ \cup {contract},
                    !.fresh = @ \cup (prints \ collector.seen), !.seen = @ \cup prints,
                    !.closes = Merged(@, ChartCloses(contract))]
    BY <1>2 DEF Chart
  <2> HIDE DEF prints
  <2>2. PICK closes :
          later = [up |-> collector.up, seen |-> collector.seen \cup prints,
                 short |-> collector.short, asked |-> collector.asked \cup {contract},
                 polling |-> collector.polling,
                 fresh |-> collector.fresh \cup (prints \ collector.seen),
                 failed |-> collector.failed, closes |-> closes, at |-> collector.at]
    BY <2>1 DEF PollTyped
  <2>3. PollTyped' /\ OnTime' /\ SeenIsKept'
    BY <2>1, <2>2 DEF PollTyped, OnTime, SeenIsKept
  <2>4. ASSUME NEW p \in tape, StillFed(p), p.contract = contract,
               collector.short => minute - p.minute <= PollEvery
        PROVE  p \in prints
    <3>1. p.minute \in Nat /\ minute \in Nat
      BY DEF PollTyped, GoldPrints
    <3> QED BY <2>4, <3>1 DEF prints, ChartPrints, Window, StillFed, WindowsOverlap
  <2>5. OlderIsSeen'
    BY <2>1, <2>2, <2>4 DEF OlderIsSeen, StillFed
  <2> QED BY <2>3, <2>5
<1>3. CASE MinutePasses
  <2>1. /\ minute' = minute + 1 /\ UNCHANGED <<tape, collector, kept>>
        /\ collector.up => ~collector.polling /\ minute - collector.at < PollEvery
    BY <1>3 DEF MinutePasses
  <2>2. PollTyped' /\ OnTime' /\ SeenIsKept'
    BY <2>1 DEF PollTyped, OnTime, SeenIsKept, GoldPrints, WindowsOverlap
  <2>3. \A p \in tape : StillFed(p)' => StillFed(p)
    BY <2>1 DEF StillFed, PollTyped, GoldPrints, WindowsOverlap
  <2>4. OlderIsSeen'
    BY <2>1, <2>3 DEF OlderIsSeen
  <2> QED BY <2>2, <2>4
<1>4. CASE GoldStarts \/ GoldDies
  <2>1. /\ UNCHANGED <<minute, tape, kept>>
        /\ \/ later = [up |-> TRUE, seen |-> kept, short |-> FALSE, asked |-> {},
                     polling |-> FALSE, fresh |-> {}, failed |-> FALSE, closes |-> << >>,
                     at |-> minute]
           \/ later = [up |-> FALSE, seen |-> {}, short |-> FALSE, asked |-> {},
                     polling |-> FALSE, fresh |-> {}, failed |-> FALSE, closes |-> << >>,
                     at |-> 0]
    BY <1>4 DEF GoldStarts, GoldDies, Down
  <2>2. PollTyped'
    BY <2>1 DEF PollTyped
  <2>3. OnTime'
    BY <2>1 DEF OnTime, PollTyped, WindowsOverlap
  <2>4. SeenIsKept'
    BY <2>1 DEF SeenIsKept
  <2>5. OlderIsSeen'
    BY <2>1 DEF OlderIsSeen
  <2> QED BY <2>2, <2>3, <2>4, <2>5
<1>5. CASE PollBegins
  <2>1. /\ collector.up /\ ~collector.polling /\ UNCHANGED <<minute, tape, kept>>
        /\ later = [up |-> collector.up, seen |-> collector.seen, short |-> collector.short,
                  asked |-> {}, polling |-> TRUE, fresh |-> {}, failed |-> collector.failed,
                  closes |-> closesFile, at |-> minute]
    BY <1>5 DEF PollBegins, PollTyped
  <2>2. PollTyped' /\ OnTime' /\ SeenIsKept'
    BY <2>1 DEF PollTyped, OnTime, SeenIsKept, WindowsOverlap
  <2>3. ASSUME NEW p \in tape, collector.short, ~collector.failed, StillFed(p), p.minute < minute,
               p \notin collector.seen
        PROVE  minute - p.minute <= PollEvery
    <3>1. ~(p.minute < collector.at)
      BY <2>1, <2>3 DEF OlderIsSeen
    <3> QED BY <2>1, <3>1 DEF OnTime, PollTyped, GoldPrints, WindowsOverlap
  <2>4. OlderIsSeen'
    BY <2>1, <2>3 DEF OlderIsSeen, StillFed
  <2> QED BY <2>2, <2>4
<1>6. ASSUME NEW request \in Failures, PollFails(request) PROVE Gathered'
  <2>1. /\ UNCHANGED <<minute, tape, kept>> /\ collector.polling
        /\ later = [up |-> collector.up, seen |-> collector.seen, short |-> TRUE,
                  asked |-> collector.asked, polling |-> FALSE, fresh |-> collector.fresh,
                  failed |-> TRUE, closes |-> collector.closes, at |-> collector.at]
    BY <1>6 DEF PollFails, PollTyped
  <2> QED BY <2>1 DEF PollTyped, OnTime, SeenIsKept, OlderIsSeen
<1>7. CASE PollEnds
  <2>1. /\ collector.polling /\ collector.asked = Contracts /\ UNCHANGED <<minute, tape>>
        /\ kept' = kept \cup collector.fresh
        /\ later = [up |-> collector.up, seen |-> collector.seen, short |-> TRUE,
                  asked |-> collector.asked, polling |-> FALSE, fresh |-> collector.fresh,
                  failed |-> collector.failed, closes |-> collector.closes, at |-> collector.at]
    BY <1>7 DEF PollEnds, PollTyped
  <2>2. PollTyped' /\ OnTime' /\ SeenIsKept'
    BY <2>1 DEF PollTyped, OnTime, SeenIsKept
  <2>3. OlderIsSeen'
    BY <2>1 DEF OlderIsSeen, OnTime, StillFed, PollTyped, GoldPrints
  <2> QED BY <2>2, <2>3
<1>8. CASE UNCHANGED goldVars
  BY <1>8 DEF goldVars, PollTyped, OnTime, SeenIsKept, OlderIsSeen, StillFed
<1> QED BY <1>1, <1>2, <1>3, <1>4, <1>5, <1>6, <1>7, <1>8 DEF GoldNext

LEMMA OnlyPollsKeep ==
  ASSUME [GoldNext]_goldVars, polledAt' # polledAt \/ kept' # kept
  PROVE  PollEnds
BY DEF GoldNext, goldVars, GoldTrades, Chart, MinutePasses, GoldStarts, GoldDies, PollBegins, PollFails

(* A poll that ended well leaves in the store every print the feed still has *)
(* of the minutes before it, however often the collector was killed and in *)
(* whatever order the contracts were asked, unless a poll failed since the *)
(* last start (collect_gold, poll_gold). *)
THEOREM PollsKeepAll ==
  ASSUME WindowsOverlap
  PROVE  GoldSpec => PolledIsKept
<1>1. GoldInit => Gathered
  BY GatheringBegins
<1>2. Gathered /\ [GoldNext]_goldVars => Gathered'
  BY GatheringStays
<1>3. Gathered /\ [GoldNext]_goldVars =>
        (polledAt' # polledAt \/ kept' # kept =>
           \A p \in tape : p.minute < minute /\ minute - p.minute < FullWindow =>
             p \in kept' \/ collector.failed)
  <2> SUFFICES ASSUME Gathered, [GoldNext]_goldVars, polledAt' # polledAt \/ kept' # kept,
                      NEW p \in tape, p.minute < minute, minute - p.minute < FullWindow,
                      ~collector.failed
               PROVE  p \in kept'
    OBVIOUS
  <2>1. /\ collector.polling /\ collector.asked = Contracts
        /\ kept' = kept \cup collector.fresh
    BY OnlyPollsKeep DEF PollEnds
  <2>2. p.contract \in Contracts /\ collector.up
    BY <2>1 DEF Gathered, PollTyped, GoldPrints
  <2>3. p \in collector.seen
    BY <2>1, <2>2 DEF Gathered, OlderIsSeen, StillFed
  <2> QED BY <2>1, <2>2, <2>3 DEF Gathered, SeenIsKept
<1> QED BY <1>1, <1>2, <1>3, PTL DEF GoldSpec, PolledIsKept

-----------------------------------------------------------------------------
(* The lines at the end of a log: what is in order after its beginning. *)

(* How many of S come up to x, and a sequence moved along another. *)
UpTo(S, x) == {j \in S : j <= x}
Beyond(S, f) == {j - f : j \in {j \in S : j > f}}

(* Arranged gives a member the place its rank says. *)
LEMMA ArrangedAt ==
  ASSUME NEW S, NEW upTo, InLine(S, upTo)
  PROVE  \A x \in S : /\ Cardinality(upTo[x]) \in 1..Cardinality(S)
                      /\ Arranged(S, upTo)[Cardinality(upTo[x])] = x
<1> DEFINE s == Arranged(S, upTo)  N == Cardinality(S)
<1>1. /\ N \in Nat
      /\ \A x, y \in S : x \in upTo[y] /\ x # y => Cardinality(upTo[x]) < Cardinality(upTo[y])
      /\ \A x \in S : Cardinality(upTo[x]) \in 1..N
      /\ \A n \in 1..N : \E x \in S : Cardinality(upTo[x]) = n
  BY RanksAreOneEach
<1>2. \A n \in 1..N : s[n] = CHOOSE x \in S : Cardinality(upTo[x]) = n
  BY DEF Arranged
<1>3. \A n \in 1..N : s[n] \in S /\ Cardinality(upTo[s[n]]) = n
  BY <1>1, <1>2, Zenon
<1> HIDE DEF s, N
<1>4. \A x, y \in S : Cardinality(upTo[x]) = Cardinality(upTo[y]) => x = y
  BY <1>1 DEF InLine
<1> QED BY <1>1, <1>3, <1>4 DEF s, N

(* So does Ascending: a number lies where so many are that do not exceed it. *)
LEMMA AscendingAt ==
  ASSUME NEW S, S \subseteq Int, IsFiniteSet(S)
  PROVE  /\ \A x \in S : /\ Cardinality(UpTo(S, x)) \in 1..Cardinality(S)
                         /\ Ascending(S)[Cardinality(UpTo(S, x))] = x
         /\ \A n \in 1..Cardinality(S) : \E x \in S : Cardinality(UpTo(S, x)) = n
<1> DEFINE upTo == [i \in S |-> {j \in S : j <= i}]
<1>1. InLine(S, upTo)
  BY NumbersInLine
<1>2. \A x \in S : upTo[x] = UpTo(S, x)
  BY DEF UpTo
<1>3. \A x \in S : /\ Cardinality(upTo[x]) \in 1..Cardinality(S)
                   /\ Ascending(S)[Cardinality(upTo[x])] = x
  BY <1>1, ArrangedAt DEF Ascending
<1>4. \A n \in 1..Cardinality(S) : \E x \in S : Cardinality(upTo[x]) = n
  <2>1. PICK up : up = upTo
    OBVIOUS
  <2>2. InLine(S, up)
    BY <1>1, <2>1
  <2> HIDE DEF upTo
  <2>3. /\ Cardinality(S) \in Nat
        /\ \A x, y \in S : x \in up[y] /\ x # y => Cardinality(up[x]) < Cardinality(up[y])
        /\ \A x \in S : Cardinality(up[x]) \in 1..Cardinality(S)
        /\ \A n \in 1..Cardinality(S) : \E x \in S : Cardinality(up[x]) = n
    BY ONLY <2>2, RanksAreOneEach
  <2> QED BY <2>1, <2>3
<1> HIDE DEF upTo
<1> QED BY <1>2, <1>3, <1>4

(* Counting past f: what comes up to f, and as many as lie beyond. *)
LEMMA CountedBeyond ==
  ASSUME NEW S, S \subseteq Int, IsFiniteSet(S), NEW f \in Int, NEW x \in Int, x >= f
  PROVE  /\ IsFiniteSet(Beyond(S, f)) /\ Cardinality(UpTo(S, f)) \in Nat
         /\ Cardinality(UpTo(Beyond(S, f), x - f)) \in Nat
         /\ Cardinality(UpTo(S, x)) =
              Cardinality(UpTo(S, f)) + Cardinality(UpTo(Beyond(S, f), x - f))
<1> DEFINE low == UpTo(S, f)  mid == {j \in S : j > f /\ j <= x}  all == {j \in S : j > f}
           high == UpTo(Beyond(S, f), x - f)
           move == [j \in mid |-> j - f]  moved == [j \in all |-> j - f]
<1>1. \A j \in S : j \in Int
  OBVIOUS
<1>2. IsFiniteSet(low) /\ IsFiniteSet(mid) /\ IsFiniteSet(all)
  <2>1. low \subseteq S /\ mid \subseteq S /\ all \subseteq S
    BY DEF UpTo
  <2> QED BY <2>1, FS_Subset
<1>3. UpTo(S, x) = low \cup mid /\ low \cap mid = {}
  <2>1. \A j \in S : /\ j <= x <=> (j <= f \/ (j > f /\ j <= x))
                    /\ ~(j <= f /\ j > f)
    BY <1>1
  <2>2. \A j : /\ j \in UpTo(S, x) <=> j \in S /\ j <= x
               /\ j \in low <=> j \in S /\ j <= f
               /\ j \in mid <=> j \in S /\ j > f /\ j <= x
    BY DEF UpTo
  <2> HIDE DEF low, mid
  <2> QED BY <2>1, <2>2
<1>4. high = {j - f : j \in mid}
  BY <1>1 DEF UpTo, Beyond
<1>5. Beyond(S, f) = {j - f : j \in all}
  BY DEF Beyond
<1>6. move \in Bijection(mid, high)
  <2>1. move \in [mid -> high] /\ (\A y \in high : \E j \in mid : move[j] = y)
    BY <1>4
  <2>2. \A i, j \in mid : move[i] = move[j] => i = j
    BY <1>1
  <2> HIDE DEF move, mid, high
  <2> QED BY <2>1, <2>2 DEF Bijection, Injection, Surjection, IsInjective
<1>7. moved \in Surjection(all, Beyond(S, f))
  <2>1. moved \in [all -> Beyond(S, f)] /\ (\A y \in Beyond(S, f) : \E j \in all : moved[j] = y)
    BY <1>5
  <2> HIDE DEF moved, all
  <2> QED BY <2>1 DEF Surjection
<1> HIDE DEF low, mid, all, high, move, moved
<1>8. IsFiniteSet(high) /\ Cardinality(high) = Cardinality(mid)
  BY <1>2, <1>6, FS_Bijection DEF ExistsBijection
<1>9. IsFiniteSet(Beyond(S, f))
  BY <1>2, <1>7, FS_Surjection
<1>10. Cardinality(low \cup mid) = Cardinality(low) + Cardinality(mid)
  <2>1. Cardinality(low \cup mid) = Cardinality(low) + Cardinality(mid) - Cardinality(low \cap mid)
    BY <1>2, FS_Union
  <2>2. Cardinality(low \cap mid) = 0
    BY <1>3, FS_EmptySet
  <2>3. Cardinality(low) \in Nat /\ Cardinality(mid) \in Nat
    BY <1>2, FS_CardinalityType
  <2> QED BY <2>1, <2>2, <2>3
<1>11. Cardinality(low) \in Nat /\ Cardinality(high) \in Nat
  BY <1>2, <1>8, FS_CardinalityType
<1> QED BY <1>3, <1>8, <1>9, <1>10, <1>11 DEF low, high

(* What lies beyond f comes in the same order after what does not. *)
LEMMA AscendingBeyond ==
  ASSUME NEW S, S \subseteq Int, IsFiniteSet(S), NEW f \in Int
  PROVE  /\ Cardinality(UpTo(S, f)) \in Nat /\ IsFiniteSet(Beyond(S, f))
         /\ Cardinality(Beyond(S, f)) \in Nat
         /\ Cardinality(S) = Cardinality(UpTo(S, f)) + Cardinality(Beyond(S, f))
         /\ \A n \in 1..Cardinality(Beyond(S, f)) :
              Ascending(S)[Cardinality(UpTo(S, f)) + n] = Ascending(Beyond(S, f))[n] + f
<1> DEFINE k == Cardinality(UpTo(S, f))  T == Beyond(S, f)
<1>1. \A x \in Int : x >= f =>
        /\ IsFiniteSet(T) /\ k \in Nat /\ Cardinality(UpTo(T, x - f)) \in Nat
        /\ Cardinality(UpTo(S, x)) = k + Cardinality(UpTo(T, x - f))
  BY CountedBeyond
<1>2. IsFiniteSet(T) /\ k \in Nat
  BY <1>1
<1>3. T \subseteq Int /\ (\A y \in T : y + f \in S /\ y > 0)
  BY DEF Beyond
<1>4. Cardinality(T) \in Nat /\ Cardinality(S) \in Nat
  BY <1>2, FS_CardinalityType
<1>5. /\ \A x \in S : /\ Cardinality(UpTo(S, x)) \in 1..Cardinality(S)
                      /\ Ascending(S)[Cardinality(UpTo(S, x))] = x
      /\ \A n \in 1..Cardinality(S) : \E x \in S : Cardinality(UpTo(S, x)) = n
  BY AscendingAt
<1>6. /\ \A y \in T : /\ Cardinality(UpTo(T, y)) \in 1..Cardinality(T)
                      /\ Ascending(T)[Cardinality(UpTo(T, y))] = y
      /\ \A n \in 1..Cardinality(T) : \E y \in T : Cardinality(UpTo(T, y)) = n
  BY <1>2, <1>3, AscendingAt
<1>7. Cardinality(S) = k + Cardinality(T)
  <2>1. PICK top \in Int : top >= f /\ (\A j \in S : j <= top)
    <3>1. IsFiniteSet(S \cup {f}) /\ S \cup {f} # {} /\ S \cup {f} \subseteq Int
      BY FS_AddElement
    <3>2. Climbs(Ascending(S \cup {f}), S \cup {f}) /\ Cardinality(S \cup {f}) \in Nat
      BY <3>1, AscendingIs
    <3> DEFINE all == S \cup {f}  s == Ascending(S \cup {f})  N == Cardinality(S \cup {f})
    <3>3. /\ DOMAIN s = 1..N /\ N \in Nat /\ (\A n \in 1..N : s[n] \in all)
          /\ \A j \in all : \E n \in 1..N : s[n] = j
      BY <3>2 DEF Climbs, RangeOf
    <3>4. \A m, n \in 1..N : m < n => s[m] < s[n]
      BY <3>2 DEF Climbs
    <3>5. \A j \in all : j \in Int
      BY <3>1
    <3> HIDE DEF s, N, all
    <3>6. N \in 1..N
      <4>1. f \in all
        BY DEF all
      <4> QED BY <3>3, <4>1
    <3>7. \A n \in 1..N : s[n] <= s[N]
      <4> TAKE n \in 1..N
      <4>1. n < N \/ n = N
        BY <3>3
      <4>2. s[n] \in Int /\ s[N] \in Int
        BY <3>3, <3>5, <3>6
      <4> QED BY <3>4, <3>6, <4>1, <4>2
    <3>8. \A j \in all : j <= s[N]
      BY <3>3, <3>7
    <3>9. s[N] \in Int
      BY <3>3, <3>5, <3>6
    <3>10. \A j \in S \cup {f} : j <= s[N]
      BY <3>8 DEF all
    <3> QED BY <3>9, <3>10
  <2>2. UpTo(S, top) = S
    BY <2>1 DEF UpTo
  <2>3. UpTo(T, top - f) = T
    BY <2>1 DEF UpTo, Beyond
  <2> QED BY <1>1, <2>1, <2>2, <2>3
<1>8. ASSUME NEW n \in 1..Cardinality(T)
      PROVE  Ascending(S)[k + n] = Ascending(T)[n] + f
  <2>1. PICK y \in T : Cardinality(UpTo(T, y)) = n
    BY <1>6
  <2>2. Ascending(T)[n] = y
    BY <1>6, <2>1
  <2>3. y \in Int /\ y + f \in S /\ y + f >= f /\ y + f \in Int /\ (y + f) - f = y
    BY <1>3
  <2> DEFINE x == y + f
  <2> HIDE DEF x
  <2>4. x \in S /\ x \in Int /\ x >= f /\ x - f = y
    BY <2>3 DEF x
  <2>5. Cardinality(UpTo(S, x)) = k + Cardinality(UpTo(T, x - f))
    BY <1>1, <2>4
  <2>6. Cardinality(UpTo(S, x)) = k + n
    BY <2>1, <2>4, <2>5
  <2>7. Ascending(S)[k + n] = x
    BY <1>5, <2>4, <2>6
  <2> QED BY <2>2, <2>7 DEF x
<1> QED BY <1>2, <1>4, <1>7, <1>8

(* part is what whole holds after its first k. *)
Ends(whole, part, k) ==
  /\ k \in Nat /\ Len(whole) = k + Len(part)
  /\ \A n \in DOMAIN part : part[n] = whole[k + n]

(* What is picked, one after another. *)
LEMMA PickedAre ==
  ASSUME NEW A, NEW s \in Seq(A), NEW places, places \subseteq DOMAIN s
  PROVE  /\ places \subseteq Int /\ IsFiniteSet(places) /\ Cardinality(places) \in Nat
         /\ Picked(s, places) \in Seq(A) /\ Len(Picked(s, places)) = Cardinality(places)
         /\ DOMAIN Picked(s, places) = 1..Cardinality(places)
         /\ \A n \in 1..Cardinality(places) : /\ Ascending(places)[n] \in places
                                              /\ Picked(s, places)[n] = s[Ascending(places)[n]]
<1> DEFINE p == Picked(s, places)  a == Ascending(places)  N == Cardinality(places)
<1>1. places \subseteq Int /\ IsFiniteSet(places)
  <2>1. PICK M \in Nat : DOMAIN s = 1..M
    OBVIOUS
  <2>2. IsFiniteSet(1..M)
    BY FS_Interval
  <2> QED BY <2>1, <2>2, FS_Subset
<1>2. N \in Nat /\ Climbs(a, places)
  BY <1>1, AscendingIs
<1>3. DOMAIN a = 1..N /\ \A n \in 1..N : a[n] \in places
  BY <1>2 DEF Climbs, RangeOf
<1>4. p = [n \in DOMAIN a |-> s[a[n]]]
  BY DEF Picked
<1> HIDE DEF p, a, N
<1>5. \A i \in places : s[i] \in A
  OBVIOUS
<1>6. p \in [1..N -> A] /\ \A n \in 1..N : p[n] = s[a[n]]
  BY <1>3, <1>4, <1>5
<1>7. p \in Seq(A) /\ Len(p) = N /\ DOMAIN p = 1..N
  BY <1>2, <1>6
<1> QED BY <1>1, <1>2, <1>3, <1>6, <1>7 DEF p, a, N

(* Picking from the end of a sequence gives the end of what is picked from it. *)
LEMMA PickedEnds ==
  ASSUME NEW A, NEW whole \in Seq(A), NEW part \in Seq(A), NEW k, Ends(whole, part, k),
         NEW places, places \subseteq DOMAIN whole, Beyond(places, k) \subseteq DOMAIN part
  PROVE  Ends(Picked(whole, places), Picked(part, Beyond(places, k)),
              Cardinality(UpTo(places, k)))
<1> DEFINE P == Beyond(places, k)  w == Picked(whole, places)  p == Picked(part, P)
           m == Cardinality(UpTo(places, k))
<1>1. k \in Nat /\ \A n \in DOMAIN part : part[n] = whole[k + n]
  BY DEF Ends
<1>2. /\ places \subseteq Int /\ IsFiniteSet(places) /\ Cardinality(places) \in Nat
      /\ w \in Seq(A) /\ Len(w) = Cardinality(places) /\ DOMAIN w = 1..Cardinality(places)
      /\ \A n \in 1..Cardinality(places) : w[n] = whole[Ascending(places)[n]]
  BY PickedAre
<1>3. /\ Cardinality(P) \in Nat /\ P \subseteq Int
      /\ p \in Seq(A) /\ Len(p) = Cardinality(P) /\ DOMAIN p = 1..Cardinality(P)
      /\ \A n \in 1..Cardinality(P) : Ascending(P)[n] \in P /\ p[n] = part[Ascending(P)[n]]
  BY PickedAre
<1>4. /\ m \in Nat /\ Cardinality(places) = m + Cardinality(P)
      /\ \A n \in 1..Cardinality(P) : Ascending(places)[m + n] = Ascending(P)[n] + k
  <2>1. k \in Int
    BY <1>1
  <2> QED BY <1>2, <2>1, AscendingBeyond
<1>5. P \subseteq DOMAIN part
  OBVIOUS
<1> HIDE DEF P, w, p, m
<1>6. ASSUME NEW n \in 1..Cardinality(P) PROVE p[n] = w[m + n]
  <2>1. m + n \in 1..Cardinality(places)
    BY <1>3, <1>4
  <2>2. w[m + n] = whole[Ascending(P)[n] + k]
    BY <1>2, <1>4, <2>1
  <2>3. PICK i \in P : i = Ascending(P)[n]
    BY <1>3
  <2>4. p[n] = part[i] /\ part[i] = whole[k + i] /\ k + i = i + k
    BY <1>1, <1>3, <1>5, <2>3
  <2> QED BY <2>2, <2>3, <2>4
<1>7. Ends(w, p, m)
  BY <1>2, <1>3, <1>4, <1>6 DEF Ends
<1> QED BY <1>7 DEF P, w, p, m

(* Of nothing taken away nothing is missing. *)
LEMMA EndsAll ==
  ASSUME NEW A, NEW whole \in Seq(A), NEW part \in Seq(A), Ends(whole, part, 0)
  PROVE  whole = part
<1>1. PICK M \in Nat : M = Len(part) /\ DOMAIN part = 1..M
  OBVIOUS
<1>2. Len(whole) = M /\ \A n \in 1..M : part[n] = whole[n]
  BY <1>1 DEF Ends
<1> QED BY <1>1, <1>2

(* The newest of the end are the newest of all. *)
LEMMA NewestEnds ==
  ASSUME NEW A, NEW whole \in Seq(A), NEW part \in Seq(A), NEW k, Ends(whole, part, k),
         Len(part) >= Wanted
  PROVE  NewestOf(whole) = NewestOf(part)
<1>1. PICK M \in Nat, N \in Nat : /\ M = Len(part) /\ DOMAIN part = 1..M
                                  /\ N = Len(whole) /\ DOMAIN whole = 1..N
  OBVIOUS
<1>2. k \in Nat /\ N = k + M /\ \A n \in 1..M : part[n] = whole[k + n]
  BY <1>1 DEF Ends
<1>3. PICK W \in Nat : W = Wanted /\ M >= W
  BY <1>1, EventLogAssumption
<1> DEFINE i == IF M > W THEN M - W + 1 ELSE 1
           j == IF N > W THEN N - W + 1 ELSE 1
<1>4. NewestOf(whole) = SubSeq(whole, j, N) /\ NewestOf(part) = SubSeq(part, i, M)
  BY <1>1, <1>3 DEF NewestOf
<1>5. i \in Nat /\ i >= 1 /\ i <= M + 1 /\ j \in Nat /\ j >= 1 /\ j <= N + 1
  BY <1>2, <1>3
<1>6. (j = k + i) \/ (i = M + 1 /\ j = N + 1) \/ (i > M /\ j > N)
  BY <1>2, <1>3
<1> HIDE DEF i, j
<1>7. CASE j = k + i
  <2>1. (N - j) + 1 = (M - i) + 1 /\ (M - i) + 1 \in Nat
    BY <1>2, <1>5, <1>7
  <2>2. PICK L \in Nat : L = (M - i) + 1 /\ L = (N - j) + 1
    BY <2>1
  <2>3. /\ SubSeq(whole, j, N) = [n \in 1..L |-> whole[j + n - 1]]
        /\ SubSeq(part, i, M) = [n \in 1..L |-> part[i + n - 1]]
    <3>1. N - j + 1 = L /\ M - i + 1 = L
      BY <2>2, <1>2, <1>5
    <3> QED BY <1>1, <1>2, <1>5, <2>2, <3>1
  <2>4. \A n \in 1..L : part[i + n - 1] = whole[j + n - 1]
    <3> TAKE n \in 1..L
    <3>1. i + n - 1 \in 1..M /\ k + (i + n - 1) = j + n - 1
      BY <1>2, <1>5, <1>7, <2>2
    <3> QED BY <1>2, <3>1
  <2> QED BY <1>4, <2>3, <2>4
<1>8. CASE i > M /\ j > N
  <2>1. SubSeq(whole, j, N) = << >> /\ SubSeq(part, i, M) = << >>
    BY <1>1, <1>2, <1>5, <1>8
  <2> QED BY <1>4, <2>1
<1> QED BY <1>2, <1>5, <1>6, <1>7, <1>8

-----------------------------------------------------------------------------
(* A log cut after a newline, and what is read of it. *)

(* What a log holds: whatever its entries are made of, and the newlines. *)
Bytes == {Newline} \cup (Nat \X Nat)
InLineTo(bytes, end) == {i \in 1..end - 1 : \A j \in i..end - 1 : bytes[j] # Newline}

(* The lines of bytes are as many as their ends, in the order of those. *)
LEMMA LinesAre ==
  ASSUME NEW bytes \in Seq(Bytes)
  PROVE  /\ EndsOf(bytes) \subseteq DOMAIN bytes /\ EndsOf(bytes) \subseteq Int
         /\ IsFiniteSet(EndsOf(bytes)) /\ Cardinality(EndsOf(bytes)) \in Nat
         /\ \A n \in 1..Cardinality(EndsOf(bytes)) :
              /\ Ascending(EndsOf(bytes))[n] \in EndsOf(bytes)
              /\ LinesOf(bytes)[n] = LineTo(bytes, Ascending(EndsOf(bytes))[n])
         /\ DOMAIN LinesOf(bytes) = 1..Cardinality(EndsOf(bytes))
         /\ Len(LinesOf(bytes)) = Cardinality(EndsOf(bytes))
         /\ LinesOf(bytes) \in Seq(Seq(Bytes))
<1> DEFINE E == EndsOf(bytes)  a == Ascending(E)  N == Cardinality(E)  l == LinesOf(bytes)
<1>1. PICK M \in Nat : M = Len(bytes) /\ DOMAIN bytes = 1..M
  OBVIOUS
<1>2. E \subseteq DOMAIN bytes /\ E \subseteq Int /\ IsFiniteSet(E)
  <2>1. E \subseteq 1..M
    BY <1>1 DEF EndsOf, NewlinesOf
  <2>2. IsFiniteSet(1..M)
    BY FS_Interval
  <2>3. IsFiniteSet(E)
    BY <2>1, <2>2, FS_Subset
  <2> QED BY <1>1, <2>1, <2>3
<1>3. N \in Nat /\ Climbs(a, E)
  BY <1>2, AscendingIs
<1>4. DOMAIN a = 1..N /\ \A n \in 1..N : a[n] \in E
  BY <1>3 DEF Climbs, RangeOf
<1>5. l = [n \in DOMAIN a |-> LineTo(bytes, a[n])]
  BY DEF LinesOf
<1>6. \A e \in E : LineTo(bytes, e) \in Seq(Bytes)
  <2> TAKE e \in E
  <2>1. e \in 1..M
    BY <1>1, <1>2
  <2>2. InLineTo(bytes, e) \subseteq DOMAIN bytes
    <3>1. \A i \in 1..e - 1 : i \in 1..M
      BY <2>1
    <3> QED BY <1>1, <3>1 DEF InLineTo
  <2>3. Picked(bytes, InLineTo(bytes, e)) \in Seq(Bytes)
    BY <2>2, PickedAre
  <2> QED BY <2>3 DEF LineTo, InLineTo
<1> HIDE DEF E, a, N, l
<1>7. l \in [1..N -> Seq(Bytes)] /\ \A n \in 1..N : l[n] = LineTo(bytes, a[n])
  BY <1>4, <1>5, <1>6
<1>8. l \in Seq(Seq(Bytes)) /\ Len(l) = N /\ DOMAIN l = 1..N
  BY <1>3, <1>7
<1> QED BY <1>2, <1>3, <1>4, <1>7, <1>8 DEF E, a, N, l

(* After a newline the lines end as they do in the whole. *)
LEMMA EndsBeyond ==
  ASSUME NEW whole \in Seq(Bytes), NEW part \in Seq(Bytes), NEW f, Ends(whole, part, f),
         f > 0, whole[f] = Newline
  PROVE  EndsOf(part) = Beyond(EndsOf(whole), f)
<1>1. PICK M \in Nat, N \in Nat : /\ M = Len(part) /\ DOMAIN part = 1..M
                                  /\ N = Len(whole) /\ DOMAIN whole = 1..N
  OBVIOUS
<1>2. f \in Nat /\ N = f + M /\ \A n \in 1..M : part[n] = whole[f + n]
  BY <1>1 DEF Ends
<1>3. \A e : e \in EndsOf(part) <=>
             /\ e \in 1..M /\ part[e] = Newline
             /\ e - 1 \in 1..M /\ part[e - 1] # Newline
  BY <1>1 DEF EndsOf, NewlinesOf
<1>4. \A e : e \in EndsOf(whole) <=>
             /\ e \in 1..N /\ whole[e] = Newline
             /\ e - 1 \in 1..N /\ whole[e - 1] # Newline
  BY <1>1 DEF EndsOf, NewlinesOf
<1>5. ASSUME NEW e \in EndsOf(part) PROVE e \in Beyond(EndsOf(whole), f)
  <2>1. /\ e \in 1..M /\ part[e] = Newline /\ e - 1 \in 1..M /\ part[e - 1] # Newline
    BY <1>3
  <2>2. f + e \in 1..N /\ whole[f + e] = Newline
    BY <1>2, <2>1
  <2>3. f + (e - 1) = (f + e) - 1 /\ (f + e) - 1 \in 1..N
    BY <1>2, <2>1
  <2>4. whole[(f + e) - 1] # Newline
    <3>1. part[e - 1] = whole[f + (e - 1)]
      BY <1>2, <2>1
    <3> QED BY <2>1, <2>3, <3>1
  <2>5. PICK i : i = f + e
    OBVIOUS
  <2>6. i \in EndsOf(whole)
    BY <1>4, <2>2, <2>3, <2>4, <2>5
  <2>7. i > f /\ i - f = e
    BY <1>2, <2>1, <2>5
  <2> QED BY <2>6, <2>7 DEF Beyond
<1>6. ASSUME NEW e \in EndsOf(whole), e > f PROVE e - f \in EndsOf(part)
  <2>1. /\ e \in 1..N /\ whole[e] = Newline /\ e - 1 \in 1..N /\ whole[e - 1] # Newline
    BY <1>4
  <2>2. e - 1 # f
    BY <2>1
  <2>3. e - f \in 1..M /\ (e - f) - 1 \in 1..M
    BY <1>2, <1>6, <2>1, <2>2
  <2>4. f + (e - f) = e /\ f + ((e - f) - 1) = e - 1
    BY <1>2, <2>1
  <2>5. part[e - f] = whole[e] /\ part[(e - f) - 1] = whole[e - 1]
    BY <1>2, <2>3, <2>4
  <2> QED BY <1>3, <2>1, <2>3, <2>5
<1>7. Beyond(EndsOf(whole), f) \subseteq EndsOf(part)
  BY <1>6 DEF Beyond
<1> QED BY <1>5, <1>7

(* And such a line is what it is in the whole. *)
LEMMA LineBeyond ==
  ASSUME NEW whole \in Seq(Bytes), NEW part \in Seq(Bytes), NEW f, Ends(whole, part, f),
         f > 0, whole[f] = Newline, NEW e \in DOMAIN part, f + e \in DOMAIN whole
  PROVE  LineTo(part, e) = LineTo(whole, f + e)
<1> DEFINE places == InLineTo(whole, f + e)
<1>1. PICK M \in Nat, N \in Nat : /\ M = Len(part) /\ DOMAIN part = 1..M
                                  /\ N = Len(whole) /\ DOMAIN whole = 1..N
  OBVIOUS
<1>2. f \in Nat /\ N = f + M /\ \A n \in 1..M : part[n] = whole[f + n]
  BY <1>1 DEF Ends
<1>3. e \in 1..M /\ f + e \in 1..N
  BY <1>1
<1>4. \A i : i \in places <=>
        i \in 1..(f + e) - 1 /\ \A j \in i..(f + e) - 1 : whole[j] # Newline
  BY DEF InLineTo
<1>5. \A i \in places : i > f
  <2> SUFFICES ASSUME NEW i \in places, i <= f PROVE FALSE
    BY <1>2, <1>3, <1>4
  <2>1. f \in i..(f + e) - 1
    BY <1>2, <1>3, <1>4
  <2> QED BY <1>4, <2>1
<1>6. InLineTo(part, e) = Beyond(places, f)
  <2>1. ASSUME NEW i \in InLineTo(part, e) PROVE i \in Beyond(places, f)
    <3>1. i \in 1..e - 1 /\ \A j \in i..e - 1 : part[j] # Newline
      BY DEF InLineTo
    <3>2. f + i \in 1..(f + e) - 1 /\ f + i > f /\ (f + i) - f = i
      BY <1>2, <1>3, <3>1
    <3>3. ASSUME NEW j \in (f + i)..(f + e) - 1 PROVE whole[j] # Newline
      <4>1. j - f \in i..e - 1 /\ j - f \in 1..M /\ f + (j - f) = j
        BY <1>2, <1>3, <3>1
      <4>2. part[j - f] = whole[j]
        BY <1>2, <4>1
      <4> QED BY <3>1, <4>1, <4>2
    <3>4. f + i \in places
      BY <1>4, <3>2, <3>3
    <3> HIDE DEF places
    <3> QED BY <3>2, <3>4 DEF Beyond
  <2>2. ASSUME NEW i \in places PROVE i - f \in InLineTo(part, e)
    <3>1. i \in 1..(f + e) - 1 /\ (\A j \in i..(f + e) - 1 : whole[j] # Newline) /\ i > f
      BY <1>4, <1>5
    <3>2. i - f \in 1..e - 1
      BY <1>2, <1>3, <3>1
    <3>3. ASSUME NEW j \in (i - f)..e - 1 PROVE part[j] # Newline
      <4>1. f + j \in i..(f + e) - 1 /\ j \in 1..M
        BY <1>2, <1>3, <3>1, <3>2
      <4> QED BY <1>2, <3>1, <4>1
    <3> QED BY <3>2, <3>3 DEF InLineTo
  <2> HIDE DEF places
  <2>3. Beyond(places, f) \subseteq InLineTo(part, e)
    BY <2>2 DEF Beyond
  <2> QED BY <2>1, <2>3
<1>7. places \subseteq DOMAIN whole /\ Beyond(places, f) \subseteq DOMAIN part
  <2>1. places \subseteq DOMAIN whole
    BY <1>1, <1>2, <1>3, <1>4
  <2>2. InLineTo(part, e) \subseteq DOMAIN part
    <3>1. \A i \in 1..e - 1 : i \in 1..M
      BY <1>3
    <3> QED BY <1>1, <3>1 DEF InLineTo
  <2> QED BY <1>6, <2>1, <2>2
<1>8. Cardinality(UpTo(places, f)) = 0
  <2>1. \A i \in places : ~(i <= f)
    BY <1>2, <1>3, <1>4, <1>5
  <2>2. UpTo(places, f) = {}
    BY <2>1 DEF UpTo
  <2> QED BY <2>2, FS_EmptySet
<1> HIDE DEF places
<1>9. Ends(Picked(whole, places), Picked(part, Beyond(places, f)), 0)
  BY <1>7, <1>8, PickedEnds
<1>10. Picked(whole, places) \in Seq(Bytes) /\ Picked(part, Beyond(places, f)) \in Seq(Bytes)
  BY <1>7, PickedAre
<1>11. Picked(whole, places) = Picked(part, Beyond(places, f))
  BY <1>9, <1>10, EndsAll
<1>12. Picked(part, Beyond(places, f)) = LineTo(part, e)
  BY <1>6 DEF LineTo, InLineTo
<1>13. Picked(whole, places) = LineTo(whole, f + e)
  BY DEF LineTo, InLineTo, places
<1> QED BY <1>11, <1>12, <1>13

(* So a log read from a newline on has the lines that the whole ends with. *)
LEMMA LinesEnd ==
  ASSUME NEW whole \in Seq(Bytes), NEW part \in Seq(Bytes), NEW f, Ends(whole, part, f),
         f > 0, whole[f] = Newline
  PROVE  Ends(LinesOf(whole), LinesOf(part), Cardinality(UpTo(EndsOf(whole), f)))
<1> DEFINE W == EndsOf(whole)  P == EndsOf(part)  k == Cardinality(UpTo(W, f))
           w == LinesOf(whole)  p == LinesOf(part)
<1>1. P = Beyond(W, f)
  BY EndsBeyond
<1>2. /\ W \subseteq DOMAIN whole /\ W \subseteq Int /\ IsFiniteSet(W)
      /\ \A n \in 1..Cardinality(W) : w[n] = LineTo(whole, Ascending(W)[n])
      /\ DOMAIN w = 1..Cardinality(W) /\ Len(w) = Cardinality(W)
  BY LinesAre
<1>3. /\ P \subseteq DOMAIN part /\ P \subseteq Int /\ Cardinality(P) \in Nat
      /\ \A n \in 1..Cardinality(P) : /\ Ascending(P)[n] \in P
                                      /\ p[n] = LineTo(part, Ascending(P)[n])
      /\ DOMAIN p = 1..Cardinality(P) /\ Len(p) = Cardinality(P)
  BY LinesAre
<1>4. f \in Int
  BY DEF Ends
<1>5. /\ k \in Nat /\ Cardinality(W) = k + Cardinality(P)
      /\ \A n \in 1..Cardinality(P) : Ascending(W)[k + n] = Ascending(P)[n] + f
  <2> HIDE DEF W, P
  <2>1. W \subseteq Int /\ IsFiniteSet(W)
    BY <1>2
  <2>2. /\ Cardinality(UpTo(W, f)) \in Nat
        /\ Cardinality(W) = Cardinality(UpTo(W, f)) + Cardinality(Beyond(W, f))
        /\ \A n \in 1..Cardinality(Beyond(W, f)) :
              Ascending(W)[Cardinality(UpTo(W, f)) + n] = Ascending(Beyond(W, f))[n] + f
    BY ONLY <1>4, <2>1, AscendingBeyond
  <2> QED BY <1>1, <2>2
<1> HIDE DEF W, P, k, w, p
<1>6. ASSUME NEW n \in 1..Cardinality(P) PROVE p[n] = w[k + n]
  <2>1. k + n \in 1..Cardinality(W)
    BY <1>3, <1>5
  <2>2. PICK e \in P : e = Ascending(P)[n]
    BY <1>3
  <2>3. e \in Int /\ e \in DOMAIN part /\ Ascending(W)[k + n] = f + e
    BY <1>3, <1>4, <1>5, <2>2
  <2>4. f + e \in DOMAIN whole
    <3>1. e \in Beyond(W, f)
      BY <1>1
    <3>2. PICK i \in W : e = i - f
      BY <3>1 DEF Beyond
    <3> QED BY <1>2, <1>4, <3>2
  <2>5. LineTo(part, e) = LineTo(whole, f + e)
    BY <2>3, <2>4, LineBeyond
  <2> QED BY <1>2, <1>3, <2>1, <2>2, <2>3, <2>5
<1>7. Ends(w, p, k)
  BY <1>2, <1>3, <1>5, <1>6 DEF Ends
<1> QED BY <1>7 DEF k, w, p, W

(* The least of some places. *)
LEMMA LeastPlace ==
  ASSUME NEW N \in Nat, NEW S, S \subseteq 1..N, S # {}
  PROVE  \E i \in S : \A j \in S : i <= j
<1>1. S \subseteq Int /\ IsFiniteSet(S)
  <2>1. PICK T : T = 1..N
    OBVIOUS
  <2>2. IsFiniteSet(1..N)
    BY FS_Interval
  <2>3. IsFiniteSet(S)
    BY <2>1, <2>2, FS_Subset
  <2>4. \A i \in S : i \in Int
    OBVIOUS
  <2> QED BY <2>3, <2>4
<1>2. Cardinality(S) \in Nat /\ Climbs(Ascending(S), S)
  BY <1>1, AscendingIs
<1> DEFINE s == Ascending(S)  C == Cardinality(S)
<1>3. /\ DOMAIN s = 1..C /\ (\A n \in 1..C : s[n] \in S)
      /\ (\A j \in S : \E n \in 1..C : s[n] = j)
      /\ \A m, n \in 1..C : m < n => s[m] < s[n]
  BY <1>2 DEF Climbs, RangeOf
<1> HIDE DEF s, C
<1>4. 1 \in 1..C
  <2>1. PICK j \in S : TRUE
    OBVIOUS
  <2>2. PICK n \in 1..C : s[n] = j
    BY <1>3
  <2> QED BY <1>2, <2>2 DEF C
<1>5. \A n \in 1..C : s[1] <= s[n]
  <2> TAKE n \in 1..C
  <2>1. n = 1 \/ 1 < n
    BY <1>4
  <2>2. s[1] \in Int /\ s[n] \in Int
    BY <1>1, <1>3, <1>4
  <2> QED BY <1>3, <1>4, <2>1, <2>2
<1>6. s[1] \in S /\ \A j \in S : s[1] <= j
  BY <1>3, <1>4, <1>5
<1> QED BY <1>6

(* The tail of a tail. *)
LEMMA TailEnds ==
  ASSUME NEW A, NEW s \in Seq(A), NEW k \in Nat, k <= Len(s)
  PROVE  SubSeq(s, k + 1, Len(s)) \in Seq(A) /\ Ends(s, SubSeq(s, k + 1, Len(s)), k)
<1>1. PICK N \in Nat : N = Len(s) /\ DOMAIN s = 1..N /\ k <= N
  OBVIOUS
<1>2. PICK L \in Nat : N = k + L
  <2>1. N - k \in Nat /\ N = k + (N - k)
    BY <1>1
  <2> QED BY <2>1
<1> DEFINE t == SubSeq(s, k + 1, N)
<1>3. t \in Seq(A) /\ Len(t) = L /\ DOMAIN t = 1..L /\ \A n \in 1..L : t[n] = s[k + n]
  <2>1. t = [n \in 1..L |-> s[k + n]]
    <3>1. N - (k + 1) + 1 = L /\ \A n \in 1..L : (k + 1) + n - 1 = k + n
      BY <1>2
    <3>2. t = [n \in 1..(N - (k + 1) + 1) |-> s[(k + 1) + n - 1]]
      BY <1>1
    <3> HIDE DEF t
    <3> QED BY <3>1, <3>2
  <2>2. \A n \in 1..L : s[k + n] \in A
    <3> TAKE n \in 1..L
    <3>1. k + n \in 1..N
      BY <1>2
    <3> QED BY <1>1, <3>1
  <2> HIDE DEF t
  <2>3. t \in [1..L -> A] /\ \A n \in 1..L : t[n] = s[k + n]
    BY <2>1, <2>2
  <2> QED BY <2>3
<1> HIDE DEF t
<1>4. Ends(s, t, k)
  BY <1>1, <1>2, <1>3 DEF Ends
<1> QED BY <1>1, <1>3, <1>4 DEF t

(* From its first on, a sequence is all of it. *)
LEMMA AllOfIt ==
  ASSUME NEW A, NEW s \in Seq(A)
  PROVE  SubSeq(s, 0 + 1, Len(s)) = s
OBVIOUS

(* What ends the end, ends the whole. *)
LEMMA EndsOfEnds ==
  ASSUME NEW a, NEW b, NEW c, NEW k, NEW l, Ends(a, b, k), Ends(b, c, l),
         NEW N \in Nat, DOMAIN b = 1..N, Len(b) = N, NEW M \in Nat, DOMAIN c = 1..M, Len(c) = M
  PROVE  Ends(a, c, k + l)
<1>1. /\ k \in Nat /\ l \in Nat /\ Len(a) = k + N /\ N = l + M
      /\ (\A n \in 1..N : b[n] = a[k + n]) /\ \A n \in 1..M : c[n] = b[l + n]
  BY DEF Ends
<1>2. \A n \in 1..M : l + n \in 1..N /\ k + (l + n) = (k + l) + n
  BY <1>1
<1>3. \A n \in 1..M : c[n] = a[(k + l) + n]
  BY <1>1, <1>2
<1>4. k + l \in Nat /\ Len(a) = (k + l) + M
  BY <1>1
<1> QED BY <1>3, <1>4 DEF Ends

(* Without a newline there is no line. *)
LEMMA NoLines ==
  ASSUME NEW bytes \in Seq(Bytes), NewlinesOf(bytes) = {}
  PROVE  LinesOf(bytes) = << >>
<1>1. EndsOf(bytes) = {}
  BY DEF EndsOf
<1>2. Cardinality(EndsOf(bytes)) = 0
  BY <1>1, FS_EmptySet
<1>3. LinesOf(bytes) \in Seq(Seq(Bytes)) /\ Len(LinesOf(bytes)) = 0
  BY <1>2, LinesAre
<1> QED BY <1>3

(* The complete lines of a window that opens at pos. *)
LinesAt(window, pos) == CompleteLines(window, pos = 0)

(* The complete lines of a window are those of the log, or the last of them. *)
LEMMA CompleteEnds ==
  ASSUME NEW bytes \in Seq(Bytes), NEW pos \in Nat,
         NEW window \in Seq(Bytes), Ends(bytes, window, pos),
         NEW lines, lines = LinesAt(window, pos)
  PROVE  /\ lines \in Seq(Seq(Bytes)) /\ LinesOf(bytes) \in Seq(Seq(Bytes))
         /\ pos = 0 => lines = LinesOf(bytes)
         /\ \E k \in Nat : Ends(LinesOf(bytes), lines, k)
<1> DEFINE all == LinesOf(bytes)  ends == NewlinesOf(window)
<1>1. all \in Seq(Seq(Bytes))
  BY LinesAre
<1>2. PICK N \in Nat : N = Len(bytes) /\ DOMAIN bytes = 1..N
  OBVIOUS
<1>3. window \in Seq(Bytes) /\ Ends(bytes, window, pos)
  OBVIOUS
<1>4. PICK M \in Nat : M = Len(window) /\ DOMAIN window = 1..M
  OBVIOUS
<1>5. PICK K \in Nat : K = Len(all) /\ DOMAIN all = 1..K
  BY <1>1
<1>6. Ends(all, all, 0) /\ Ends(all, << >>, K)
  <2>1. \A n \in 1..K : 0 + n = n
    OBVIOUS
  <2>2. Ends(all, all, 0)
    BY <1>5, <2>1 DEF Ends
  <2>3. Ends(all, << >>, K)
    BY <1>5 DEF Ends
  <2> QED BY <2>2, <2>3
<1>7. pos = 0 => window = bytes
  <2> SUFFICES ASSUME pos = 0 PROVE window = bytes
    OBVIOUS
  <2>1. Ends(bytes, window, 0)
    BY <1>3
  <2> QED BY <1>3, <2>1, EndsAll
<1>8. CASE ends = {}
  <2>1. lines = << >>
    BY <1>8 DEF CompleteLines, LinesAt
  <2>2. pos = 0 => all = << >>
    BY <1>7, <1>8, NoLines
  <2> HIDE DEF all
  <2>3. << >> \in Seq(Seq(Bytes))
    OBVIOUS
  <2>4. Ends(all, lines, K)
    BY <1>6, <2>1
  <2> QED BY <1>1, <1>5, <2>1, <2>2, <2>3, <2>4 DEF all
<1>9. CASE ends # {} /\ pos = 0
  <2>1. lines = LinesOf(SubSeq(window, 0 + 1, Len(window)))
    BY <1>9 DEF CompleteLines, LinesAt
  <2>3. window = SubSeq(window, 0 + 1, Len(window))
    BY AllOfIt
  <2>4. lines = all
    BY <1>7, <1>9, <2>1, <2>3
  <2> QED BY <1>1, <1>6, <2>4
<1>10. CASE ends # {} /\ pos # 0
  <2> DEFINE first == CHOOSE i \in ends : \A j \in ends : i <= j
  <2>1. first \in ends
    <3>1. ends \subseteq 1..M
      BY <1>4 DEF NewlinesOf
    <3>2. \E i \in ends : \A j \in ends : i <= j
      <4> HIDE DEF ends
      <4> QED BY <1>10, <3>1, LeastPlace
    <3> QED BY <3>2, Zenon
  <2>2. lines = LinesOf(SubSeq(window, first + 1, Len(window)))
    BY <1>10 DEF CompleteLines, LinesAt
  <2> HIDE DEF first
  <2>3. first \in 1..M /\ window[first] = Newline
    BY <1>4, <2>1 DEF NewlinesOf
  <2> DEFINE part == SubSeq(window, first + 1, Len(window))
  <2>4. part \in Seq(Bytes) /\ Ends(window, part, first)
    <3>1. first \in Nat /\ first <= Len(window)
      BY <1>4, <2>3
    <3> QED BY <1>3, <3>1, TailEnds
  <2>5. lines = LinesOf(part)
    BY <2>2
  <2> HIDE DEF part
  <2>6. PICK L \in Nat : L = Len(part) /\ DOMAIN part = 1..L
    BY <2>4
  <2>7. Ends(bytes, part, pos + first)
    BY <1>3, <1>4, <2>4, <2>6, EndsOfEnds
  <2>8. bytes[pos + first] = Newline /\ pos + first > 0
    <3>1. window[first] = bytes[pos + first]
      BY <1>3, <1>4, <2>3 DEF Ends
    <3> QED BY <2>3, <3>1
  <2>9. PICK f : f = pos + first
    OBVIOUS
  <2>10. Ends(all, LinesOf(part), Cardinality(UpTo(EndsOf(bytes), f)))
    BY <2>4, <2>7, <2>8, <2>9, LinesEnd
  <2>11. LinesOf(part) \in Seq(Seq(Bytes))
    BY <2>4, LinesAre
  <2>12. Cardinality(UpTo(EndsOf(bytes), f)) \in Nat
    BY <2>10 DEF Ends
  <2> QED BY <1>1, <1>10, <2>5, <2>10, <2>11, <2>12
<1> QED BY <1>8, <1>9, <1>10

(* The events of the last lines are the last events. *)
LEMMA EventsEnd ==
  ASSUME NEW whole \in Seq(Seq(Bytes)), NEW part \in Seq(Seq(Bytes)), NEW k, Ends(whole, part, k)
  PROVE  /\ EventsOf(whole) \in Seq(Seq(Bytes)) /\ EventsOf(part) \in Seq(Seq(Bytes))
         /\ \E m \in Nat : Ends(EventsOf(whole), EventsOf(part), m)
<1> DEFINE W == {n \in DOMAIN whole : IsEvent(whole[n])}
           P == {n \in DOMAIN part : IsEvent(part[n])}
<1>1. PICK M \in Nat, N \in Nat : /\ M = Len(part) /\ DOMAIN part = 1..M
                                  /\ N = Len(whole) /\ DOMAIN whole = 1..N
  OBVIOUS
<1>2. k \in Nat /\ N = k + M /\ \A n \in 1..M : part[n] = whole[k + n]
  BY <1>1 DEF Ends
<1>3. /\ \A n : n \in W <=> n \in 1..N /\ IsEvent(whole[n])
      /\ \A n : n \in P <=> n \in 1..M /\ IsEvent(part[n])
  BY <1>1
<1>4. EventsOf(whole) = Picked(whole, W) /\ EventsOf(part) = Picked(part, P)
  BY DEF EventsOf
<1>5. W \subseteq DOMAIN whole /\ P \subseteq DOMAIN part
  OBVIOUS
<1> HIDE DEF W, P
<1>6. P = Beyond(W, k)
  <2>1. ASSUME NEW n \in P PROVE n \in Beyond(W, k)
    <3>1. k + n \in 1..N /\ k + n > k /\ (k + n) - k = n /\ n \in 1..M
      BY <1>2, <1>3
    <3>2. k + n \in W
      BY <1>2, <1>3, <3>1
    <3> QED BY <3>1, <3>2 DEF Beyond
  <2>2. ASSUME NEW n \in W, n > k PROVE n - k \in P
    <3>1. n - k \in 1..M /\ k + (n - k) = n
      BY <1>2, <1>3, <2>2
    <3>2. part[n - k] = whole[n]
      BY <1>2, <3>1
    <3> QED BY <1>3, <3>1, <3>2
  <2> QED BY <2>1, <2>2 DEF Beyond
<1>7. Picked(whole, W) \in Seq(Seq(Bytes)) /\ Picked(part, P) \in Seq(Seq(Bytes))
  BY <1>5, PickedAre
<1>8. Ends(Picked(whole, W), Picked(part, Beyond(W, k)), Cardinality(UpTo(W, k)))
  BY <1>5, <1>6, PickedEnds
<1>9. Cardinality(UpTo(W, k)) \in Nat
  BY <1>8 DEF Ends
<1> QED BY <1>4, <1>6, <1>7, <1>8, <1>9

(* So a reader that has enough answers as if it had read everything. *)
LEMMA AnswerOfTheEnd ==
  ASSUME NEW bytes \in Seq(Bytes), NEW pos \in Nat,
         NEW window \in Seq(Bytes), Ends(bytes, window, pos), NEW wants,
         NEW lines, lines = LinesAt(window, pos),
         pos = 0 \/ Enough(wants, lines)
  PROVE  Answer(wants, lines) = Answer(wants, LinesOf(bytes))
<1> DEFINE all == LinesOf(bytes)
<1>1. /\ lines \in Seq(Seq(Bytes)) /\ all \in Seq(Seq(Bytes))
      /\ pos = 0 => lines = all
      /\ \E k \in Nat : Ends(all, lines, k)
  BY CompleteEnds
<1>2. CASE pos = 0
  BY <1>1, <1>2
<1>3. CASE pos # 0 /\ wants = "lines"
  <2>1. Len(lines) >= Wanted
    BY <1>3 DEF Enough
  <2> HIDE DEF all
  <2>2. NewestOf(all) = NewestOf(lines)
    BY <1>1, <2>1, NewestEnds
  <2> QED BY <1>3, <2>2 DEF Answer, all
<1>4. CASE pos # 0 /\ wants # "lines"
  <2>1. Len(EventsOf(lines)) >= Wanted
    BY <1>4 DEF Enough
  <2> HIDE DEF all
  <2>2. /\ EventsOf(all) \in Seq(Seq(Bytes)) /\ EventsOf(lines) \in Seq(Seq(Bytes))
        /\ \E m \in Nat : Ends(EventsOf(all), EventsOf(lines), m)
    BY <1>1, EventsEnd
  <2>3. NewestOf(EventsOf(all)) = NewestOf(EventsOf(lines))
    BY <2>1, <2>2, NewestEnds
  <2> QED BY <1>4, <2>3 DEF Answer, all
<1> QED BY <1>2, <1>3, <1>4

-----------------------------------------------------------------------------
(* The log of a run and its readers (paper.rs, tail_window). *)

(* The files hold bytes; a line under way has a file, and is not all written. *)
Writers == [entry : Nat, sent : Nat]
LogTyped ==
  /\ files \in Seq(Seq(Bytes)) /\ current \in Nat /\ logged \in Nat
  /\ current # 0 => current \in DOMAIN files
  /\ writer \in Writers
  /\ writer.entry # 0 => /\ writer.entry \in Entries /\ current # 0
                         /\ writer.sent < Len(LineOf(writer.entry))

(* A window is what its file held from pos to the end seen at the open, and an
   answer was given of all of that, or of enough of it. *)
Readers == [wants : {"none", "lines", "events"}, file : Nat, end : Nat, pos : Nat, step : Nat,
            window : Seq(Bytes), answered : BOOLEAN]
Held(file, end) == SubSeq(files[file], 1, end)
ReaderKept ==
  /\ reader \in Readers
  /\ reader.file # 0 =>
       /\ reader.file \in DOMAIN files /\ reader.end <= Len(files[reader.file])
       /\ Ends(Held(reader.file, reader.end), reader.window, reader.pos)
  /\ reader.answered =>
       /\ reader.file # 0
       /\ reader.pos = 0 \/ Enough(reader.wants, LinesAt(reader.window, reader.pos))

(* A line is bytes, its newline the last. *)
LEMMA LineOfIs ==
  ASSUME NEW e \in Entries
  PROVE  /\ LineOf(e) \in Seq(Bytes) /\ Len(LineOf(e)) \in Nat
         /\ \A n \in Nat : n < Len(LineOf(e)) => LineOf(e)[n + 1] \in Bytes
<1>1. Sizes[e] \in Nat /\ e \in Nat
  BY EventLogAssumption DEF Entries
<1>2. PICK M \in Nat : M = Sizes[e]
  BY <1>1
<1> DEFINE a == [n \in 1..M |-> <<e, n>>]
<1>3. a \in Seq(Bytes)
  <2>1. \A n \in 1..M : <<e, n>> \in Bytes
    BY <1>1 DEF Bytes
  <2>2. a \in [1..M -> Bytes]
    BY <2>1
  <2> HIDE DEF a
  <2> QED BY <2>2
<1>4. <<Newline>> \in Seq(Bytes)
  <2>1. Newline \in Bytes
    BY DEF Bytes
  <2> QED BY <2>1
<1>5. LineOf(e) = a \o <<Newline>>
  BY <1>2 DEF LineOf
<1> HIDE DEF a
<1>6. LineOf(e) \in Seq(Bytes)
  BY <1>3, <1>4, <1>5
<1>7. PICK N \in Nat : N = Len(LineOf(e)) /\ DOMAIN LineOf(e) = 1..N
  BY <1>6
<1>8. \A n \in Nat : n < N => LineOf(e)[n + 1] \in Bytes
  <2> SUFFICES ASSUME NEW n \in Nat, n < N PROVE LineOf(e)[n + 1] \in Bytes
    OBVIOUS
  <2>1. PICK i : i = n + 1
    OBVIOUS
  <2>2. i \in DOMAIN LineOf(e)
    BY <1>7, <2>1
  <2> QED BY <1>6, <2>1, <2>2
<1> QED BY <1>6, <1>7, <1>8

(* Before the first line. *)
LEMMA LogBegins == LogInit => LogTyped /\ ReaderKept
<1> SUFFICES ASSUME LogInit PROVE LogTyped /\ ReaderKept
  OBVIOUS
<1>1. LogTyped
  BY DEF LogInit, LogTyped, Writers
<1>2. ReaderKept
  <2>1. << >> \in Seq(Bytes)
    OBVIOUS
  <2> QED BY <2>1 DEF LogInit, ReaderKept, Readers, Reading
<1> QED BY <1>1, <1>2

(* Files that were there are there still, and begin as they did. *)
Grows ==
  /\ \A f \in DOMAIN files :
       /\ f \in DOMAIN files' /\ Len(files[f]) <= Len(files'[f])
       /\ \A end \in Nat : end <= Len(files[f]) => Held(f, end)' = Held(f, end)

(* A byte more is no byte less. *)
LEMMA AppendedHolds ==
  ASSUME NEW A, NEW s \in Seq(A), NEW x \in A
  PROVE  /\ Append(s, x) \in Seq(A) /\ Len(s) <= Len(Append(s, x))
         /\ \A end \in Nat : end <= Len(s) => SubSeq(Append(s, x), 1, end) = SubSeq(s, 1, end)
<1>1. PICK N \in Nat : N = Len(s) /\ DOMAIN s = 1..N
  OBVIOUS
<1>2. PICK t : t = Append(s, x)
  OBVIOUS
<1>3. t \in Seq(A) /\ Len(t) = N + 1 /\ \A i \in 1..N : t[i] = s[i]
  BY <1>1, <1>2
<1>4. ASSUME NEW end \in Nat, end <= N PROVE SubSeq(t, 1, end) = SubSeq(s, 1, end)
  <2>1. end <= Len(t) /\ end <= Len(s)
    BY <1>1, <1>3, <1>4
  <2>2. /\ SubSeq(t, 1, end) \in Seq(A) /\ DOMAIN SubSeq(t, 1, end) = 1..end
        /\ SubSeq(s, 1, end) \in Seq(A) /\ DOMAIN SubSeq(s, 1, end) = 1..end
        /\ Len(SubSeq(t, 1, end)) = end /\ Len(SubSeq(s, 1, end)) = end
        /\ \A i \in 1..end : SubSeq(t, 1, end)[i] = t[i] /\ SubSeq(s, 1, end)[i] = s[i]
    BY <1>3, <2>1, Firsts
  <2>3. \A i \in 1..end : t[i] = s[i]
    BY <1>3, <1>4
  <2> HIDE DEF Append
  <2> QED BY <2>2, <2>3
<1> QED BY <1>1, <1>2, <1>3, <1>4

(* A line that is begun takes nothing from any file: rolling renames one. *)
LEMMA OpensGrows ==
  ASSUME LogTyped, OpensLog
  PROVE  LogTyped' /\ Grows
<1> USE DEF LogTyped, OpensLog
<1>1. PICK N \in Nat : N = Len(files) /\ DOMAIN files = 1..N
  OBVIOUS
<1>2. logged + 1 \in Entries /\ logged + 1 \in Nat
  <2>1. PICK M \in Nat : M = Len(Sizes) /\ Entries = 1..M
    BY EventLogAssumption DEF Entries
  <2>2. Cardinality(1..M) = M
    BY ONLY M \in Nat, FS_Interval
  <2>3. logged < M /\ logged \in Nat
    BY <2>1, <2>2
  <2> QED BY <2>1, <2>3
<1>3. writer'.entry = logged + 1 /\ writer'.sent = 0 /\ writer' \in Writers
  BY <1>2 DEF Writers
<1>4. 0 < Len(LineOf(logged + 1))
  <2>1. PICK e \in Entries : e = logged + 1
    BY <1>2
  <2>2. PICK M \in Nat : M = Sizes[e]
    BY EventLogAssumption DEF Entries
  <2> DEFINE a == [n \in 1..M |-> <<e, n>>]
  <2>3. a \in Seq(Nat \X Nat) /\ LineOf(e) = a \o <<Newline>>
    <3>1. e \in Nat
      BY <1>2, <2>1
    <3>2. \A n \in 1..M : <<e, n>> \in Nat \X Nat
      BY <3>1
    <3>3. a \in [1..M -> Nat \X Nat]
      BY <3>2
    <3>4. LineOf(e) = a \o <<Newline>>
      BY <2>2 DEF LineOf
    <3> HIDE DEF a
    <3> QED BY <3>3, <3>4
  <2> HIDE DEF a
  <2>4. Len(a) \in Nat /\ Len(<<Newline>>) = 1 /\ Len(a \o <<Newline>>) = Len(a) + Len(<<Newline>>)
    BY <2>3
  <2>5. Len(LineOf(e)) = Len(a) + 1
    BY <2>3, <2>4
  <2> QED BY <2>1, <2>4, <2>5
<1>5. CASE current = 0 \/ Rolls
  <2>1. files' = Append(files, << >>) /\ current' = N + 1
    BY <1>1, <1>5
  <2>2. << >> \in Seq(Bytes)
    OBVIOUS
  <2>3. files' \in Seq(Seq(Bytes)) /\ DOMAIN files' = 1..(N + 1) /\ \A f \in 1..N : files'[f] = files[f]
    BY <1>1, <2>1, <2>2
  <2>4. Grows
    <3>1. \A f \in 1..N : f \in 1..(N + 1) /\ Len(files[f]) \in Nat
      BY <1>1
    <3> QED BY <1>1, <2>3, <3>1 DEF Grows, Held
  <2>5. current' \in DOMAIN files' /\ current' \in Nat /\ current' # 0
    BY <2>1, <2>3
  <2>6. LogTyped'
    BY <1>2, <1>3, <1>4, <2>3, <2>5
  <2> QED BY <2>4, <2>6
<1>6. CASE ~(current = 0 \/ Rolls)
  <2>1. files' = files /\ current' = current
    BY <1>6
  <2>2. Grows
    <3>1. \A f \in 1..N : Len(files[f]) \in Nat
      BY <1>1
    <3> QED BY <1>1, <2>1, <3>1 DEF Grows, Held
  <2>3. LogTyped'
    BY <1>2, <1>3, <1>4, <1>6, <2>1
  <2> QED BY <2>2, <2>3
<1> QED BY <1>5, <1>6

(* Neither does a byte of it. *)
LEMMA WritesGrow ==
  ASSUME LogTyped, WritesByte
  PROVE  LogTyped' /\ Grows
<1>0. files \in Seq(Seq(Bytes))
  BY DEF LogTyped
<1>1. PICK N \in Nat : N = Len(files) /\ DOMAIN files = 1..N
  BY <1>0
<1> USE DEF LogTyped, WritesByte
<1>2. /\ writer.entry \in Entries /\ writer.entry \in Nat /\ writer.sent \in Nat
      /\ writer.sent < Len(LineOf(writer.entry)) /\ current \in 1..N /\ writer.entry # 0
  BY <1>1 DEF Writers
<1>3. PICK x \in Bytes : files' = [files EXCEPT ![current] = Append(@, x)]
  <2>1. LineOf(writer.entry)[writer.sent + 1] \in Bytes
    BY <1>2, LineOfIs
  <2> QED BY <2>1
<1>4. PICK old \in Seq(Bytes) : old = files[current]
  BY <1>1, <1>2
<1>5. PICK more : more = Append(old, x)
  OBVIOUS
<1>6. /\ more \in Seq(Bytes) /\ Len(old) <= Len(more)
      /\ \A end \in Nat : end <= Len(old) => SubSeq(more, 1, end) = SubSeq(old, 1, end)
  BY <1>5, AppendedHolds
<1>7. files' = [files EXCEPT ![current] = more]
  BY <1>3, <1>4, <1>5
<1>8. /\ files' \in Seq(Seq(Bytes)) /\ DOMAIN files' = 1..N
      /\ files'[current] = more /\ \A f \in 1..N : f # current => files'[f] = files[f]
  <2>1. files \in [1..N -> Seq(Bytes)]
    BY <1>1
  <2>2. files' \in [1..N -> Seq(Bytes)]
    BY <1>2, <1>6, <1>7, <2>1
  <2> QED BY <1>2, <1>7, <2>1, <2>2
<1>9. Grows
  <2>1. \A f \in 1..N : Len(files[f]) \in Nat
    BY <1>1
  <2> SUFFICES ASSUME NEW f \in 1..N
               PROVE  /\ f \in DOMAIN files' /\ Len(files[f]) <= Len(files'[f])
                      /\ \A end \in Nat : end <= Len(files[f]) =>
                           SubSeq(files'[f], 1, end) = SubSeq(files[f], 1, end)
    BY <1>1 DEF Grows, Held
  <2>2. CASE f = current
    BY <1>4, <1>6, <1>8, <2>2
  <2>3. CASE f # current
    BY <1>8, <2>1, <2>3
  <2> QED BY <2>2, <2>3
<1>10. /\ writer' \in Writers
       /\ writer'.entry # 0 =>
            /\ writer'.entry = writer.entry /\ writer'.sent = writer.sent + 1
            /\ writer.sent + 1 # Len(LineOf(writer.entry))
  <2>1. writer = [entry |-> writer.entry, sent |-> writer.sent]
    BY DEF Writers
  <2>2. CASE writer.sent + 1 = Len(LineOf(writer.entry))
    BY <2>2 DEF Writers
  <2>3. CASE writer.sent + 1 # Len(LineOf(writer.entry))
    <3>1. writer' = [writer EXCEPT !.sent = @ + 1]
      BY <2>3
    <3>2. writer \in Writers
      OBVIOUS
    <3>3. /\ writer'.entry = writer.entry /\ writer'.sent = writer.sent + 1
          /\ writer' \in Writers
      BY ONLY <3>1, <3>2 DEF Writers
    <3> QED BY <2>3, <3>3
  <2> QED BY <2>2, <2>3
<1>11. writer'.entry # 0 => writer'.entry \in Entries /\ writer'.sent < Len(LineOf(writer'.entry))
  <2> SUFFICES ASSUME writer'.entry # 0
               PROVE  writer'.entry \in Entries /\ writer'.sent < Len(LineOf(writer'.entry))
    OBVIOUS
  <2>1. Len(LineOf(writer.entry)) \in Nat
    BY <1>2, LineOfIs
  <2>2. writer.sent + 1 < Len(LineOf(writer.entry))
    BY <1>2, <1>10, <2>1
  <2> QED BY <1>2, <1>10, <2>2
<1>12. LogTyped'
  BY <1>1, <1>2, <1>8, <1>10, <1>11
<1> QED BY <1>9, <1>12

(* A window that opens further back, before what it held. *)
LEMMA ReadBackEnds ==
  ASSUME NEW A, NEW s \in Seq(A), NEW end \in Nat, end <= Len(s),
         NEW w \in Seq(A), NEW pos \in Nat, Ends(SubSeq(s, 1, end), w, pos),
         NEW q \in Nat, q <= pos
  PROVE  /\ SubSeq(s, q + 1, pos) \o w \in Seq(A)
         /\ Ends(SubSeq(s, 1, end), SubSeq(s, q + 1, pos) \o w, q)
<1> DEFINE h == SubSeq(s, 1, end)  b == SubSeq(s, q + 1, pos)  v == b \o w
<1>1. h \in Seq(A) /\ DOMAIN h = 1..end /\ Len(h) = end /\ \A i \in 1..end : h[i] = s[i]
  BY Firsts
<1>2. PICK M \in Nat : M = Len(w) /\ DOMAIN w = 1..M
  OBVIOUS
<1>3. PICK K \in Nat : K = Len(s) /\ DOMAIN s = 1..K /\ end <= K
  OBVIOUS
<1>4. end = pos + M /\ \A n \in 1..M : w[n] = h[pos + n]
  <2> HIDE DEF h
  <2>1. Ends(h, w, pos)
    BY DEF h
  <2> QED BY <1>1, <1>2, <2>1 DEF Ends
<1>5. PICK L \in Nat : pos = q + L
  <2>1. pos - q \in Nat /\ pos = q + (pos - q)
    OBVIOUS
  <2> QED BY <2>1
<1>6. b \in Seq(A) /\ Len(b) = L /\ DOMAIN b = 1..L /\ \A n \in 1..L : b[n] = s[q + n]
  <2>1. pos - (q + 1) + 1 = L /\ \A n \in 1..L : (q + 1) + n - 1 = q + n
    BY <1>5
  <2>2. b = [n \in 1..(pos - (q + 1) + 1) |-> s[(q + 1) + n - 1]]
    BY <1>3, <1>4
  <2> HIDE DEF b
  <2>3. b = [n \in 1..L |-> s[q + n]]
    BY <2>1, <2>2
  <2>4. \A n \in 1..L : s[q + n] \in A
    <3> TAKE n \in 1..L
    <3>1. q + n \in 1..K
      BY <1>3, <1>4, <1>5
    <3> QED BY <1>3, <3>1
  <2>5. b \in [1..L -> A] /\ \A n \in 1..L : b[n] = s[q + n]
    BY <2>3, <2>4
  <2> QED BY <2>5
<1> HIDE DEF b, h
<1>7. /\ v \in Seq(A) /\ Len(v) = L + M /\ DOMAIN v = 1..(L + M)
      /\ \A i \in 1..(L + M) : v[i] = IF i <= L THEN b[i] ELSE w[i - L]
  <2>1. PICK c \in Seq(A), d \in Seq(A) : c = b /\ d = w
    BY <1>6
  <2>2. Len(c) = L /\ DOMAIN c = 1..L /\ Len(d) = M /\ DOMAIN d = 1..M
    BY <1>2, <1>6, <2>1
  <2>3. PICK m \in Nat, n \in Nat : m = Len(c) /\ n = Len(d) /\ DOMAIN c = 1..m /\ DOMAIN d = 1..n
    OBVIOUS
  <2>4. m = L /\ n = M
    BY <2>2, <2>3
  <2>5. /\ c \o d \in Seq(A) /\ DOMAIN (c \o d) = 1..(m + n)
        /\ \A i \in 1..(m + n) : (c \o d)[i] = IF i <= m THEN c[i] ELSE d[i - m]
    BY <2>3
  <2> PICK k \in Nat : k = m + n
    OBVIOUS
  <2>6. PICK e \in Seq(A) : e = c \o d /\ DOMAIN e = 1..k
    BY <2>5
  <2>7. Len(e) = k
    BY ONLY <2>6, k \in Nat, e \in Seq(A)
  <2>8. Len(c \o d) = L + M
    BY <2>4, <2>6, <2>7
  <2> QED BY <2>1, <2>4, <2>5, <2>8
<1> HIDE DEF v
<1>8. ASSUME NEW i \in 1..(L + M) PROVE v[i] = h[q + i]
  <2>1. q + i \in 1..end
    BY <1>4, <1>5
  <2>2. CASE i <= L
    <3>1. v[i] = s[q + i]
      BY <1>6, <1>7, <2>2
    <3> QED BY <1>1, <2>1, <3>1
  <2>3. CASE ~(i <= L)
    <3>1. i - L \in 1..M /\ pos + (i - L) = q + i
      BY <1>5, <2>3
    <3>2. v[i] = w[i - L]
      BY <1>7, <2>3
    <3> QED BY <1>4, <3>1, <3>2
  <2> QED BY <2>2, <2>3
<1>9. end = q + (L + M)
  BY <1>4, <1>5
<1>10. Ends(h, v, q)
  BY <1>1, <1>7, <1>8, <1>9 DEF Ends
<1> QED BY <1>7, <1>10 DEF b, h, v

(* Whatever the log grows by, a reader keeps what it saw. *)
LEMMA GrownKeeps ==
  ASSUME ReaderKept, LogTyped, LogTyped', Grows, reader' = reader
  PROVE  ReaderKept'
<1>1. reader \in Readers
  BY DEF ReaderKept
<1>2. reader.answered => /\ reader.file # 0
                         /\ reader.pos = 0 \/ Enough(reader.wants, LinesAt(reader.window, reader.pos))
  BY DEF ReaderKept
<1>3. ASSUME reader.file # 0
      PROVE  /\ reader.file \in DOMAIN files' /\ reader.end <= Len(files'[reader.file])
             /\ Ends(Held(reader.file, reader.end)', reader.window, reader.pos)
  <2>1. /\ reader.file \in DOMAIN files /\ reader.end <= Len(files[reader.file])
        /\ Ends(Held(reader.file, reader.end), reader.window, reader.pos)
    BY <1>3 DEF ReaderKept
  <2>2. PICK f \in DOMAIN files, end \in Nat : f = reader.file /\ end = reader.end
    BY <1>1, <2>1 DEF Readers
  <2>3. /\ f \in DOMAIN files' /\ Len(files[f]) <= Len(files'[f])
        /\ Held(f, end)' = Held(f, end)
    BY <2>1, <2>2 DEF Grows
  <2>4. Len(files[f]) \in Nat /\ Len(files'[f]) \in Nat
    BY <2>1, <2>2, <2>3 DEF LogTyped
  <2> QED BY <2>1, <2>2, <2>3, <2>4
<1> QED BY <1>1, <1>2, <1>3 DEF ReaderKept, Held

(* A reader that opens the log has seen its length and read nothing. *)
LEMMA OpenedKeeps ==
  ASSUME LogTyped, NEW wants \in {"lines", "events"}, OpensTail(wants)
  PROVE  ReaderKept'
<1>1. PICK f \in DOMAIN files, s \in Seq(Bytes) : f = current /\ s = files[f] /\ f \in Nat /\ f # 0
  BY DEF LogTyped, OpensTail
<1>2. PICK end \in Nat : end = Len(s)
  OBVIOUS
<1>3. reader' = [wants |-> wants, file |-> f, end |-> end, pos |-> end, step |-> TailChunk,
                 window |-> << >>, answered |-> FALSE]
  BY <1>1, <1>2 DEF OpensTail, Reading
<1>4. files' = files
  BY DEF OpensTail
<1>5. SubSeq(s, 1, end) \in Seq(Bytes) /\ Len(SubSeq(s, 1, end)) = end
  BY <1>2, Firsts
<1>6. Ends(SubSeq(s, 1, end), << >>, end)
  BY <1>5 DEF Ends
<1>7. << >> \in Seq(Bytes) /\ TailChunk \in Nat
  BY EventLogAssumption
<1>8. reader' \in Readers
  BY <1>3, <1>7 DEF Readers
<1>9. /\ reader'.file = f /\ reader'.end = end /\ reader'.window = << >> /\ reader'.pos = end
      /\ reader'.answered = FALSE
  BY <1>3
<1> QED BY <1>1, <1>2, <1>4, <1>6, <1>8, <1>9 DEF ReaderKept, Held

(* One that reads back stops at the start, or with enough. *)
LEMMA ReadKeeps ==
  ASSUME LogTyped, ReaderKept, ReadsBack
  PROVE  ReaderKept'
<1> DEFINE back == IF reader.step < reader.pos THEN reader.step ELSE reader.pos
           q == reader.pos - back
           w == SubSeq(files[reader.file], q + 1, reader.pos) \o reader.window
           done == q = 0 \/ Enough(reader.wants, LinesAt(w, q))
           more == IF done THEN reader.step ELSE 2 * reader.step
<1>1. /\ reader.file # 0 /\ files' = files
      /\ reader' = [reader EXCEPT !.pos = q, !.window = w, !.answered = done, !.step = more]
  <2>1. reader.file # 0 /\ files' = files
    BY DEF ReadsBack
  <2>2. reader' = [reader EXCEPT !.pos = q, !.window = w, !.answered = done,
                                 !.step = IF done THEN @ ELSE 2 * @]
    BY DEF ReadsBack, LinesAt
  <2> HIDE DEF q, w, done
  <2> QED BY <2>1, <2>2
<1>2. reader \in Readers
  BY DEF ReaderKept
<1>3. q \in Nat /\ q <= reader.pos /\ more \in Nat
  <2>1. reader.step \in Nat /\ reader.pos \in Nat
    BY <1>2 DEF Readers
  <2> HIDE DEF done
  <2> QED BY <2>1
<1>4. PICK f \in DOMAIN files, s \in Seq(Bytes) : f = reader.file /\ s = files[f] /\ f \in Nat /\ f # 0
  BY <1>1, <1>2 DEF LogTyped, ReaderKept, Readers
<1>5. PICK end \in Nat, pos \in Nat, v \in Seq(Bytes) :
        end = reader.end /\ pos = reader.pos /\ v = reader.window
  BY <1>2 DEF Readers
<1>6. end <= Len(s) /\ Ends(SubSeq(s, 1, end), v, pos)
  BY <1>4, <1>5 DEF ReaderKept, Held
<1>7. w = SubSeq(s, q + 1, pos) \o v /\ q <= pos
  BY <1>3, <1>4, <1>5
<1>8. done \in BOOLEAN /\ (done => q = 0 \/ Enough(reader.wants, LinesAt(w, q)))
  OBVIOUS
<1> HIDE DEF q, w, done, more, back
<1>9. w \in Seq(Bytes) /\ Ends(SubSeq(s, 1, end), w, q)
  <2>1. PICK p \in Nat : p = q
    BY <1>3
  <2>2. SubSeq(s, p + 1, pos) \o v \in Seq(Bytes) /\ Ends(SubSeq(s, 1, end), SubSeq(s, p + 1, pos) \o v, p)
    BY <1>6, <1>7, <2>1, ReadBackEnds
  <2> QED BY <1>7, <2>1, <2>2
<1>10. reader' = [wants |-> reader.wants, file |-> f, end |-> end, pos |-> q, step |-> more,
                  window |-> w, answered |-> done]
  BY <1>1, <1>2, <1>4, <1>5 DEF Readers
<1>11. reader' \in Readers
  <2>1. reader.wants \in {"none", "lines", "events"}
    BY <1>2 DEF Readers
  <2> QED BY <1>3, <1>4, <1>5, <1>8, <1>9, <1>10, <2>1 DEF Readers
<1>12. /\ reader'.file = f /\ reader'.end = end /\ reader'.window = w /\ reader'.pos = q
       /\ reader'.answered = done /\ reader'.wants = reader.wants
  BY <1>10
<1>13. reader'.answered => reader'.pos = 0 \/ Enough(reader'.wants, LinesAt(reader'.window, reader'.pos))
  BY <1>8, <1>12
<1> QED BY <1>1, <1>4, <1>6, <1>9, <1>11, <1>12, <1>13 DEF ReaderKept, Held

(* So it goes through every step. *)
LEMMA LogStays ==
  LogTyped /\ ReaderKept /\ [LogNext]_logVars => LogTyped' /\ ReaderKept'
<1> SUFFICES ASSUME LogTyped, ReaderKept, [LogNext]_logVars
             PROVE  LogTyped' /\ ReaderKept'
  OBVIOUS
<1>1. ASSUME files' = files, current' = current, writer' = writer, logged' = logged
      PROVE  LogTyped'
  BY <1>1 DEF LogTyped
<1>2. ASSUME files' = files, reader' = reader PROVE ReaderKept'
  BY <1>2 DEF ReaderKept, Held
<1>3. CASE OpensLog
  <2>1. reader' = reader
    BY <1>3 DEF OpensLog
  <2> QED BY <1>3, <2>1, OpensGrows, GrownKeeps
<1>4. CASE WritesByte
  <2>1. reader' = reader
    BY <1>4 DEF WritesByte
  <2> QED BY <1>4, <2>1, WritesGrow, GrownKeeps
<1>5. CASE KilledInLine
  <2>1. LogTyped'
    BY <1>5 DEF KilledInLine, LogTyped, Writers
  <2>2. << >> \in Seq(Bytes)
    OBVIOUS
  <2>3. ReaderKept'
    BY <1>5, <2>2 DEF KilledInLine, ReaderKept, Readers, Reading
  <2> QED BY <2>1, <2>3
<1>6. CASE NowPasses
  BY <1>1, <1>2, <1>6 DEF NowPasses
<1>7. CASE ReadsBack
  <2>1. files' = files /\ current' = current /\ writer' = writer /\ logged' = logged
    BY <1>7 DEF ReadsBack
  <2> QED BY <1>1, <1>7, <2>1, ReadKeeps
<1>8. CASE \E wants \in {"lines", "events"} : OpensTail(wants)
  <2>1. PICK wants \in {"lines", "events"} : OpensTail(wants)
    BY <1>8
  <2>2. files' = files /\ current' = current /\ writer' = writer /\ logged' = logged
    BY <2>1 DEF OpensTail
  <2> QED BY <1>1, <2>1, <2>2, OpenedKeeps
<1>9. CASE UNCHANGED logVars
  BY <1>1, <1>2, <1>9 DEF logVars
<1> QED BY <1>3, <1>4, <1>5, <1>6, <1>7, <1>8, <1>9 DEF LogNext

(* An answer is that of the whole file as it was when it was opened. *)
LEMMA KeptIsTheEnd == LogTyped /\ ReaderKept => TailIsTheEnd
<1> SUFFICES ASSUME LogTyped, ReaderKept, reader.answered
             PROVE  Answer(reader.wants, LinesAt(reader.window, reader.pos)) =
                      Answer(reader.wants, LinesOf(Held(reader.file, reader.end)))
  BY DEF TailIsTheEnd, LinesAt, Held
<1>1. PICK pos \in Nat, end \in Nat, window \in Seq(Bytes) :
        pos = reader.pos /\ end = reader.end /\ window = reader.window
  BY DEF ReaderKept, Readers
<1>2. /\ reader.file \in DOMAIN files /\ end <= Len(files[reader.file])
      /\ Ends(Held(reader.file, end), window, pos)
      /\ pos = 0 \/ Enough(reader.wants, LinesAt(window, pos))
  BY <1>1 DEF ReaderKept
<1>3. PICK s \in Seq(Bytes) : s = files[reader.file]
  BY <1>2 DEF LogTyped
<1>4. SubSeq(s, 1, end) \in Seq(Bytes)
  BY <1>2, <1>3, Firsts
<1>5. Held(reader.file, end) \in Seq(Bytes)
  BY <1>3, <1>4 DEF Held
<1>6. PICK bytes \in Seq(Bytes) : bytes = Held(reader.file, end)
  BY <1>5
<1>7. PICK wants, lines : wants = reader.wants /\ lines = LinesAt(window, pos)
  OBVIOUS
<1>8. Answer(wants, lines) = Answer(wants, LinesOf(bytes))
  BY <1>2, <1>6, <1>7, AnswerOfTheEnd
<1> QED BY <1>1, <1>6, <1>7, <1>8

(* "A torn line must cost the response one entry, never the response": while
   one handler appends, rolls the log aside or dies inside a line, a reader
   that holds no lock answers what reading the whole file as it opened it would
   have answered, for every length of line, chunk of the window and limit. *)
THEOREM TailAlwaysTheEnd == LogSpec => []TailIsTheEnd
<1>1. LogInit => LogTyped /\ ReaderKept
  BY LogBegins
<1>2. (LogTyped /\ ReaderKept) /\ [LogNext]_logVars => (LogTyped /\ ReaderKept)'
  BY LogStays
<1>3. LogTyped /\ ReaderKept => TailIsTheEnd
  BY KeptIsTheEnd
<1> QED BY <1>1, <1>2, <1>3, PTL DEF LogSpec
=============================================================================
