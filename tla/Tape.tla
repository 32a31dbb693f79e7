-------------------------------- MODULE Tape --------------------------------
(***************************************************************************)
(* The tape store of fd-store (store.rs, tape.rs): prints are appended as  *)
(* parts, one file per UTC day and append, and de-duplicated when read.    *)
(* A store is a function from days to the parts of that day in file order; *)
(* a part is a sequence of prints, or Unclosed: opened, not yet closed.    *)
(***************************************************************************)
EXTENDS Arrangement

CONSTANTS
  Prints,      \* ids, which the venue gives or content makes
  At,          \* At[p]: the timestamp of a print
  DayLength,
  Unclosed     \* a part no reader can read

ASSUME TapeAssumption ==
  /\ Prints \subseteq Int /\ IsFiniteSet(Prints) /\ Prints # {}
  /\ At \in [Prints -> Nat] /\ DayLength \in Nat \ {0}
  /\ Unclosed \notin Seq(Prints)

-----------------------------------------------------------------------------
DayStart(time) == (time \div DayLength) * DayLength
Days == {DayStart(At[p]) : p \in Prints}
EmptyStore == [d \in Days |-> << >>]

(* sort_by_key is stable. *)
ByTime(prints) ==
  LET order == Arranged(DOMAIN prints, [i \in DOMAIN prints |-> {j \in DOMAIN prints :
                 \/ At[prints[j]] < At[prints[i]]
                 \/ At[prints[j]] = At[prints[i]] /\ j <= i}])
  IN  [n \in DOMAIN prints |-> prints[order[n]]]

(* TapeStore::append: what is to be written, a batch for every day. *)
DaysOf(prints) == {DayStart(At[prints[i]]) : i \in DOMAIN prints}
RowsOf(prints, day) ==
  ByTime(Picked(prints, {i \in DOMAIN prints : DayStart(At[prints[i]]) = day}))
Batches(prints) ==
  LET days == Ascending(DaysOf(prints))
  IN  [n \in DOMAIN days |-> [day |-> days[n], rows |-> RowsOf(prints, days[n])]]

(* next_part counts the files of the day; File::create empties a file that is
   already there. *)
NextPart(store, day) == Len(store[day]) + 1
WritePart(store, day, part, content) ==
  [store EXCEPT ![day] = IF part > Len(@) THEN Append(@, content)
                         ELSE [@ EXCEPT ![part] = content]]

(* TapeStore::range over [from, to): the days it overlaps, part by part, the
   first print of an id only; a part that cannot be read is an error.  A row is
   known by its day, its part and its place in that. *)
Overlapping(from, to) == {d \in Days : d < to /\ d + DayLength > from}
Readable(store, from, to) ==
  \A d \in Overlapping(from, to) : \A i \in DOMAIN store[d] : store[d][i] # Unclosed
PrintAt(store, row) == store[row[1]][row[2]][row[3]]
Precedes(x, y) ==
  \/ x[1] < y[1]
  \/ x[1] = y[1] /\ x[2] < y[2]
  \/ x[1] = y[1] /\ x[2] = y[2] /\ x[3] < y[3]
RowsOfDay(store, d) ==
  UNION {{<<d, i, n>> : n \in DOMAIN store[d][i]} : i \in DOMAIN store[d]}
StoredRows(store, from, to) ==
  {x \in UNION {RowsOfDay(store, d) : d \in Overlapping(from, to)} :
     from <= At[PrintAt(store, x)] /\ At[PrintAt(store, x)] < to}
FirstOfEach(store, rows) ==
  {x \in rows : \A y \in rows : PrintAt(store, y) = PrintAt(store, x) => ~Precedes(y, x)}
RowsByTime(store, rows) ==
  LET upTo == [x \in rows |-> {y \in rows :
                 \/ y = x
                 \/ At[PrintAt(store, y)] < At[PrintAt(store, x)]
                 \/ At[PrintAt(store, y)] = At[PrintAt(store, x)] /\ Precedes(y, x)}]
  IN  [n \in 1..Cardinality(rows) |-> PrintAt(store, Arranged(rows, upTo)[n])]
BugReadRange(store, from, to) == RowsByTime(store, StoredRows(store, from, to))
ReadRange(store, from, to) ==
  RowsByTime(store, FirstOfEach(store, StoredRows(store, from, to)))

Ever == (CHOOSE t \in {At[p] : p \in Prints} : \A p \in Prints : At[p] <= t) + 1
ReadAll(store) == ReadRange(store, 0, Ever)
AllReadable(store) == Readable(store, 0, Ever)
=============================================================================
