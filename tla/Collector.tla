------------------------------ MODULE Collector ------------------------------
(***************************************************************************)
(* Collecting the option tape of Deribit (fd-ingest/src/bin/collect.rs,    *)
(* feed.rs): one process listens and flushes its buffer into the store now *)
(* and then, another (bin/backfill.rs) fetches past days page by page into *)
(* the same store, and either may be killed between two writes or in one.  *)
(***************************************************************************)
EXTENDS Tape

CONSTANTS
  DaysAsked,    \* where the days that backfill is asked for begin, at any hour
  Page,         \* prints to a page of the REST history
  MaxPages,     \* pages backfill will ask for in a day
  Together,     \* backfill may run while the collector does
  KilledIn,     \* where a process may be killed: "idle", "write"
  MaxBuffer,    \* bound: prints waiting for the flush
  MaxParts      \* bound: backfill is started while every day has fewer parts

ASSUME CollectorAssumption ==
  DaysAsked \subseteq Int /\ Page \in Nat \ {0, 1} /\ MaxPages \in Nat /\ Together \in BOOLEAN

VARIABLES
  printed,   \* the prints the venue has made
  socket,    \* the feed's session: "up" or "down"
  buffer,    \* prints the collector holds in memory
  jobs,      \* jobs[w]: what a process has still to do
  store,
  flushed    \* history: the prints whose append returned

collectorVars == <<printed, socket, buffer, jobs, store, flushed>>

-----------------------------------------------------------------------------
Processes == {"collect", "backfill"}
(* A process appends `batches`, has counted the parts of the first one's day
   (part > 0), and has opened that file (open); `left` are the days to fetch,
   none beyond the time it was started (until), and of the first of them it has
   fetched some pages, up to the cursor. *)
Stopped == [runs |-> FALSE, batches |-> << >>, part |-> 0, open |-> FALSE, left |-> {},
            until |-> 0, pages |-> 0, cursor |-> 0, fetched |-> << >>]
Started == [Stopped EXCEPT !.runs = TRUE]

CollectInit ==
  /\ printed = {} /\ socket = "down" /\ buffer = << >>
  /\ jobs = [w \in Processes |-> Stopped]
  /\ store = EmptyStore /\ flushed = {}

RangeOf(s) == {s[i] : i \in DOMAIN s}
Busy(w) == jobs[w].batches # << >>
Ready(w) == jobs[w].runs /\ ~Busy(w)
Sets(w, job) == jobs' = [jobs EXCEPT ![w] = job]

(* The venue prints; a session that is up delivers at once, in order, and one
   that is down never does.  A row may be delivered again after a reconnect. *)
Printing(p) ==
  /\ p \notin printed /\ \A q \in printed : At[q] <= At[p]
  /\ printed' = printed \cup {p}
  /\ buffer' = IF socket = "up" /\ jobs["collect"].runs THEN Append(buffer, p) ELSE buffer
  /\ Len(buffer) < MaxBuffer
  /\ UNCHANGED <<socket, jobs, store, flushed>>

Connects ==
  /\ jobs["collect"].runs /\ socket = "down"
  /\ socket' = "up"
  /\ UNCHANGED <<printed, buffer, jobs, store, flushed>>

(* flush: nothing is left behind when there is nothing to write. *)
Flushes ==
  IF buffer = << >> THEN UNCHANGED <<jobs, buffer>>
  ELSE /\ Sets("collect", [jobs["collect"] EXCEPT !.batches = Batches(buffer)])
       /\ buffer' = << >>

FlushTimer ==
  /\ Ready("collect") /\ buffer # << >>
  /\ Flushes
  /\ UNCHANGED <<printed, socket, store, flushed>>

(* "Flush before the gap rather than after." *)
Disconnects ==
  /\ Ready("collect") /\ socket = "up"
  /\ socket' = "down"
  /\ Flushes
  /\ UNCHANGED <<printed, store, flushed>>

(* It reads the whole store before it begins, and gives up if it cannot. *)
CollectStarts ==
  /\ ~jobs["collect"].runs /\ (Together \/ ~jobs["backfill"].runs)
  /\ AllReadable(store)
  /\ Sets("collect", Started)
  /\ UNCHANGED <<printed, socket, buffer, store, flushed>>

BackfillStarts(until) ==
  /\ ~jobs["backfill"].runs /\ (Together \/ ~jobs["collect"].runs)
  /\ \A d \in Days : Len(store[d]) < MaxParts
  /\ \A p \in printed : At[p] <= until
  /\ Sets("backfill", [Started EXCEPT !.left = {d \in DaysAsked : d < until}, !.until = until])
  /\ UNCHANGED <<printed, socket, buffer, store, flushed>>

-----------------------------------------------------------------------------
(* DeribitClient::trades: pages forward by the newest timestamp seen, since
   the venue gives no page token.  The venue answers a page in time order. *)
Between(prints, from, to) == ByTime(Ascending({p \in prints : from <= At[p] /\ At[p] < to}))
BugCursor(newest) == newest + 2
Cursor(newest) == newest + 1

DayEnds(day, job) == IF day + DayLength < job.until THEN day + DayLength ELSE job.until

(* One request of backfill_deribit: a day page by page, and a day after a day;
   one that fails is skipped, whatever was fetched of it. *)
BackfillPage(day, fails) ==
  LET job == jobs["backfill"]
      from == IF job.pages = 0 THEN day ELSE job.cursor
      to == DayEnds(day, job)
      there == Between(printed, from, to)
      page == SubSeq(there, 1, IF Len(there) < Page THEN Len(there) ELSE Page)
      newest == At[page[Len(page)]]
      more == Len(there) > Page /\ newest > from /\ Cursor(newest) < to /\ job.pages + 1 < MaxPages
      Over(rows) == [job EXCEPT !.left = @ \ {day}, !.pages = 0, !.cursor = 0, !.fetched = << >>,
                                !.batches = Batches(rows)]
  IN  /\ Ready("backfill") /\ day \in job.left
      /\ \A d \in job.left : day <= d
      /\ \/ fails /\ Sets("backfill", Over(<< >>))
         \/ ~fails /\ more
            /\ Sets("backfill", [job EXCEPT !.fetched = @ \o page, !.pages = @ + 1,
                                            !.cursor = Cursor(newest)])
         \/ ~fails /\ ~more /\ Sets("backfill", Over(job.fetched \o page))
      /\ UNCHANGED <<printed, socket, buffer, store, flushed>>

BackfillEnds ==
  /\ Ready("backfill") /\ jobs["backfill"].left = {}
  /\ Sets("backfill", Stopped)
  /\ UNCHANGED <<printed, socket, buffer, store, flushed>>

-----------------------------------------------------------------------------
(* One part: its number is counted, its file opened, its rows written. *)
Batch(w) == jobs[w].batches[1]

CountParts(w) ==
  /\ Busy(w) /\ jobs[w].part = 0
  /\ Sets(w, [jobs[w] EXCEPT !.part = NextPart(store, Batch(w).day)])
  /\ UNCHANGED <<printed, socket, buffer, store, flushed>>

OpenPart(w) ==
  /\ Busy(w) /\ jobs[w].part > 0 /\ ~jobs[w].open
  /\ store' = WritePart(store, Batch(w).day, jobs[w].part, Unclosed)
  /\ Sets(w, [jobs[w] EXCEPT !.open = TRUE])
  /\ UNCHANGED <<printed, socket, buffer, flushed>>

ClosePart(w) ==
  /\ Busy(w) /\ jobs[w].open
  /\ store' = WritePart(store, Batch(w).day, jobs[w].part, Batch(w).rows)
  /\ Sets(w, [jobs[w] EXCEPT !.batches = Tail(@), !.part = 0, !.open = FALSE])
  /\ flushed' = flushed \cup RangeOf(Batch(w).rows)
  /\ UNCHANGED <<printed, socket, buffer>>

(* ctrl-c flushes first; a kill loses the buffer and whatever was open. *)
Interrupt ==
  /\ Ready("collect") /\ buffer = << >>
  /\ Sets("collect", Stopped)
  /\ socket' = "down"
  /\ UNCHANGED <<printed, buffer, store, flushed>>

Kill(w) ==
  /\ jobs[w].runs
  /\ (IF jobs[w].open THEN "write" ELSE "idle") \in KilledIn
  /\ Sets(w, Stopped)
  /\ IF w = "collect" THEN buffer' = << >> /\ socket' = "down"
     ELSE UNCHANGED <<buffer, socket>>
  /\ UNCHANGED <<printed, store, flushed>>

CollectNext ==
  \/ \E p \in Prints : Printing(p)
  \/ Connects \/ FlushTimer \/ Disconnects \/ Interrupt
  \/ \E w \in Processes :
       CountParts(w) \/ OpenPart(w) \/ ClosePart(w) \/ Kill(w)
  \/ \E day \in DaysAsked, fails \in BOOLEAN : BackfillPage(day, fails)
  \/ CollectStarts \/ BackfillEnds \/ \E until \in 0..Ever : BackfillStarts(until)

CollectSpec == CollectInit /\ [][CollectNext]_collectorVars

-----------------------------------------------------------------------------
(* "That, not the writer, is what makes the store idempotent" (store.rs), and
   ingest is "safe to kill at any moment": what an append has returned for is
   read ever after, every print once and in the order of time, however often
   the live feed and the backfill deliver it; unless a kill inside a write left
   a part that nothing can read, which every reader of its day then gives up at. *)
NoneOpen == \A w \in Processes : ~jobs[w].open
FlushedIsReadable ==
  NoneOpen /\ AllReadable(store) =>
    /\ flushed \subseteq RangeOf(ReadAll(store))
    /\ LET rows == ReadAll(store)
       IN  \A i, j \in DOMAIN rows : i < j => rows[i] # rows[j] /\ At[rows[i]] <= At[rows[j]]

(* "Option trades in [from, to), paged forward" (DeribitClient::trades): a day
   that was fetched and not skipped holds every print the venue has of it up to
   the time backfill was started, however the venue goes on meanwhile, as long as
   no two of them are of one millisecond (the pages are cut by count and continued
   by time) and the pages asked for did not run out. *)
FetchedWhole ==
  [][LET job == jobs["backfill"]  then == jobs'["backfill"]
     IN  \A day \in DaysAsked :
           /\ day \in job.left /\ day \notin then.left /\ then.batches # << >>
           /\ \A p, q \in printed : At[p] = At[q] => p = q
           /\ job.pages + 1 < MaxPages
           => UNION {RangeOf(then.batches[n].rows) : n \in DOMAIN then.batches}
                = {p \in printed : day <= At[p] /\ At[p] < DayEnds(day, job)}]_collectorVars
=============================================================================
