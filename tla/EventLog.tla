------------------------------ MODULE EventLog ------------------------------
(***************************************************************************)
(* The append-only logs of a run (fd-api/src/paper.rs): one handler at a   *)
(* time appends a line, after the log was rolled aside when it is long     *)
(* enough, while readers that hold no lock read it backwards from its end, *)
(* in a window that doubles until it holds what they want.  The process    *)
(* may be killed inside a line.                                            *)
(*                                                                         *)
(* A file is a sequence of bytes; a byte is <<entry, place in its line>>   *)
(* or Newline.  Files are numbered as they are created, so that a reader   *)
(* keeps the file it opened whatever it is renamed to.                     *)
(***************************************************************************)
EXTENDS Arrangement

CONSTANTS
  Newline,     \* the byte between lines
  Sizes,       \* Sizes[e]: bytes of entry e before its newline
  Trades,      \* the entries that are trades, not events
  RollAt,      \* ROTATE_BYTES
  TailChunk,   \* TAIL_CHUNK
  Wanted,      \* the limit of the request
  MaxNow       \* bound of the instance

ASSUME EventLogAssumption ==
  Sizes \in Seq(Nat) /\ TailChunk \in Nat \ {0} /\ Wanted \in Nat

VARIABLES
  now,      \* now_ms
  files,    \* the bytes of every file ever created
  current,  \* the file under the log's name, or 0
  rolled,   \* the files under rolled names, by the time in the name
  writer,   \* [entry, sent] of the line under way; entry 0: none
  logged,   \* history: how many entries were begun
  reader    \* [wants, file, end, pos, step, window, answered]

logVars == <<now, files, current, rolled, writer, logged, reader>>

-----------------------------------------------------------------------------
Entries == DOMAIN Sizes
LineOf(entry) == [n \in 1..Sizes[entry] |-> <<entry, n>>] \o <<Newline>>
Reading == [wants |-> "none", file |-> 0, end |-> 0, pos |-> 0, step |-> 0,
            window |-> << >>, answered |-> FALSE]

(* The lines that end in a newline, none of them empty: an end that follows a
   byte of its line, and what lies between it and the newline before. *)
NewlinesOf(bytes) == {i \in DOMAIN bytes : bytes[i] = Newline}
EndsOf(bytes) == {i \in NewlinesOf(bytes) : i - 1 \in DOMAIN bytes \ NewlinesOf(bytes)}
LineTo(bytes, end) ==
  Picked(bytes, {i \in 1..end - 1 : \A j \in i..end - 1 : bytes[j] # Newline})
LinesOf(bytes) ==
  LET ends == Ascending(EndsOf(bytes))
  IN  [n \in DOMAIN ends |-> LineTo(bytes, ends[n])]

(* A line is JSON when it is all of one entry and nothing else. *)
Parsed(line) == \E e \in Entries : line \o <<Newline>> = LineOf(e)
IsEvent(line) == Parsed(line) /\ line[1][1] \notin Trades
ParsedOf(lines) == Picked(lines, {n \in DOMAIN lines : Parsed(lines[n])})
EventsOf(lines) == Picked(lines, {n \in DOMAIN lines : IsEvent(lines[n])})

(* complete_lines: without the line the window opens in, unless it opens the
   file, and without what follows the last newline. *)
BugCompleteLines(window, fromStart) ==
  LET ends == NewlinesOf(window)
      first == IF fromStart THEN 0 ELSE CHOOSE i \in ends : \A j \in ends : i <= j
  IN  IF ends = {} THEN << >>
      ELSE LinesOf(SubSeq(window, first + 1, Len(window)) \o <<Newline>>)
CompleteLines(window, fromStart) ==
  LET ends == NewlinesOf(window)
      first == IF fromStart THEN 0 ELSE CHOOSE i \in ends : \A j \in ends : i <= j
  IN  IF ends = {} THEN << >> ELSE LinesOf(SubSeq(window, first + 1, Len(window)))

(* The `enough` of tail_jsonl and of events_of, and what they then answer: the
   limit is applied before unreadable lines are dropped, or after. *)
Enough(wants, lines) ==
  IF wants = "lines" THEN Len(lines) >= Wanted
  ELSE Len(EventsOf(lines)) >= Wanted
NewestOf(lines) == SubSeq(lines, IF Len(lines) > Wanted THEN Len(lines) - Wanted + 1 ELSE 1,
                          Len(lines))
Answer(wants, lines) ==
  IF wants = "lines" THEN ParsedOf(NewestOf(lines)) ELSE NewestOf(EventsOf(lines))

-----------------------------------------------------------------------------
LogInit ==
  /\ now = 0 /\ files = << >> /\ current = 0 /\ rolled = << >>
  /\ writer = [entry |-> 0, sent |-> 0] /\ logged = 0 /\ reader = Reading

(* roll_aside: a name that is taken is left alone, and so is the log. *)
RolledAt(times, at, file) ==
  [t \in DOMAIN times \cup {at} |-> IF t = at THEN file ELSE times[t]]
Rolls == current # 0 /\ Len(files[current]) >= RollAt /\ now \notin DOMAIN rolled

(* log_consultation and record, up to the line: rolled aside, then opened. *)
OpensLog ==
  /\ writer.entry = 0 /\ logged < Cardinality(Entries)
  /\ logged' = logged + 1
  /\ writer' = [entry |-> logged + 1, sent |-> 0]
  /\ rolled' = IF Rolls THEN RolledAt(rolled, now, current) ELSE rolled
  /\ IF current = 0 \/ Rolls
     THEN files' = Append(files, << >>) /\ current' = Len(files) + 1
     ELSE UNCHANGED <<files, current>>
  /\ UNCHANGED <<now, reader>>

(* writeln!: a line reaches the file in as many writes as it has fragments. *)
WritesByte ==
  LET line == LineOf(writer.entry)
  IN  /\ writer.entry # 0
      /\ files' = [files EXCEPT ![current] = Append(@, line[writer.sent + 1])]
      /\ writer' = IF writer.sent + 1 = Len(line) THEN [entry |-> 0, sent |-> 0]
                   ELSE [writer EXCEPT !.sent = @ + 1]
      /\ UNCHANGED <<now, current, rolled, logged, reader>>

KilledInLine ==
  /\ writer.entry # 0
  /\ writer' = [entry |-> 0, sent |-> 0]
  /\ reader' = Reading
  /\ UNCHANGED <<now, files, current, rolled, logged>>

NowPasses ==
  /\ now < MaxNow /\ writer.entry = 0
  /\ now' = now + 1
  /\ UNCHANGED <<files, current, rolled, writer, logged, reader>>

(* tail_window: the length is taken once, when the file is opened. *)
OpensTail(wants) ==
  /\ current # 0 /\ (reader.file = 0 \/ reader.answered)
  /\ LET end == Len(files[current])
     IN  reader' = [Reading EXCEPT !.wants = wants, !.file = current, !.end = end,
                                   !.pos = end, !.step = TailChunk]
  /\ UNCHANGED <<now, files, current, rolled, writer, logged>>

(* One round of its loop. *)
ReadsBack ==
  LET back == IF reader.step < reader.pos THEN reader.step ELSE reader.pos
      pos == reader.pos - back
      window == SubSeq(files[reader.file], pos + 1, reader.pos) \o reader.window
      done == pos = 0 \/ Enough(reader.wants, CompleteLines(window, pos = 0))
  IN  /\ reader.file # 0 /\ ~reader.answered
      /\ reader' = [reader EXCEPT !.pos = pos, !.window = window, !.answered = done,
                                  !.step = IF done THEN @ ELSE 2 * @]
      /\ UNCHANGED <<now, files, current, rolled, writer, logged>>

LogNext ==
  \/ OpensLog \/ WritesByte \/ KilledInLine \/ NowPasses \/ ReadsBack
  \/ \E wants \in {"lines", "events"} : OpensTail(wants)

LogSpec == LogInit /\ [][LogNext]_logVars

-----------------------------------------------------------------------------
(* "A torn line must cost the response one entry, never the response", and
   "growing on lines would quietly return fewer than limit events": however a
   window cuts its lines, and whatever is appended, torn or renamed meanwhile,
   the answer is that of reading the whole file as it was when it was opened. *)
TailIsTheEnd ==
  reader.answered =>
    LET lines == CompleteLines(reader.window, reader.pos = 0)
        whole == LinesOf(SubSeq(files[reader.file], 1, reader.end))
    IN  Answer(reader.wants, lines) = Answer(reader.wants, whole)
=============================================================================
