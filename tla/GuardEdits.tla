----------------------------- MODULE GuardEdits -----------------------------
(***************************************************************************)
(* The desk's edits of the guards (fd-api/src/paper.rs guards_set,         *)
(* load_guard_edits; state.rs guards_for): the values in force are kept in *)
(* memory under a lock that is released before they are written to         *)
(* config/guards.toml and into the record of every guarded book, so posts  *)
(* may interleave between these steps, and a write may fail or be cut off. *)
(***************************************************************************)
EXTENDS Integers, Sequences

CONSTANTS
  Clients,    \* those who may post at the same time
  Edits,      \* the edits posted
  Configured, \* the empty edit: the values of config/default.toml
  Torn,       \* guards.toml cut off while it was written
  Outcomes,   \* what becomes of a write: "done", "failed"
  MayDie,     \* the process may be killed inside a handler
  MaxEvents   \* bound on the length of the record

VARIABLES
  edits,    \* AppState::guard_edits
  toml,     \* config/guards.toml
  changes,  \* the guards_changed events of a guarded book, [from, to]
  calls,    \* [at, body, from, to] of every client's call
  unwritten \* history: the last write of the file failed

guardVars == <<edits, toml, changes, calls, unwritten>>

-----------------------------------------------------------------------------
NoCall == [at |-> "none", body |-> Configured, from |-> Configured, to |-> Configured]
NoPost == \A c \in Clients : calls[c].at = "none"

BugLoaded == Configured
(* load_guard_edits: a missing or malformed file is the empty edit. *)
Loaded == IF toml = Torn THEN Configured ELSE toml

GuardsInit ==
  /\ edits = Configured /\ toml = Configured
  /\ changes = << >>
  /\ calls = [c \in Clients |-> NoCall]
  /\ unwritten = FALSE

Moves(c, at) == calls' = [calls EXCEPT ![c].at = at]
Answers(c, error) == calls' = [calls EXCEPT ![c] = NoCall] /\ unwritten' = error

(* The values in force before, read under a lock that is released at once. *)
ReadBefore(c, body) ==
  /\ calls[c].at = "none" /\ Len(changes) < MaxEvents
  /\ calls' = [calls EXCEPT ![c] = [NoCall EXCEPT !.at = "compare", !.body = body,
                                                  !.from = edits]]
  /\ UNCHANGED <<edits, toml, changes, unwritten>>

(* Compared and replaced under the write lock; an unchanged edit is answered. *)
Replace(c) ==
  /\ calls[c].at = "compare"
  /\ edits' = calls[c].body
  /\ IF edits = calls[c].body THEN Answers(c, unwritten)
     ELSE Moves(c, "after") /\ UNCHANGED unwritten
  /\ UNCHANGED <<toml, changes>>

ReadAfter(c) ==
  /\ calls[c].at = "after"
  /\ calls' = [calls EXCEPT ![c].at = "truncate", ![c].to = edits]
  /\ UNCHANGED <<edits, toml, changes, unwritten>>

(* fs::write empties the file, then fills it; of two at once the last wins. *)
Truncate(c) ==
  /\ calls[c].at = "truncate"
  /\ toml' = Torn
  /\ Moves(c, "write")
  /\ UNCHANGED <<edits, changes, unwritten>>

WriteFile(c, outcome) ==
  /\ calls[c].at = "write"
  /\ IF outcome = "done"
     THEN toml' = calls[c].body /\ Moves(c, "record") /\ UNCHANGED unwritten
     ELSE Answers(c, TRUE) /\ UNCHANGED toml
  /\ UNCHANGED <<edits, changes>>

Record(c) ==
  /\ calls[c].at = "record"
  /\ Answers(c, FALSE)
  /\ changes' = Append(changes, [from |-> calls[c].from, to |-> calls[c].to])
  /\ UNCHANGED <<edits, toml>>

Reload ==
  /\ NoPost \/ MayDie
  /\ edits' = Loaded
  /\ calls' = [c \in Clients |-> NoCall]
  /\ unwritten' = FALSE
  /\ UNCHANGED <<toml, changes>>

GuardsNext ==
  \/ \E c \in Clients :
       \/ \E body \in Edits : ReadBefore(c, body)
       \/ Replace(c) \/ ReadAfter(c) \/ Truncate(c) \/ Record(c)
       \/ \E outcome \in Outcomes : WriteFile(c, outcome)
  \/ Reload

GuardsSpec == GuardsInit /\ [][GuardsNext]_guardVars

-----------------------------------------------------------------------------
(* "It is persisted to config/guards.toml, so it survives a restart. Guards
   that quietly reverted would be worse than no control at all" (guards_set):
   whenever nothing is under way and the last write of the file did not fail,
   the guards in force are those a restart would load, through failed writes,
   files cut off by a kill and posts of what is in force already. *)
SurvivesRestart == NoPost /\ ~unwritten => Loaded = edits
=============================================================================
