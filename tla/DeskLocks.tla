------------------------------ MODULE DeskLocks ------------------------------
(***************************************************************************)
(* The locks every handler of the desk shares (fd-api/src/state.rs): the   *)
(* mutexes `paper` over the runs, `live_bars` over the forming bars and    *)
(* `m1` over the minute bars, and the read-write lock `guard_edits`.  A    *)
(* handler is the order in which it takes and drops them; a worker thread  *)
(* runs one handler at a time to its end.                                  *)
(***************************************************************************)
EXTENDS Integers, Sequences, SequencesExt

CONSTANTS
  Workers,    \* the runtime's worker threads
  Runs,       \* the runs of the map, which status and pending walk through
  Handlers    \* the routes that are called

ASSUME DeskLocksAssumption == Runs \in Nat

VARIABLES
  held,   \* held[w]: the locks a worker holds
  steps   \* steps[w]: what its handler has still to do

vars == <<held, steps>>

-----------------------------------------------------------------------------
Take(lock) == [op |-> "take", lock |-> lock]
Share(lock) == [op |-> "share", lock |-> lock]
Drop(lock) == [op |-> "drop", lock |-> lock]

(* A temporary guard: taken and dropped by one statement. *)
Within(lock, inner) == <<Take(lock)>> \o inner \o <<Drop(lock)>>
Briefly(lock) == Within(lock, << >>)

(* AppState::guards_for and AppState::live_bar. *)
GuardsFor == <<Share("guard_edits"), Drop("guard_edits")>>
LiveBarOf == Briefly("live_bars")

ForEachRun(inner) == FlattenSeq([r \in 1..Runs |-> inner])

GuardsGet == GuardsFor \o Briefly("paper") \o GuardsFor

(* act holds the guard of live_bars while its argument, stream_key_of, takes
   and drops `paper`. *)
Act == Within("live_bars", Briefly("paper")) \o Within("paper", GuardsFor)

Tick == Briefly("live_bars") \o Briefly("m1") \o Within("paper", GuardsFor)

Status == Within("paper", ForEachRun(GuardsFor \o LiveBarOf))

BugGuardsSet ==
  GuardsFor \o Within("guard_edits", Briefly("paper")) \o GuardsFor \o GuardsGet
GuardsSet ==
  GuardsFor \o Briefly("guard_edits") \o GuardsFor \o Briefly("paper") \o GuardsGet

Program(handler) ==
  CASE handler = "start" -> GuardsFor \o Within("paper", LiveBarOf)
    [] handler = "stop" -> Within("paper", GuardsFor)
    [] handler = "bar" -> Within("paper", ForEachRun(GuardsFor))
    [] handler = "tick" -> Tick
    [] handler = "status" -> Status
    [] handler = "detail" -> Within("paper", GuardsFor \o LiveBarOf)
    [] handler = "pending" -> Within("paper", ForEachRun(GuardsFor))
    [] handler = "intent" -> Briefly("paper")
    [] handler = "act" -> Act
    [] handler = "m1" -> Briefly("m1")
    [] handler = "guards_get" -> GuardsGet
    [] handler = "guards_set" -> GuardsSet

-----------------------------------------------------------------------------
Init ==
  /\ held = [w \in Workers |-> {}]
  /\ steps = [w \in Workers |-> << >>]

Idle(w) == steps[w] = << >>
Asks(w, op) == ~Idle(w) /\ steps[w][1].op = op
Wants(w) == steps[w][1].lock
Held(lock) == {w \in Workers : \E h \in held[w] : h.lock = lock}
Writing(lock) == {w \in Workers : Take(lock) \in held[w]}

(* A mutex, and the writer of the read-write lock, wait for every holder; a
   reader waits for a writer, and may be made to wait by one that waits. *)
Blockers(w) ==
  IF Asks(w, "take") THEN Held(Wants(w))
  ELSE IF Asks(w, "share")
    THEN Writing(Wants(w)) \cup
         {v \in Workers : Asks(v, "take") /\ Wants(v) = Wants(w) /\ Held(Wants(w)) # {}}
  ELSE {}

Called(w, handler) ==
  /\ Idle(w)
  /\ steps' = [steps EXCEPT ![w] = Program(handler)]
  /\ UNCHANGED held

Locks(w) ==
  /\ Asks(w, "take") \/ Asks(w, "share")
  /\ Blockers(w) = {}
  /\ held' = [held EXCEPT ![w] = @ \cup {steps[w][1]}]
  /\ steps' = [steps EXCEPT ![w] = Tail(@)]

Unlocks(w) ==
  /\ Asks(w, "drop")
  /\ held' = [held EXCEPT ![w] = {h \in @ : h.lock # Wants(w)}]
  /\ steps' = [steps EXCEPT ![w] = Tail(@)]

Next == \E w \in Workers :
          \/ \E handler \in Handlers : Called(w, handler)
          \/ Locks(w)
          \/ Unlocks(w)

Spec == Init /\ [][Next]_vars

-----------------------------------------------------------------------------
(* "The quote is read before the paper lock and never under it, the same order
   every other reader of the two mutexes keeps" (act): no set of handlers waits
   only for one another, whichever routes are called together. *)
NoneWaitForEachOther ==
  \A stuck \in (SUBSET Workers) \ {{}} :
    \E w \in stuck : Blockers(w) \cap stuck = {}

=============================================================================
