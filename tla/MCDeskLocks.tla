----------------------------- MODULE MCDeskLocks -----------------------------
(***************************************************************************)
(* Three workers, two runs: every route but act together, and act.         *)
(***************************************************************************)
EXTENDS DeskLocks, TLC

ButAct == {"start", "stop", "bar", "tick", "status", "detail", "pending", "intent", "m1",
           "guards_get", "guards_set"}
WithAct == ButAct \cup {"act"}
Interchangeable == Permutations(Workers)
=============================================================================
