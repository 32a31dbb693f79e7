----------------------------- MODULE Arrangement -----------------------------
(***************************************************************************)
(* Sets put in an order and parts of sequences, without recursion: what    *)
(* the store does by sort_by_key, group_by and filter, and the readers of  *)
(* a log by lines and filter.                                              *)
(***************************************************************************)
EXTENDS Integers, Sequences, FiniteSets

(* A set in an order: upTo[x] is x and what comes before it. *)
Arranged(S, upTo) ==
  [n \in 1..Cardinality(S) |-> CHOOSE x \in S : Cardinality(upTo[x]) = n]
Ascending(S) == Arranged(S, [i \in S |-> {j \in S : j <= i}])
Picked(s, places) == [n \in DOMAIN Ascending(places) |-> s[Ascending(places)[n]]]
=============================================================================
