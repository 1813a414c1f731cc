----------------------------- MODULE MCSchedule -----------------------------
(* Finite instances of Schedule: an interval of two
   instants and a one-shot. *)
EXTENDS Schedule, TLC

Interval == [once |-> FALSE, fires |-> {1, 2, 4}]
OneShot == [once |-> TRUE, fires |-> {1}]
Recurring == {Interval}
Once == {OneShot}
Symmetry == Permutations(Driver) \cup Permutations(Id)
=============================================================================
