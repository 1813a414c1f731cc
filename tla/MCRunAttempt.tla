---------------------------- MODULE MCRunAttempt ----------------------------
(* Finite instances of RunAttempt: workers are interchangeable, and so are
   recoverers.  Not used when liveness is checked. *)
EXTENDS RunAttempt, TLC

Symmetry == Permutations(Worker) \cup Permutations(Recoverer)
=============================================================================
