------------------------- MODULE MCSubmissionLedger -------------------------
(* Finite instances of SubmissionLedger: identities are interchangeable. *)
EXTENDS SubmissionLedger, TLC

\* Claims granted: two in each lane; three in one lane and none in the others,
\* where work is only admitted and aborted.
TwoClaims == [t \in Thread |-> 2]
OneBusyLane ==
  LET busy == CHOOSE t \in Thread : TRUE
  IN [t \in Thread |-> IF t = busy THEN 3 ELSE 0]

Symmetry == Permutations(Submission) \cup Permutations(Key)
=============================================================================
