--------------------------- MODULE MCSubscription ---------------------------
(* Small instances of Subscription: every configuration matches every event. *)
EXTENDS Subscription, TLC

MCWants == [c \in Config |-> Event]
Symmetry ==
  Permutations(Sender) \cup Permutations(Envelope) \cup Permutations(Sub)
    \cup Permutations(Event)

=============================================================================
