------------------------- MODULE MCMessageDelivery -------------------------
(***************************************************************************)
(* Small instances of MessageDelivery.  Drivers are interchangeable; the    *)
(* messages are not, since the journal orders them.                         *)
(***************************************************************************)
EXTENDS MessageDelivery, TLC

Symmetry == Permutations(Driver)
=============================================================================
