---------------------------- MODULE MCChildWork ----------------------------
(* Instances of ChildWork: a Run with one delegated Call may meet two       *)
(* events and faults, a Run with two of them one.                           *)
EXTENDS ChildWork

OneOrTwoCalls == <<2, 1>>
OneCall == <<1>>
=============================================================================
