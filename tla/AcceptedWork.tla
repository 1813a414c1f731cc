---------------------------- MODULE AcceptedWork ----------------------------
(***************************************************************************)
(* What the ledger promises its callers, without lanes, leases, joins or    *)
(* suspensions: a Submission is accepted once, is owed a settlement from    *)
(* then on, receives one verdict that is never replaced, and settles with   *)
(* it.  A sealed Thread accepts nothing more.                               *)
(***************************************************************************)
CONSTANTS Thread, Submission, Verdict, None

VARIABLES home, phase, verdict, sealed

vars == <<home, phase, verdict, sealed>>

Init ==
  /\ home = [s \in Submission |-> None]
  /\ phase = [s \in Submission |-> "none"]
  /\ verdict = [s \in Submission |-> None]
  /\ sealed = [t \in Thread |-> FALSE]

Accept(s, t) ==
  /\ phase[s] = "none"
  /\ ~sealed[t]
  /\ home' = [home EXCEPT ![s] = t]
  /\ phase' = [phase EXCEPT ![s] = "owed"]
  /\ UNCHANGED <<verdict, sealed>>

Decide(s, v) ==
  /\ phase[s] = "owed"
  /\ phase' = [phase EXCEPT ![s] = "decided"]
  /\ verdict' = [verdict EXCEPT ![s] = v]
  /\ UNCHANGED <<home, sealed>>

\* The settlement of a worker's assignment may seal its Thread with it.
Settle(s) ==
  /\ phase[s] = "decided"
  /\ phase' = [phase EXCEPT ![s] = "settled"]
  /\ sealed' \in {sealed, [sealed EXCEPT ![home[s]] = TRUE]}
  /\ UNCHANGED <<home, verdict>>

Seal(t) ==
  /\ sealed' = [sealed EXCEPT ![t] = TRUE]
  /\ UNCHANGED <<home, phase, verdict>>

Next ==
  \/ \E s \in Submission, t \in Thread : Accept(s, t)
  \/ \E s \in Submission, v \in Verdict : Decide(s, v)
  \/ \E s \in Submission : Settle(s)
  \/ \E t \in Thread : Seal(t)

Spec == Init /\ [][Next]_vars
=============================================================================
