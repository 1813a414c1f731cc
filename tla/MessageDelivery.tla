--------------------------- MODULE MessageDelivery ---------------------------
(***************************************************************************)
(* Retained delivery of the updates of one worker Thread to the Thread it   *)
(* reports to.  A tool call accepts an update by appending it, with its     *)
(* frozen envelope and its predecessor, to the journal of the worker; the   *)
(* outbox row is inserted from the journal, then or by a later repair.      *)
(* Drivers claim due rows for a lease, submit the envelope to the           *)
(* destination under one admission key, and commit what they heard, fenced  *)
(* by the version of the row.  The destination acknowledges the source      *)
(* before it makes its own settlement final.                                *)
(*                                                                          *)
(* A store transaction is one step; a call remembers what it read and may   *)
(* be interrupted or die between any two steps.  A request that outlived    *)
(* its call may still reach the destination.  All clocks are one clock.     *)
(* A Receipt is the destination's only admission of the message's key.      *)
(***************************************************************************)
EXTENDS Integers, Sequences, FiniteSets

CONSTANTS
  Message,       \* updates of the worker
  Driver,        \* concurrent calls of MessageDeliveryDriver.process
  Native,        \* messages whose destination acknowledges their source
  None,          \* null
  MaxPending,    \* maxPendingUpdatesPerOwner
  MaxAutomatic,  \* policy.maxAutomaticAttempts
  Attempt,       \* policy.attemptTimeoutMillis
  RetryBase,     \* policy.retryBaseMillis
  RetryMax,      \* policy.retryMaxMillis
  Poll,          \* policy.settlementPollMillis
  Lifetime,      \* the time from a creation or a recovery to its deadline
  Horizon,       \* bound of the model: the last instant
  MaxStop,       \* bound of the model: calls interrupted, requests outliving them
  MaxRecovery,   \* bound of the model: recoveries per message
  MaxTurn        \* bound of the model: changes of the authorization

Time == 0..Horizon

ASSUME MessageDeliveryConstants ==
  /\ Message # {}
  /\ Native \subseteq Message
  /\ None \notin Nat
  /\ {MaxPending, MaxAutomatic, Attempt, RetryBase, RetryMax, Poll, Lifetime}
       \subseteq Nat \ {0}
  /\ {Horizon, MaxStop, MaxRecovery, MaxTurn} \subseteq Nat

VARIABLES
  clock,
  journal,  \* accepted updates, in the order of the canonical log
  born,     \* createdAtMillis of the accepted updates
  draft,    \* acceptances under way: the tail their history was read at
  row,      \* the delivery store of the worker
  call,     \* what each driver is doing and remembers
  dest,     \* what the destination has done with each message
  wire,     \* requests that outlived the call that sent them
  allowed,  \* whether the destination's authorizer permits the sender
  stops,    \* interruptions so far
  turns     \* changes of the authorization so far

source == <<journal, born, draft>>
world == <<dest, wire, allowed>>
bounds == <<stops, turns>>
vars == <<clock, source, row, call, world, bounds>>

Absent ==
  [status |-> "absent", version |-> 0, receipt |-> FALSE, lease |-> None, deadline |-> 0,
   automatic |-> 0, next |-> 0, generation |-> 0]
Record ==
  [status : {"absent", "pending", "accepted", "processed", "refused", "parked"},
   version : Nat, receipt : BOOLEAN, lease : Nat \cup {None}, deadline : Nat,
   automatic : 0..MaxAutomatic, next : Nat, generation : 0..MaxRecovery]

Someone == CHOOSE m \in Message : TRUE
NoCall ==
  [at |-> "idle", of |-> Someone, version |-> 0, asks |-> FALSE, now |-> 0, until |-> 0,
   reply |-> None]
Reply == {None, "receipt", "refused", "retry", "settled", "pending", "unavailable"}
Call ==
  [at : {"idle", "order", "defer", "claim", "sign", "send", "ask", "heard", "park"},
   of : Message, version : Nat, asks : BOOLEAN, now : Time, until : Nat, reply : Reply]

TypeOK ==
  /\ clock \in Time
  /\ journal \in Seq(Message)
  /\ born \in [Message -> Time]
  /\ draft \in [Message -> Nat \cup {None}]
  /\ row \in [Message -> Record]
  /\ call \in [Driver -> Call]
  /\ dest \in [Message -> {"none", "accepted", "settled", "acknowledged", "final"}]
  /\ wire \subseteq Message
  /\ allowed \in BOOLEAN
  /\ stops \in 0..MaxStop
  /\ turns \in 0..MaxTurn

Init ==
  /\ clock = 0
  /\ journal = <<>> /\ born = [m \in Message |-> 0] /\ draft = [m \in Message |-> None]
  /\ row = [m \in Message |-> Absent]
  /\ call = [d \in Driver |-> NoCall]
  /\ dest = [m \in Message |-> "none"] /\ wire = {} /\ allowed = TRUE
  /\ stops = 0 /\ turns = 0

-----------------------------------------------------------------------------
(***************************************************************************)
(* MessageDelivery.ts: applyMessageDeliveryChange.  One operator per        *)
(* change: what it makes of a record it does not reject as a conflict.      *)
(***************************************************************************)
Least(a, b) == IF a <= b THEN a ELSE b
Open(r) == r.status \in {"pending", "accepted", "parked"}
Live(r) == r.status \in {"pending", "accepted"}
\* A mutant: a lease that has passed does not make its row due.
WakeUnleased(r) == IF r.lease = None THEN Least(r.deadline, r.next) ELSE Horizon + 1
\* messageDeliveryDeadline, of a record that has one.
WakeAt(r) == Least(r.deadline, IF r.lease = None THEN r.next ELSE r.lease)
Due(r, now) == Live(r) /\ WakeAt(r) <= now
Current(r, version) == r.version = version
Leased(r, now) == Live(r) /\ r.lease # None /\ now <= r.lease
Bumped(r) == [r EXCEPT !.version = @ + 1]

Parking(r) == [Bumped(r) EXCEPT !.status = "parked", !.lease = None]
Deferral(r, now) ==
  IF now >= r.deadline THEN Parking(r)
  ELSE [Bumped(r) EXCEPT !.lease = None, !.next = Least(now + Poll, r.deadline)]
Recovery(r, now) ==
  [Bumped(r) EXCEPT !.status = IF r.receipt THEN "accepted" ELSE "pending",
                    !.deadline = now + Lifetime, !.generation = @ + 1,
                    !.automatic = 0, !.next = now]
Spent(r, now) == now >= r.deadline \/ r.automatic >= MaxAutomatic
\* A mutant: the automatic attempts are not bounded.
ClaimedAgain(r, now) ==
  IF now >= r.deadline THEN Parking(r)
  ELSE [Bumped(r) EXCEPT !.lease = Least(now + Attempt, r.deadline), !.automatic = @ + 1]
Claimed(r, now) ==
  IF Spent(r, now) THEN Parking(r)
  ELSE [Bumped(r) EXCEPT !.lease = Least(now + Attempt, r.deadline), !.automatic = @ + 1]
Acceptance(r, now) ==
  [Bumped(r) EXCEPT !.status = "accepted", !.receipt = TRUE, !.lease = None,
                    !.automatic = 0, !.next = Least(now + Poll, r.deadline)]
Refusal(r) == [Bumped(r) EXCEPT !.status = "refused", !.lease = None]
Processing(r) == [Bumped(r) EXCEPT !.status = "processed", !.receipt = TRUE, !.lease = None]
Backoff(r) ==
  LET delay == RetryBase * 2^(r.automatic - 1) IN
  IF delay \in 0..RetryMax THEN delay ELSE RetryMax
Retrying(r, now) ==
  IF Spent(r, now) THEN Parking(r)
  ELSE LET delay == IF r.status = "accepted" THEN Poll ELSE Backoff(r)
       IN  [Bumped(r) EXCEPT !.lease = None, !.next = Least(now + delay, r.deadline)]

-----------------------------------------------------------------------------
(***************************************************************************)
(* agent-updates.ts.  The capacity is judged on the history and the rows    *)
(* read with it; the append holds if the tail is still the one read.        *)
(***************************************************************************)
Accepted == {journal[i] : i \in 1..Len(journal)}
Follows(m, p) == \E i \in 2..Len(journal) : journal[i] = m /\ journal[i - 1] = p
Occupied == {m \in Accepted : row[m].status = "absent" \/ Open(row[m])}
Stored == {m \in Message : Open(row[m])}

Draft(m) ==
  /\ m \notin Accepted /\ draft[m] = None
  /\ Cardinality(Occupied) < MaxPending
  /\ clock + Lifetime <= Horizon
  /\ draft' = [draft EXCEPT ![m] = Len(journal)]
  /\ born' = [born EXCEPT ![m] = clock]
  /\ UNCHANGED <<clock, journal, row, call, world, bounds>>

\* A mutant: the append is not fenced by the tail that was read.
AcceptAnyway(m) ==
  /\ draft[m] # None
  /\ draft' = [draft EXCEPT ![m] = None]
  /\ journal' = Append(journal, m)
  /\ UNCHANGED <<clock, born, row, call, world, bounds>>
Accept(m) ==
  /\ draft[m] # None
  /\ draft' = [draft EXCEPT ![m] = None]
  /\ journal' = IF draft[m] = Len(journal) THEN Append(journal, m) ELSE journal
  /\ UNCHANGED <<clock, born, row, call, world, bounds>>

\* The insertion that follows the append, and the repair that repeats it.
Room == Cardinality(Stored) < MaxPending
Insert(m) ==
  /\ m \in Accepted /\ row[m].status = "absent"
  /\ Room
  /\ row' = [row EXCEPT ![m] =
       [Absent EXCEPT !.status = "pending", !.version = 1, !.next = born[m],
                      !.deadline = born[m] + Lifetime]]
  /\ UNCHANGED <<clock, source, call, world, bounds>>

-----------------------------------------------------------------------------
(* MessageDeliveryDriver.process, one step per transaction.                  *)
Resolved(p) == row[p].receipt \/ row[p].status = "refused"
Idle(d) == call' = [call EXCEPT ![d] = NoCall]
\* The call goes on with the record its change returned.
Holding(m, step) ==
  [NoCall EXCEPT !.at = step, !.of = m, !.version = row'[m].version,
                 !.asks = row'[m].status = "accepted",
                 !.until = IF row'[m].lease = None THEN 0 ELSE row'[m].lease]

\* The row and the clock are read once, at the start.
Start(d, m) ==
  /\ call[d].at = "idle"
  /\ Due(row[m], clock)
  /\ LET ordered == row[m].status = "pending" /\ \E p \in Accepted : Follows(m, p)
     IN  call' = [call EXCEPT ![d] =
           [NoCall EXCEPT !.at = IF ordered THEN "order" ELSE "claim", !.of = m,
                          !.version = row[m].version, !.now = clock]]
  /\ UNCHANGED <<clock, source, row, world, bounds>>

\* A mutant: a predecessor that is parked counts as decided.
OrderPastParked(d) ==
  /\ call[d].at = "order"
  /\ LET ready == \A p \in Accepted :
                    Follows(call[d].of, p) => Resolved(p) \/ row[p].status = "parked"
     IN  call' = [call EXCEPT ![d].at = IF ready THEN "claim" ELSE "defer"]
  /\ UNCHANGED <<clock, source, row, world, bounds>>
Order(d) ==
  /\ call[d].at = "order"
  /\ LET ready == \A p \in Accepted : Follows(call[d].of, p) => Resolved(p)
     IN  call' = [call EXCEPT ![d].at = IF ready THEN "claim" ELSE "defer"]
  /\ UNCHANGED <<clock, source, row, world, bounds>>

Defer(d) ==
  LET m == call[d].of  r == row[m]  now == call[d].now
  IN  /\ call[d].at = "defer"
      /\ row' = IF /\ Current(r, call[d].version)
                   /\ r.status = "pending" /\ (r.lease = None \/ r.lease <= now)
                THEN [row EXCEPT ![m] = Deferral(r, now)]
                ELSE row
      /\ Idle(d)
      /\ UNCHANGED <<clock, source, world, bounds>>

Claim(d) ==
  LET m == call[d].of  r == row[m]  now == call[d].now
      permitted == Current(r, call[d].version) /\ Due(r, now)
  IN  /\ call[d].at = "claim"
      /\ row' = IF permitted THEN [row EXCEPT ![m] = Claimed(r, now)] ELSE row
      /\ call' = [call EXCEPT ![d] =
           IF permitted /\ ~Spent(r, now) THEN Holding(m, "sign") ELSE NoCall]
      /\ UNCHANGED <<clock, source, world, bounds>>

\* The digest is checked; what is left of the lease bounds the attempt.
Signing(d, limit) ==
  /\ call[d].at = "sign"
  /\ call' = [call EXCEPT ![d] =
       IF limit > 0
       THEN [@ EXCEPT !.at = IF call[d].asks THEN "ask" ELSE "send", !.until = clock + limit]
       ELSE NoCall]
  /\ UNCHANGED <<clock, source, row, world, bounds>>
\* A mutant: the policy alone bounds the attempt.
SignByPolicy(d) == Signing(d, Attempt)
Sign(d) == Signing(d, Least(Attempt, call[d].until - clock))

\* A request the destination handles: admission is idempotent, and the sender is authorized
\* before a retained admission is looked up.
Admits(m) == dest' = IF allowed /\ dest[m] = "none" THEN [dest EXCEPT ![m] = "accepted"] ELSE dest
Answers(d, reply) == call' = [call EXCEPT ![d].at = "heard", ![d].reply = reply]

\* The answer, or a transient failure before or after the admission.
Send(d) ==
  /\ call[d].at = "send"
  /\ \/ /\ Admits(call[d].of)
        /\ \E reply \in {IF allowed THEN "receipt" ELSE "refused"}
                       \cup (IF stops < MaxStop THEN {"retry"} ELSE {}) :
             /\ Answers(d, reply)
             /\ stops' = IF reply = "retry" THEN stops + 1 ELSE stops
     \/ /\ stops < MaxStop /\ stops' = stops + 1
        /\ Answers(d, "retry")
        /\ UNCHANGED dest
  /\ UNCHANGED <<clock, source, row, wire, allowed, turns>>

\* readSubmissionStatus: only a final settlement is a settled status.
Ask(d) ==
  /\ call[d].at = "ask"
  /\ \/ /\ Answers(d, IF dest[call[d].of] = "final" THEN "settled" ELSE "pending")
        /\ UNCHANGED stops
     \/ /\ stops < MaxStop /\ stops' = stops + 1
        /\ \E reply \in {"retry", "unavailable"} : Answers(d, reply)
  /\ UNCHANGED <<clock, source, row, world, turns>>

\* The attempt is interrupted; its request may still be under way.
TimeOut(d) ==
  /\ call[d].at \in {"send", "ask"} /\ call[d].until <= clock
  /\ Answers(d, "retry")
  /\ \/ UNCHANGED <<wire, stops>>
     \/ /\ call[d].at = "send" /\ stops < MaxStop /\ stops' = stops + 1
        /\ wire' = wire \cup {call[d].of}
  /\ UNCHANGED <<clock, source, row, dest, allowed, turns>>
Land(m) ==
  /\ m \in wire /\ wire' = wire \ {m}
  /\ Admits(m)
  /\ UNCHANGED <<clock, source, row, call, allowed, bounds>>

\* The record a reply makes of the row.
Outcome(r, reply) ==
  CASE reply = "receipt" -> Acceptance(r, clock)
    [] reply = "refused" -> Refusal(r)
    [] reply = "settled" -> Processing(r)
    [] reply \in {"pending", "unavailable"} -> Parking(r)
    [] OTHER -> Retrying(r, clock)
\* "Park" needs no lease; every other change is rejected when the lease has passed.
Commit(d) ==
  LET m == call[d].of  r == row[m]
      permitted == /\ Current(r, call[d].version) /\ Live(r)
                   /\ call[d].reply # "unavailable" => Leased(r, clock)
  IN  /\ call[d].at = "heard"
      /\ row' = IF permitted THEN [row EXCEPT ![m] = Outcome(r, call[d].reply)] ELSE row
      /\ call' = [call EXCEPT ![d] =
           IF permitted /\ call[d].reply = "receipt" THEN Holding(m, "park") ELSE NoCall]
      /\ UNCHANGED <<clock, source, world, bounds>>

Park(d) ==
  LET m == call[d].of
  IN  /\ call[d].at = "park"
      /\ row' = IF Current(row[m], call[d].version) /\ Live(row[m])
                THEN [row EXCEPT ![m] = Parking(row[m])] ELSE row
      /\ Idle(d)
      /\ UNCHANGED <<clock, source, world, bounds>>

\* The call is interrupted or its host dies.
Interrupt(d) ==
  /\ call[d].at # "idle" /\ stops < MaxStop
  /\ stops' = stops + 1
  /\ Idle(d)
  /\ wire' \in {wire} \cup (IF call[d].at = "send" THEN {wire \cup {call[d].of}} ELSE {})
  /\ UNCHANGED <<clock, source, row, dest, allowed, turns>>

\* MessagingHost.retry, MessageDeliveryDriver.retry.
Recover(m) ==
  /\ row[m].status = "parked" /\ row[m].generation < MaxRecovery
  /\ clock + Lifetime <= Horizon
  /\ row' = [row EXCEPT ![m] = Recovery(@, clock)]
  /\ UNCHANGED <<clock, source, call, world, bounds>>

-----------------------------------------------------------------------------
(***************************************************************************)
(* The destination.  A settlement is canonical first; the source is told    *)
(* (notifyParentOfChildSettlement) and only then is the settlement final.   *)
(* A source that cannot take it leaves the settlement where it is.          *)
(***************************************************************************)
Settle(m) ==
  /\ dest[m] = "accepted"
  /\ dest' = [dest EXCEPT ![m] = "settled"]
  /\ UNCHANGED <<clock, source, row, call, wire, allowed, bounds>>

\* A mutant: a source that rejects the acknowledgement is ignored.
AcknowledgeBlindly(m) ==
  /\ m \in Native /\ dest[m] = "settled"
  /\ row' = IF row[m].status \in {"processed", "refused"} THEN row
            ELSE [row EXCEPT ![m] = Processing(@)]
  /\ dest' = [dest EXCEPT ![m] = "acknowledged"]
  /\ UNCHANGED <<clock, source, call, wire, allowed, bounds>>
Acknowledge(m) ==
  /\ m \in Native /\ dest[m] = "settled"
  /\ row[m].status # "refused"
  /\ row' = IF row[m].status = "processed" THEN row
            ELSE [row EXCEPT ![m] = Processing(@)]
  /\ dest' = [dest EXCEPT ![m] = "acknowledged"]
  /\ UNCHANGED <<clock, source, call, wire, allowed, bounds>>

Finalize(m) ==
  /\ dest[m] = IF m \in Native THEN "acknowledged" ELSE "settled"
  /\ dest' = [dest EXCEPT ![m] = "final"]
  /\ UNCHANGED <<clock, source, row, call, wire, allowed, bounds>>

Authorize ==
  /\ turns < MaxTurn /\ turns' = turns + 1
  /\ allowed' = ~allowed
  /\ UNCHANGED <<clock, source, row, call, dest, wire, stops>>

Tick ==
  /\ clock < Horizon /\ clock' = clock + 1
  /\ UNCHANGED <<source, row, call, world, bounds>>

Process(d) ==
  \/ Order(d) \/ Defer(d) \/ Claim(d) \/ Sign(d) \/ Send(d) \/ Ask(d) \/ TimeOut(d)
  \/ Commit(d) \/ Park(d)
Next ==
  \/ \E m \in Message :
       \/ Draft(m) \/ Accept(m) \/ Insert(m) \/ Land(m) \/ Recover(m)
       \/ Settle(m) \/ Acknowledge(m) \/ Finalize(m)
       \/ \E d \in Driver : Start(d, m)
  \/ \E d \in Driver : Process(d) \/ Interrupt(d)
  \/ Authorize \/ Tick

Spec == Init /\ [][Next]_vars

\* The pump rescans the due index until it is empty, a repair reruns until every accepted
\* update has its row, and recovery replays a settlement until it is final.
Fairness ==
  /\ WF_vars(Tick)
  /\ \A m \in Message :
       /\ WF_vars(Insert(m)) /\ WF_vars(\E d \in Driver : Start(d, m))
       /\ WF_vars(Settle(m)) /\ WF_vars(Acknowledge(m)) /\ WF_vars(Finalize(m))
  /\ \A d \in Driver : WF_vars(Process(d))
FairSpec == Spec /\ Fairness

-----------------------------------------------------------------------------
(* Safety. *)

\* A lease is the authority to submit: two calls never both hold an unexpired attempt on one
\* message, whatever was read before the claim and however late.
OneSubmitter ==
  \A d, e \in Driver :
    /\ d # e /\ call[d].of = call[e].of
    /\ call[d].at = "send" /\ call[e].at = "send"
    => call[d].until <= clock \/ call[e].until <= clock

\* What the source shows is what happened: a Receipt was given, a settlement was reached, and
\* a final settlement of a native message is known at its source.
SourceIsTrue ==
  \A m \in Message :
    /\ row[m].receipt => dest[m] # "none"
    /\ row[m].status = "processed" => dest[m] \in {"settled", "acknowledged", "final"}
    /\ m \in Native /\ dest[m] \in {"acknowledged", "final"} => row[m].status = "processed"

\* An update is accepted only if its row will find room: a repair never fails for capacity.
AcceptedFits == Occupied # Stored => Room

\* Retained delivery is an ordered hand-over, whatever is lost, repeated or late: the journal
\* is what was accepted, a message is taken over when the destination admits it, and the row
\* is what the worker knows of it.
Verdict(r) ==
  IF r.status = "refused" THEN "refused" ELSE IF r.receipt THEN "receipt" ELSE "open"
Handover == INSTANCE OrderedHandover WITH
  sent <- journal,
  taken <- {m \in Message : dest[m] # "none"},
  verdict <- [m \in Message |-> Verdict(row[m])],
  ended <- {m \in Message : row[m].status = "processed"}
HandsOver == Handover!Spec

\* An accepted update does not stay in flight: its delivery ends, or is parked for its owner.
AcceptedEnds ==
  \A m \in Message : m \in Accepted ~> row[m].status \in {"processed", "refused", "parked"}
=============================================================================
