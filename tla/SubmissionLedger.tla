-------------------------- MODULE SubmissionLedger --------------------------
(***************************************************************************)
(* The accepted-work ledger: one durable row per admitted Submission, a     *)
(* FIFO lane per Thread, and the producer epoch that fences stale Attempts. *)
(*                                                                          *)
(* Translated from the reference adapter, where every operation is a single *)
(* atomic Ref.modify, so every operation is one action.  A call the ledger  *)
(* refuses, and an idempotent replay, leave the state unchanged: they are   *)
(* the stuttering steps of [Next]_vars.  The callers (workers, recovery,    *)
(* operators) are not restricted here: any of them may present any token    *)
(* ever minted, in any order.                                               *)
(*                                                                          *)
(* Time is abstracted to the one thing the ledger reads from the clock,     *)
(* whether a lease is still live: LeaseExpires is the passing of time.      *)
(***************************************************************************)
EXTENDS Integers, FiniteSets

CONSTANTS
  Thread,      \* Thread identities, one lane each
  Submission,  \* identities the ledger can mint; MAX_SUBMISSIONS bounds them
  Key,         \* (principal, idempotency key) pairs
  Group,       \* admission groups a request may name
  Origin,      \* worker origins a request may carry, among Origins
  Outcome,     \* outcomes a Run may reach, among Outcomes
  Call,        \* Tool Call identities of one Run
  None,        \* "undefined"
  MaxEpoch,    \* bound of the model: claims granted in each lane
  JoinLimit    \* bound of the model: largest claimJoining maxCount (0: no joins)

Origins == {"none", "standing", "assignment"}
Outcomes == {"completed", "failed", "aborted"}
Terminal == {"completed", "failed", "cancelled"}

ASSUME ConstantsAssumption ==
  /\ Origin \subseteq Origins
  /\ Outcome \subseteq Outcomes
  /\ Thread # {}
  /\ MaxEpoch \in [Thread -> Nat]
  /\ JoinLimit \in Nat
  /\ None \notin Submission \cup Key \cup Group \cup Outcome \cup Terminal
  /\ None \notin [outcome : Outcome, ends : Terminal \cup {None}]

(***************************************************************************)
(* STATE_RANK as the two thresholds the code compares against.              *)
(***************************************************************************)
BeforeInputApplied == {"admitted", "ready", "joining", "joined", "running"}
BeforeTerminalizing == BeforeInputApplied \cup {"input-applied", "suspended", "unknown"}
SubmissionState == BeforeTerminalizing \cup {"terminalizing", "settled"}

BlockedHeadStates == {"joining", "joined", "suspended"}

VARIABLES
  adm,      \* the immutable admission half of each row
  sub,      \* the operational half of each row
  next,     \* lane: next queue sequence
  epoch,    \* lane: producer epoch
  stopped,  \* stoppedWorkers: "open" or how the worker Thread was sealed
  minted    \* ownership tokens minted so far

vars == <<adm, sub, next, epoch, stopped, minted>>

Admission ==
  [thread : Thread, key : Key \cup {None}, group : Group \cup {None}, origin : Origins, seq : Nat]

NotWaiting == [kind |-> "none", on |-> {}]
Waiting ==
  [kind : {"none", "approval"}, on : SUBSET Call] \cup
  [kind : {"child"}, on : SUBSET Submission]

\* What the reserved SubmissionSettled record says: its outcome, and the
\* assignment terminal that record is evidence of, if any.
Reservation == [outcome : Outcome, ends : Terminal \cup {None}]

Row ==
  [state : SubmissionState \cup {"absent"},
   token : Nat, epoch : Nat, live : BOOLEAN,   \* StoredOwnership; token 0: none
   applied : BOOLEAN,                          \* inputApplied marker
   reserved : Reservation \cup {None},
   outcome : Outcome \cup {None},
   abort : BOOLEAN,                            \* abortIntent recorded
   host : Submission \cup {None},              \* joinedHostSubmissionId
   waiting : Waiting,                          \* suspension
   unknown : SUBSET Call,                      \* unknownMark
   decided : SUBSET Call,                      \* approvalDecisions
   resolved : SUBSET Call]                     \* unknownResolutions

Fresh ==
  [state |-> "admitted", token |-> 0, epoch |-> 0, live |-> FALSE,
   applied |-> FALSE, reserved |-> None, outcome |-> None, abort |-> FALSE,
   host |-> None, waiting |-> NotWaiting, unknown |-> {}, decided |-> {},
   resolved |-> {}]

Absent == [Fresh EXCEPT !.state = "absent"]

TypeOK ==
  /\ adm \in [Submission -> Admission]
  /\ sub \in [Submission -> Row]
  /\ next \in [Thread -> Nat \ {0}]
  /\ epoch \in [Thread -> Nat]
  /\ stopped \in [Thread -> Terminal \cup {"open", "stopped"}]
  /\ minted \in Nat

-----------------------------------------------------------------------------
Present(s) == sub[s].state # "absent"
Active(s) == sub[s].state \notin {"absent", "settled"}
SameLane(r, s) == adm[r].thread = adm[s].thread
InLane(t) == {s \in Submission : Present(s) /\ adm[s].thread = t}
Earlier(r, s) == Present(r) /\ SameLane(r, s) /\ adm[r].seq < adm[s].seq

\* An unknown row without abort intent is skipped; everything else queues.
Parked(s) == sub[s].state = "unknown" /\ ~sub[s].abort
Candidate(s) == Active(s) /\ ~Parked(s)
\* Mutant: any candidate counts as the head of its lane.
AnyCandidate(s) == Candidate(s)
IsHead(s) == Candidate(s) /\ \A r \in Submission : Earlier(r, s) => ~Candidate(r)

\* A retained row token cannot outlive a newer owner of the same Thread.
Owned(s) == sub[s].token # 0

\* Mutant: the token is compared, the epoch is not.
TokenOnly(s, token) == Owned(s) /\ sub[s].token = token
OwnsLane(s, token) ==
  /\ Owned(s)
  /\ sub[s].token = token
  /\ sub[s].epoch = epoch[adm[s].thread]

Announced(s) ==
  \/ sub[s].state = "settled"
  \/ sub[s].state = "terminalizing" /\ sub[s].reserved # None

-----------------------------------------------------------------------------
\* What the model reads in the row of an identity not yet minted.
NotAdmitted ==
  [thread |-> CHOOSE t \in Thread : TRUE, key |-> None,
   group |-> None, origin |-> "none", seq |-> 0]

Init ==
  /\ adm = [s \in Submission |-> NotAdmitted]
  /\ sub = [s \in Submission |-> Absent]
  /\ next = [t \in Thread |-> 1]
  /\ epoch = [t \in Thread |-> 0]
  /\ stopped = [t \in Thread |-> "open"]
  /\ minted = 0

\* Mutant: an admission that does not look at the seal.
AdmitStopped(s, t, k, g, o) ==
  /\ ~Present(s)
  /\ ~\E r \in InLane(t) : adm[r].key = k
  /\ adm' = [adm EXCEPT ![s] = [thread |-> t, key |-> k, group |-> g, origin |-> o,
                                seq |-> next[t]]]
  /\ sub' = [sub EXCEPT ![s] = Fresh]
  /\ next' = [next EXCEPT ![t] = @ + 1]
  /\ UNCHANGED <<epoch, stopped, minted>>
\* The request's remaining data only decides whether a replay conflicts.
Admit(s, t, k, g, o) ==
  /\ ~Present(s)
  /\ ~\E r \in InLane(t) : adm[r].key = k
  /\ stopped[t] = "open"
  /\ \A r \in InLane(t) : adm[r].seq = 1 => adm[r].origin = o
  /\ g # None => ~\E r \in InLane(t) : adm[r].group = g /\ Active(r)
  /\ adm' = [adm EXCEPT ![s] = [thread |-> t, key |-> k,
                                group |-> g, origin |-> o, seq |-> next[t]]]
  /\ sub' = [sub EXCEPT ![s] = Fresh]
  /\ next' = [next EXCEPT ![t] = @ + 1]
  /\ UNCHANGED <<epoch, stopped, minted>>

MarkReady(s) ==
  /\ sub[s].state = "admitted"
  /\ sub' = [sub EXCEPT ![s].state = "ready"]
  /\ UNCHANGED <<adm, next, epoch, stopped, minted>>

-----------------------------------------------------------------------------
LaneIdle(t) == \A r \in InLane(t) : ~(Owned(r) /\ sub[r].live)

\* The claim itself: a new epoch fences every earlier Attempt of the lane.
Grant(s) ==
  LET t == adm[s].thread IN
  /\ epoch[t] < MaxEpoch[t]
  /\ epoch' = [epoch EXCEPT ![t] = @ + 1]
  /\ minted' = minted + 1
  /\ sub' = [sub EXCEPT ![s].state = IF @ = "ready" THEN "running" ELSE @,
                        ![s].token = minted + 1,
                        ![s].epoch = epoch[t] + 1,
                        ![s].live = TRUE]
  /\ UNCHANGED <<adm, next, stopped>>

Claim(s) ==
  /\ IsHead(s)
  /\ LaneIdle(adm[s].thread)
  /\ sub[s].state \notin BlockedHeadStates
  /\ Grant(s)


\* Mutant: a handoff that does not look at the prefix it passes over.
HandoffBlind(s, atEpoch) ==
  /\ Candidate(s)
  /\ LaneIdle(adm[s].thread)
  /\ epoch[adm[s].thread] = atEpoch
  /\ sub[s].state \in {"ready", "running", "input-applied"}
  /\ Grant(s)
\* A claim with a handoff: the same producer passes the lane, at its current
\* epoch, over a prefix whose Runs it deferred at a Turn boundary.
ClaimHandoff(s, atEpoch) ==
  /\ Candidate(s)
  /\ LaneIdle(adm[s].thread)
  /\ epoch[adm[s].thread] = atEpoch
  /\ \A r \in Submission :
       Earlier(r, s) /\ Candidate(r) => sub[r].state = "input-applied" /\ ~sub[r].abort
  /\ sub[s].state \in {"ready", "running", "input-applied"}
  /\ Grant(s)

LeaseExpires(s) ==
  /\ sub[s].live
  /\ sub' = [sub EXCEPT ![s].live = FALSE]
  /\ UNCHANGED <<adm, next, epoch, stopped, minted>>

RenewOwnership(s, token) ==
  /\ OwnsLane(s, token)
  /\ sub' = [sub EXCEPT ![s].live = TRUE]
  /\ UNCHANGED <<adm, next, epoch, stopped, minted>>

ReleaseOwnership(s, token) ==
  /\ OwnsLane(s, token)
  /\ sub' = [sub EXCEPT ![s].token = 0, ![s].epoch = 0, ![s].live = FALSE]
  /\ UNCHANGED <<adm, next, epoch, stopped, minted>>

MarkInputApplied(s, token) ==
  /\ OwnsLane(s, token)
  /\ ~sub[s].applied
  /\ sub' = [sub EXCEPT ![s].applied = TRUE,
                        ![s].state = IF @ \in BeforeInputApplied THEN "input-applied" ELSE @]
  /\ UNCHANGED <<adm, next, epoch, stopped, minted>>

-----------------------------------------------------------------------------
\* Assignment terminals a settlement record of this outcome can be evidence of.
EndsOf(s, outcome) ==
  IF adm[s].origin # "assignment" THEN {None}
  ELSE CASE outcome = "completed" -> {None, "completed", "failed"}
         [] outcome = "failed" -> {None, "failed"}
         [] outcome = "aborted" -> {None, "cancelled"}

\* Settled with its host, or aborted while queued and never claimed: the only
\* two reservations no live ownership fences.
JoinedSettlement(s) == sub[s].state = "joined" /\ sub[s].host # None
QueuedAbortSettlement(s, outcome) ==
  /\ outcome = "aborted"
  /\ sub[s].abort
  /\ ~Owned(s)
  /\ sub[s].state \in {"ready", "terminalizing"}


\* Mutant: a second reservation replaces the first.
ReserveAgain(s, token, outcome, ends) ==
  /\ Present(s)
  /\ JoinedSettlement(s) \/ QueuedAbortSettlement(s, outcome) \/ OwnsLane(s, token)
  /\ sub' = [sub EXCEPT ![s].reserved = [outcome |-> outcome, ends |-> ends],
                        ![s].state = IF @ \in BeforeTerminalizing THEN "terminalizing" ELSE @]
  /\ UNCHANGED <<adm, next, epoch, stopped, minted>>
ReserveSettlement(s, token, outcome, ends) ==
  /\ Present(s)
  /\ JoinedSettlement(s) \/ QueuedAbortSettlement(s, outcome) \/ OwnsLane(s, token)
  /\ sub[s].reserved = None
  /\ sub' = [sub EXCEPT ![s].reserved = [outcome |-> outcome, ends |-> ends],
                        ![s].state = IF @ \in BeforeTerminalizing THEN "terminalizing" ELSE @]
  /\ UNCHANGED <<adm, next, epoch, stopped, minted>>


\* Mutant: a row merely claimed for joining counts as consumed.
LinkedTo(r, s) == sub[r].host = s
JoinedTo(r, s) == sub[r].host = s /\ sub[r].applied

\* A completed assignment is not sealed over newer input it has not consumed.
PendingNewer(s) ==
  \E r \in Submission :
    /\ Present(r) /\ SameLane(r, s)
    /\ adm[r].seq + 1 = next[adm[s].thread]
    /\ adm[r].seq > adm[s].seq
    /\ ~JoinedTo(r, s)

Seals(s) ==
  /\ sub[s].reserved.ends # None
  /\ ~(sub[s].reserved.ends = "completed" /\ PendingNewer(s))
  /\ stopped[adm[s].thread] = "open"

FinalizeSettlement(s) ==
  /\ Present(s)
  /\ sub[s].reserved # None
  /\ sub[s].state # "settled"
  /\ sub' = [r \in Submission |->
       IF r = s
       THEN [sub[s] EXCEPT !.state = "settled", !.outcome = sub[s].reserved.outcome,
                           !.token = 0, !.epoch = 0, !.live = FALSE]
       ELSE IF Seals(s) /\ Active(r) /\ SameLane(r, s) /\ ~JoinedTo(r, s)
       THEN [sub[r] EXCEPT !.abort = TRUE]
       ELSE sub[r]]
  /\ stopped' = IF Seals(s) THEN [stopped EXCEPT ![adm[s].thread] = sub[s].reserved.ends]
                ELSE stopped
  /\ UNCHANGED <<adm, next, epoch, minted>>

StopWorker(t) ==
  /\ sub' = [s \in Submission |-> IF s \in InLane(t) /\ Active(s)
                                  THEN [sub[s] EXCEPT !.abort = TRUE] ELSE sub[s]]
  /\ stopped' = [stopped EXCEPT ![t] = IF @ = "open" THEN "stopped" ELSE @]
  /\ UNCHANGED <<adm, next, epoch, minted>>

RequestAbort(s) ==
  /\ Active(s)
  /\ sub[s].state # "joined"
  /\ sub' = [sub EXCEPT ![s].abort = TRUE]
  /\ UNCHANGED <<adm, next, epoch, stopped, minted>>

-----------------------------------------------------------------------------
\* The contiguous ready prefix after the host.  Rows already joining this host
\* extend it, an aborted settled row is no gap, any other row breaks it.
Later(h) == {r \in InLane(adm[h].thread) : adm[r].seq > adm[h].seq}
ExtendsPrefix(r, h) ==
  \/ sub[r].state \in {"joining", "joined"} /\ sub[r].host = h
  \/ sub[r].state = "settled" /\ sub[r].outcome = "aborted"
  \/ sub[r].state = "ready"
ReadyBefore(r, h) == {q \in Later(h) : adm[q].seq < adm[r].seq /\ sub[q].state = "ready"}
JoinPrefix(h, maxCount) ==
  {r \in Later(h) :
     /\ sub[r].state = "ready"
     /\ \A q \in Later(h) : adm[q].seq < adm[r].seq => ExtendsPrefix(q, h)
     /\ Cardinality(ReadyBefore(r, h)) < maxCount}

ClaimJoining(h, token, maxCount) ==
  /\ Present(h)
  /\ stopped[adm[h].thread] = "open"
  /\ OwnsLane(h, token)
  /\ sub' = [r \in Submission |->
       IF r \in JoinPrefix(h, maxCount)
       THEN [sub[r] EXCEPT !.state = "joining", !.host = h] ELSE sub[r]]
  /\ UNCHANGED <<adm, next, epoch, stopped, minted>>

MarkJoined(s, token) ==
  /\ sub[s].host # None
  /\ OwnsLane(sub[s].host, token)
  /\ ~sub[s].applied
  /\ sub[s].state \in {"joining", "joined"}
  /\ sub' = [sub EXCEPT ![s].state = "joined", ![s].applied = TRUE]
  /\ UNCHANGED <<adm, next, epoch, stopped, minted>>


\* Mutant: the revert also takes back rows the host consumed.
RevertJoined(s) ==
  /\ sub[s].state \in {"joining", "joined"}
  /\ sub' = [sub EXCEPT ![s].state = "ready", ![s].host = None]
  /\ UNCHANGED <<adm, next, epoch, stopped, minted>>
RevertJoining(s) ==
  /\ sub[s].state = "joining"
  /\ sub' = [sub EXCEPT ![s].state = "ready", ![s].host = None]
  /\ UNCHANGED <<adm, next, epoch, stopped, minted>>

-----------------------------------------------------------------------------

\* Mutant: decisions that raced ahead of the suspend are not looked for.
NotCovered(s, reason) == reason.kind = "child" /\ \A c \in reason.on : sub[c].state = "settled"
\* A reason whose covering events all raced ahead of the suspend.
Covered(s, reason) ==
  \/ reason.kind = "approval" /\ reason.on \subseteq sub[s].decided
  \/ reason.kind = "child" /\ \A c \in reason.on : sub[c].state = "settled"

Suspend(s, token, reason) ==
  /\ Active(s)
  /\ sub[s].reserved = None
  /\ OwnsLane(s, token)
  /\ ~Covered(s, reason)
  /\ sub' = [sub EXCEPT ![s].state = "suspended", ![s].waiting = reason,
                        ![s].token = 0, ![s].epoch = 0, ![s].live = FALSE]
  /\ UNCHANGED <<adm, next, epoch, stopped, minted>>

RecordApprovalDecision(s, c) ==
  /\ Active(s)
  /\ c \notin sub[s].decided
  /\ LET wakes == /\ sub[s].state = "suspended"
                  /\ sub[s].waiting.kind = "approval"
                  /\ sub[s].waiting.on \subseteq sub[s].decided \cup {c}
     IN sub' = [sub EXCEPT ![s].decided = @ \cup {c},
                           ![s].state = IF wakes THEN "input-applied" ELSE @,
                           ![s].waiting = IF wakes THEN NotWaiting ELSE @]
  /\ UNCHANGED <<adm, next, epoch, stopped, minted>>

RecordChildSettled(p, c) ==
  /\ Announced(c)
  /\ sub[p].state = "suspended"
  /\ sub[p].waiting.kind = "child"
  /\ c \in sub[p].waiting.on
  /\ \A d \in sub[p].waiting.on : Announced(d)
  /\ sub' = [sub EXCEPT ![p].state = "input-applied", ![p].waiting = NotWaiting]
  /\ UNCHANGED <<adm, next, epoch, stopped, minted>>

\* Ownership-free: canonical evidence authorizes it, and ownership is kept.
MarkUnknown(s, calls) ==
  /\ Active(s)
  /\ sub[s].reserved = None
  /\ sub' = [sub EXCEPT ![s].state = "unknown", ![s].unknown = @ \cup calls]
  /\ UNCHANGED <<adm, next, epoch, stopped, minted>>

RecordUnknownResolution(s, c) ==
  /\ Active(s)
  /\ LET wakes == /\ sub[s].state = "unknown"
                  /\ sub[s].unknown \subseteq sub[s].resolved \cup {c}
     IN sub' = [sub EXCEPT ![s].resolved = @ \cup {c},
                           ![s].state = IF wakes THEN "input-applied" ELSE @,
                           ![s].unknown = IF wakes THEN {} ELSE @]
  /\ UNCHANGED <<adm, next, epoch, stopped, minted>>

-----------------------------------------------------------------------------
Reasons(s) ==
  [kind : {"approval"}, on : (SUBSET Call) \ {{}}] \cup
  [kind : {"child"}, on : SUBSET {c \in Submission \ {s} : Present(c) /\ ~SameLane(c, s)} \ {{}}]

Admissions ==
  \E s \in Submission :
    \/ \E t \in Thread, k \in Key, g \in Group \cup {None}, o \in Origin :
         Admit(s, t, k, g, o)
    \/ MarkReady(s)

Ownership ==
  \E s \in Submission :
    \/ Claim(s)
    \/ \E e \in 0..minted : ClaimHandoff(s, e)
    \/ LeaseExpires(s)
    \/ \E token \in 0..minted :
         \/ RenewOwnership(s, token)
         \/ ReleaseOwnership(s, token)
         \/ MarkInputApplied(s, token)

Settling ==
  \E s \in Submission :
    \/ \E token \in 0..minted, outcome \in Outcome :
         \E ends \in EndsOf(s, outcome) : ReserveSettlement(s, token, outcome, ends)
    \/ FinalizeSettlement(s)
    \/ RequestAbort(s)

\* Only a Thread that can hold a worker has an owner who may stop it.
Stopping == Origin # {"none"} /\ \E t \in Thread : StopWorker(t)

Joining ==
  \E s \in Submission :
    \/ \E token \in 0..minted, maxCount \in 1..JoinLimit : ClaimJoining(s, token, maxCount)
    \/ \E token \in 0..minted : MarkJoined(s, token)
    \/ RevertJoining(s)

Pausing ==
  \E s \in Submission :
    \/ \E token \in 0..minted : \E reason \in Reasons(s) : Suspend(s, token, reason)
    \/ \E c \in Submission : RecordChildSettled(s, c)
    \/ \E c \in Call : RecordApprovalDecision(s, c) \/ RecordUnknownResolution(s, c)
    \/ \E calls \in (SUBSET Call) \ {{}} : MarkUnknown(s, calls)

Next == Admissions \/ Ownership \/ Settling \/ Stopping \/ Joining \/ Pausing

Spec == Init /\ [][Next]_vars

-----------------------------------------------------------------------------
(***************************************************************************)
(* Properties.                                                              *)
(***************************************************************************)
\* A lane has one owner: whatever stale tokens its rows retain, at most one
\* row carries the current epoch, and an unexpired lease always does, so no
\* Attempt that a later claim fenced off still holds a live lease.
LaneHasOneOwner ==
  \A r, s \in Submission :
    /\ sub[s].live => Owned(s) /\ sub[s].epoch = epoch[adm[s].thread]
    /\ Owned(r) /\ Owned(s) /\ r # s => sub[r].token # sub[s].token
    /\ Owned(r) /\ Owned(s) /\ SameLane(r, s) /\ sub[r].epoch = sub[s].epoch => r = s

Waits(s) == sub[s].state \in BeforeInputApplied
Begun(s) == sub[s].state = "running" \/ OwnsLane(s, sub[s].token)

\* FIFO execution: once a row runs or owns its lane, no earlier row of the
\* Thread is still waiting to start, whatever joins, reverts, parks, aborts
\* and handoffs happened in between.
NoOvertaking ==
  \A r, s \in Submission : Earlier(r, s) /\ Begun(s) => ~Waits(r)

\* The reserved outcome wins: a row with a reservation can only be on its way
\* to settled, is never suspended, parked or handed back to a queue, and
\* settles with exactly the reserved outcome.
ReservationWins ==
  \A s \in Submission :
    /\ sub[s].reserved # None <=> sub[s].state \in {"terminalizing", "settled"}
    /\ sub[s].state = "settled" <=> sub[s].outcome # None
    /\ sub[s].state = "settled" => sub[s].outcome = sub[s].reserved.outcome

\* A joining or joined row hangs on an earlier row of its own Thread, owns
\* nothing itself, and only a row whose input the host consumed is joined; a
\* row that still has to start hangs on no host and has consumed no input.
JoinsAreAnchored ==
  \A s \in Submission :
    /\ sub[s].state \in {"joining", "joined"} =>
         /\ sub[s].host \in Submission
         /\ Earlier(sub[s].host, s)
         /\ ~OwnsLane(s, sub[s].token)
         /\ sub[s].applied <=> sub[s].state = "joined"
    /\ sub[s].state \in {"admitted", "ready", "running"} =>
         sub[s].host = None /\ ~sub[s].applied

\* A suspended row holds no ownership and still lacks a decision: the last
\* approval and the suspend cannot miss each other.
SuspendedAwaitsDecision ==
  \A s \in Submission :
    sub[s].state = "suspended" =>
      /\ ~Owned(s)
      /\ sub[s].waiting.on # {}
      /\ sub[s].waiting.kind = "approval" => ~(sub[s].waiting.on \subseteq sub[s].decided)

\* Sealing a worker leaves no work behind: in a stopped Thread every active
\* row carries an abort intent or was consumed by a host that has settled.
StopIsComplete ==
  \A s \in Submission :
    Active(s) /\ stopped[adm[s].thread] # "open" =>
      \/ sub[s].abort
      \/ /\ sub[s].applied
         /\ sub[s].host \in Submission
         /\ sub[sub[s].host].state = "settled"

\* Admission is once per key, in a gapless queue, with one worker origin per
\* Thread and at most one unsettled row per admission group.
AdmissionIsExact ==
  /\ \A t \in Thread : {adm[s].seq : s \in InLane(t)} = 1..(next[t] - 1)
  /\ \A r, s \in Submission :
       Present(r) /\ Present(s) /\ SameLane(r, s) /\ r # s =>
         /\ adm[r].seq # adm[s].seq
         /\ adm[r].key # adm[s].key
         /\ adm[r].origin = adm[s].origin
         /\ adm[r].group # None /\ adm[r].group = adm[s].group => ~(Active(r) /\ Active(s))

Durable ==
  /\ \A s \in Submission :
       /\ Present(s) => adm'[s] = adm[s]
       /\ sub[s].state = "settled" => sub'[s] = sub[s]
       /\ sub[s].reserved # None => sub'[s].reserved = sub[s].reserved
       /\ sub[s].abort => sub'[s].abort
       /\ sub[s].applied => sub'[s].applied
       /\ sub[s].decided \subseteq sub'[s].decided
       /\ sub[s].resolved \subseteq sub'[s].resolved
  /\ \A t \in Thread :
       /\ epoch[t] <= epoch'[t]
       /\ stopped[t] # "open" => stopped'[t] = stopped[t]

\* What the ledger has decided stays decided: a settled row never changes
\* again, and no step withdraws a reservation, an abort intent, a consumed
\* input, a decision or a seal.
DecisionsAreDurable == [][Durable]_vars

\* The ledger implements the promise it is built to keep.
HomeOf(s) == IF Present(s) THEN adm[s].thread ELSE None
PhaseOf(s) ==
  CASE ~Present(s) -> "none"
    [] sub[s].state = "settled" -> "settled"
    [] Active(s) /\ sub[s].reserved # None -> "decided"
    [] Active(s) /\ sub[s].reserved = None -> "owed"
VerdictOf(s) == IF sub[s].reserved = None THEN None ELSE sub[s].reserved.outcome

Promise == INSTANCE AcceptedWork WITH
  Verdict <- Outcomes,
  home <- [s \in Submission |-> HomeOf(s)],
  phase <- [s \in Submission |-> PhaseOf(s)],
  verdict <- [s \in Submission |-> VerdictOf(s)],
  sealed <- [t \in Thread |-> stopped[t] # "open"]

\* Accepted work is accepted once, owed one settlement, and settles with its
\* one verdict; a sealed Thread accepts nothing more (AcceptedWork.tla).
KeepsPromise == Promise!Spec
=============================================================================
