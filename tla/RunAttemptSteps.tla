-------------------------- MODULE RunAttemptSteps --------------------------
(***************************************************************************)
(* Machine-checked proofs about the coordinator, for any number of workers, *)
(* recovery passes, Submissions, claims, faults and sweeps.                 *)
(*                                                                          *)
(* Every step is a step of the ledger and of the log or leaves them alone,  *)
(* so what SubmissionLedgerProofs and ThreadLogProofs show of the two       *)
(* stores, whatever their callers do, holds of them here.                   *)
(***************************************************************************)
EXTENDS RunAttempt, TLAPS

LP == INSTANCE SubmissionLedgerProofs WITH
  Thread <- {Lane}, Key <- Submission, Group <- {}, Origin <- {"none"},
  Call <- {Call}, JoinLimit <- 0, MaxEpoch <- [t \in {Lane} |-> MaxEpoch]
TP == INSTANCE ThreadLogProofs WITH
  Thread <- {Lane}, Batch <- Identity, Record <- Identity, Body <- Saying,
  MaxBatches <- Rows * Cardinality(Kind) + MaxForeign

-----------------------------------------------------------------------------
(***************************************************************************)
(* The two stores, as their own proofs know them.                           *)
(***************************************************************************)
LEMMA LedgerConstants == LP!ConstantsAssumption
<1>1. {"none"} \subseteq LP!Origins /\ Outcome \subseteq LP!Outcomes /\ {Lane} # {}
  BY DEF LP!Origins, LP!Outcomes, Outcome
<1>2. [t \in {Lane} |-> MaxEpoch] \in [{Lane} -> Nat]
  BY AttemptConstants
<1>3. None \notin Submission \cup Submission \cup {} \cup Outcome \cup LP!Terminal
  BY AttemptConstants DEF Submission, Outcome, LP!Terminal
<1>4. None \notin [outcome : Outcome, ends : LP!Terminal \cup {None}]
  <2>1. LP!Terminal \cup {None} = {"completed", "failed", "cancelled", None}
    BY DEF LP!Terminal
  <2>. QED
    BY <2>1, AttemptConstants DEF Outcome
<1>. QED
  BY <1>1, <1>2, <1>3, <1>4 DEF LP!ConstantsAssumption

LEMMA SameLedgerState ==
  /\ L!TypeOK <=> LP!TypeOK
  /\ L!ReservationWins <=> LP!ReservationWins
  /\ L!vars = LP!vars
  /\ \A s, k : L!OwnsLane(s, k) <=> LP!OwnsLane(s, k)
  /\ \A s : (L!Active(s) <=> LP!Active(s)) /\ (L!Owned(s) <=> LP!Owned(s))
     /\ (L!IsHead(s) <=> LP!IsHead(s))
<1>1. L!TypeOK <=> LP!TypeOK
  BY DEF L!TypeOK, LP!TypeOK, L!Admission, LP!Admission, L!Row, LP!Row, L!Origins, LP!Origins,
     L!SubmissionState, LP!SubmissionState, L!BeforeTerminalizing, LP!BeforeTerminalizing,
     L!BeforeInputApplied, LP!BeforeInputApplied, L!Reservation, LP!Reservation, L!Waiting,
     LP!Waiting, L!Terminal, LP!Terminal
<1>2. L!ReservationWins <=> LP!ReservationWins
  BY DEF L!ReservationWins, LP!ReservationWins
<1>3. L!vars = LP!vars
  BY DEF L!vars, LP!vars
<1>4. ASSUME NEW s, NEW k PROVE L!OwnsLane(s, k) <=> LP!OwnsLane(s, k)
  BY DEF L!OwnsLane, LP!OwnsLane, L!Owned, LP!Owned
<1>5. ASSUME NEW s
      PROVE  (L!Active(s) <=> LP!Active(s)) /\ (L!Owned(s) <=> LP!Owned(s))
             /\ (L!IsHead(s) <=> LP!IsHead(s))
  BY DEF L!Active, LP!Active, L!Owned, LP!Owned, L!IsHead, LP!IsHead, L!Candidate, LP!Candidate,
     L!Parked, LP!Parked, L!Earlier, LP!Earlier, L!Present, LP!Present, L!SameLane, LP!SameLane
<1>. QED
  BY <1>1, <1>2, <1>3, <1>4, <1>5

LEMMA SameLedgerCalls ==
  ASSUME NEW s, NEW k, NEW o
  PROVE  /\ L!Claim(s) <=> LP!Claim(s)
         /\ L!MarkInputApplied(s, k) <=> LP!MarkInputApplied(s, k)
         /\ L!RenewOwnership(s, k) <=> LP!RenewOwnership(s, k)
         /\ L!ReleaseOwnership(s, k) <=> LP!ReleaseOwnership(s, k)
         /\ L!ReserveSettlement(s, k, o, None) <=> LP!ReserveSettlement(s, k, o, None)
         /\ L!FinalizeSettlement(s) <=> LP!FinalizeSettlement(s)
         /\ L!MarkUnknown(s, {Call}) <=> LP!MarkUnknown(s, {Call})
         /\ L!RecordUnknownResolution(s, Call) <=> LP!RecordUnknownResolution(s, Call)
         /\ L!RequestAbort(s) <=> LP!RequestAbort(s)
         /\ L!LeaseExpires(s) <=> LP!LeaseExpires(s)
<1>0. \A r, t : (L!OwnsLane(r, t) <=> LP!OwnsLane(r, t)) /\ (L!Owned(r) <=> LP!Owned(r))
                /\ (L!Active(r) <=> LP!Active(r)) /\ (L!IsHead(r) <=> LP!IsHead(r))
  BY SameLedgerState
<1>1. L!Claim(s) <=> LP!Claim(s)
  BY <1>0 DEF L!Claim, LP!Claim, L!LaneIdle, LP!LaneIdle, L!Grant, LP!Grant, L!BlockedHeadStates,
     LP!BlockedHeadStates, L!InLane, LP!InLane, L!Present, LP!Present
<1>2. L!MarkInputApplied(s, k) <=> LP!MarkInputApplied(s, k)
  BY <1>0 DEF L!MarkInputApplied, LP!MarkInputApplied, L!BeforeInputApplied, LP!BeforeInputApplied
<1>3. L!RenewOwnership(s, k) <=> LP!RenewOwnership(s, k)
  BY <1>0 DEF L!RenewOwnership, LP!RenewOwnership
<1>4. L!ReleaseOwnership(s, k) <=> LP!ReleaseOwnership(s, k)
  BY <1>0 DEF L!ReleaseOwnership, LP!ReleaseOwnership
<1>5. L!ReserveSettlement(s, k, o, None) <=> LP!ReserveSettlement(s, k, o, None)
  BY <1>0 DEF L!ReserveSettlement, LP!ReserveSettlement, L!JoinedSettlement, LP!JoinedSettlement,
     L!QueuedAbortSettlement, LP!QueuedAbortSettlement, L!Present, LP!Present,
     L!BeforeTerminalizing, LP!BeforeTerminalizing, L!BeforeInputApplied, LP!BeforeInputApplied
<1>6. L!FinalizeSettlement(s) <=> LP!FinalizeSettlement(s)
  BY <1>0 DEF L!FinalizeSettlement, LP!FinalizeSettlement, L!Present, LP!Present, L!Seals, LP!Seals,
     L!PendingNewer, LP!PendingNewer, L!SameLane, LP!SameLane, L!JoinedTo, LP!JoinedTo
<1>7. L!MarkUnknown(s, {Call}) <=> LP!MarkUnknown(s, {Call})
  BY <1>0 DEF L!MarkUnknown, LP!MarkUnknown
<1>8. L!RecordUnknownResolution(s, Call) <=> LP!RecordUnknownResolution(s, Call)
  BY <1>0 DEF L!RecordUnknownResolution, LP!RecordUnknownResolution
<1>9. L!RequestAbort(s) <=> LP!RequestAbort(s)
  BY <1>0 DEF L!RequestAbort, LP!RequestAbort
<1>10. L!LeaseExpires(s) <=> LP!LeaseExpires(s)
  BY DEF L!LeaseExpires, LP!LeaseExpires
<1>. QED
  BY <1>1, <1>2, <1>3, <1>4, <1>5, <1>6, <1>7, <1>8, <1>9, <1>10

LEMMA SameLog ==
  /\ T!TypeOK <=> TP!TypeOK
  /\ T!HistoryIsFenced <=> TP!HistoryIsFenced
  /\ \A e : T!Materialize(Lane, e) <=> TP!Materialize(Lane, e)
  /\ \A e, n, q : T!AppendBatch(Lane, e, n, q) <=> TP!AppendBatch(Lane, e, n, q)
<1>1. T!TypeOK <=> TP!TypeOK
  BY DEF T!TypeOK, TP!TypeOK, T!Entry, TP!Entry, T!Unmaterialized, TP!Unmaterialized
<1>2. T!HistoryIsFenced <=> TP!HistoryIsFenced
  BY DEF T!HistoryIsFenced, TP!HistoryIsFenced
<1>3. \A e : T!Materialize(Lane, e) <=> TP!Materialize(Lane, e)
  BY DEF T!Materialize, TP!Materialize
<1>4. \A e, n, q : T!AppendBatch(Lane, e, n, q) <=> TP!AppendBatch(Lane, e, n, q)
  BY DEF T!AppendBatch, TP!AppendBatch, T!Accepts, TP!Accepts, T!Fenced, TP!Fenced, T!Holds,
     TP!Holds, T!TailOf, TP!TailOf, T!Fits, TP!Fits, T!HoldsRecordOf, TP!HoldsRecordOf
<1>. QED
  BY <1>1, <1>2, <1>3, <1>4

-----------------------------------------------------------------------------
(***************************************************************************)
(* What the proofs use of the ledger: its own invariants, the admissions,    *)
(* which are those of Init for good, and the few states a row can be in when *)
(* nothing joins, pauses or waits to be ready.                               *)
(***************************************************************************)
Admitted ==
  adm = [s \in Submission |-> [thread |-> Lane, key |-> s, group |-> None,
                               origin |-> "none", seq |-> s]]
PlainStates == {"ready", "running", "input-applied", "unknown", "terminalizing", "settled"}
LedgerInv ==
  /\ LP!TypeOK
  /\ LP!Counted
  /\ LP!ReservationWins
  /\ Admitted
  /\ \A s \in Submission : sub[s].state \in PlainStates

LEMMA LedgerInit == Init => LedgerInv
<1>. SUFFICES ASSUME Init PROVE LedgerInv
  OBVIOUS
<1>. DEFINE row == [LP!Fresh EXCEPT !.state = "ready"]
<1>1. L!Fresh = LP!Fresh
  BY DEF L!Fresh, LP!Fresh, L!NotWaiting, LP!NotWaiting
<1>2. sub = [s \in Submission |-> row]
  BY <1>1 DEF Init
<1>3. row \in LP!Row
  BY LP!FreshInRow, LP!RowUpdates, LedgerConstants
<1>4. /\ row.state = "ready" /\ row.token = 0 /\ ~row.live /\ row.reserved = None
      /\ row.outcome = None
  BY DEF LP!Fresh
<1>. HIDE DEF row
<1>5. Admitted /\ \A s \in Submission : adm[s] \in LP!Admission
  <2>1. "none" \in LP!Origins
    BY DEF LP!Origins
  <2>. QED
    BY <2>1, AttemptConstants DEF Init, Admitted, LP!Admission, Submission
<1>6. LP!TypeOK
  <2>1. adm \in [Submission -> LP!Admission]
    BY <1>5 DEF Init
  <2>2. next \in [{Lane} -> Nat \ {0}]
    BY AttemptConstants DEF Init
  <2>. QED
    BY <1>2, <1>3, <2>1, <2>2 DEF Init, LP!TypeOK
<1>7. LP!Counted
  <2>1. minted = 0 /\ \A s \in Submission : adm[s].seq = s /\ adm[s].thread = Lane
        /\ next[Lane] = Rows + 1
    BY DEF Init
  <2>2. \A s \in Submission : s < Rows + 1
    BY AttemptConstants DEF Submission
  <2>. QED
    BY <1>2, <1>4, <2>1, <2>2 DEF LP!Counted, LP!Owned
<1>8. LP!ReservationWins
  BY <1>2, <1>4 DEF LP!ReservationWins
<1>. QED
  BY <1>2, <1>4, <1>5, <1>6, <1>7, <1>8 DEF LedgerInv, PlainStates

\* A row as far as the proofs look into it, before and after a step.
SameRow(r) ==
  /\ sub'[r].state = sub[r].state
  /\ sub'[r].token = sub[r].token /\ sub'[r].epoch = sub[r].epoch
  /\ sub'[r].reserved = sub[r].reserved /\ sub'[r].applied = sub[r].applied
  /\ sub'[r].outcome = sub[r].outcome

LEMMA RowTypes ==
  ASSUME LedgerInv, NEW r \in Submission
  PROVE  /\ sub[r] \in LP!Row
         /\ sub[r].token \in Nat /\ sub[r].epoch \in Nat
         /\ sub[r].reserved \in LP!Reservation \cup {None}
         /\ sub[r].applied \in BOOLEAN /\ sub[r].abort \in BOOLEAN
         /\ sub[r].outcome \in Outcome \cup {None}
         /\ adm[r].thread = Lane /\ adm[r].seq = r
         /\ epoch[Lane] \in Nat /\ minted \in Nat
  BY DEF LedgerInv, Admitted, LP!TypeOK, LP!Row

LEMMA ClaimEffect ==
  ASSUME LedgerInv, NEW s \in Submission, L!Claim(s)
  PROVE  /\ sub[s].state \notin {"settled"}
         /\ sub'[s].state = IF sub[s].state = "ready" THEN "running" ELSE sub[s].state
         /\ sub'[s].token = minted + 1 /\ sub'[s].epoch = epoch[Lane] + 1
         /\ sub'[s].reserved = sub[s].reserved /\ sub'[s].applied = sub[s].applied
         /\ sub'[s].outcome = sub[s].outcome
         /\ \A r \in Submission \ {s} : sub'[r] = sub[r]
         /\ epoch'[Lane] = epoch[Lane] + 1 /\ minted' = minted + 1 /\ adm' = adm
         /\ \A r \in Submission : r < s => sub[r].state \in {"settled", "unknown"}
         /\ LP!Next
<1>1. LP!Claim(s)
  BY SameLedgerCalls
<1>2. LP!Grant(s) /\ LP!IsHead(s)
  BY <1>1 DEF LP!Claim
<1>3. adm[s].thread = Lane
  BY RowTypes
<1>4. LP!Next
  BY <1>1 DEF LP!Next, LP!Ownership
<1>5. /\ sub[s].state \notin {"settled"}
      /\ \A r \in Submission : r < s => sub[r].state \in {"settled", "unknown"}
  BY <1>2 DEF LP!IsHead, LP!Candidate, LP!Active, LP!Parked, LP!Earlier, LP!Present, LP!SameLane,
     LedgerInv, Admitted, PlainStates
<1>6. LP!TypeOK
  BY DEF LedgerInv
<1>. QED
  BY <1>2, <1>3, <1>4, <1>5, <1>6, LP!GrantEffect, LedgerConstants

LEMMA MarkEffect ==
  ASSUME LedgerInv, NEW s \in Submission, NEW k \in 0..minted, L!MarkInputApplied(s, k)
  PROVE  /\ sub'[s].applied
         /\ sub'[s].state \in {sub[s].state, "input-applied"} /\ sub'[s].state # "ready"
         /\ sub[s].state = "settled" => sub'[s].state = "settled"
         /\ sub'[s].token = sub[s].token /\ sub'[s].epoch = sub[s].epoch
         /\ sub'[s].reserved = sub[s].reserved /\ sub'[s].outcome = sub[s].outcome
         /\ \A r \in Submission \ {s} : sub'[r] = sub[r]
         /\ UNCHANGED <<adm, epoch, minted>>
         /\ LP!Next
<1>1. LP!MarkInputApplied(s, k)
  BY SameLedgerCalls
<1>2. LP!Next
  BY <1>1 DEF LP!Next, LP!Ownership
<1>. QED
  BY <1>1, <1>2, RowTypes DEF LP!MarkInputApplied, LP!BeforeInputApplied, LedgerInv, LP!TypeOK,
     LP!Row, PlainStates

LEMMA RenewEffect ==
  ASSUME LedgerInv, NEW s \in Submission, NEW k \in 0..minted, L!RenewOwnership(s, k)
  PROVE  (\A r \in Submission : SameRow(r)) /\ UNCHANGED <<adm, epoch, minted>> /\ LP!Next
<1>1. LP!RenewOwnership(s, k)
  BY SameLedgerCalls
<1>2. LP!Next
  BY <1>1 DEF LP!Next, LP!Ownership
<1>. QED
  BY <1>1, <1>2, RowTypes DEF LP!RenewOwnership, LedgerInv, LP!TypeOK, LP!Row, SameRow

LEMMA ExpiryEffect ==
  ASSUME LedgerInv, NEW s \in Submission, L!LeaseExpires(s)
  PROVE  (\A r \in Submission : SameRow(r)) /\ UNCHANGED <<adm, epoch, minted>> /\ LP!Next
<1>1. LP!LeaseExpires(s)
  BY SameLedgerCalls
<1>2. LP!Next
  BY <1>1 DEF LP!Next, LP!Ownership
<1>. QED
  BY <1>1, <1>2, RowTypes DEF LP!LeaseExpires, LedgerInv, LP!TypeOK, LP!Row, SameRow

LEMMA AbortEffect ==
  ASSUME LedgerInv, NEW s \in Submission, L!RequestAbort(s)
  PROVE  (\A r \in Submission : SameRow(r)) /\ UNCHANGED <<adm, epoch, minted>> /\ LP!Next
<1>1. LP!RequestAbort(s)
  BY SameLedgerCalls
<1>2. LP!Next
  BY <1>1 DEF LP!Next, LP!Settling
<1>. QED
  BY <1>1, <1>2, RowTypes DEF LP!RequestAbort, LedgerInv, LP!TypeOK, LP!Row, SameRow

LEMMA ReleaseEffect ==
  ASSUME LedgerInv, NEW s \in Submission, NEW k \in 0..minted, L!ReleaseOwnership(s, k)
  PROVE  /\ sub'[s].token = 0 /\ sub'[s].state = sub[s].state
         /\ sub'[s].reserved = sub[s].reserved /\ sub'[s].applied = sub[s].applied
         /\ sub'[s].outcome = sub[s].outcome
         /\ \A r \in Submission \ {s} : sub'[r] = sub[r]
         /\ UNCHANGED <<adm, epoch, minted>>
         /\ LP!Next
<1>1. LP!ReleaseOwnership(s, k)
  BY SameLedgerCalls
<1>2. LP!Next
  BY <1>1 DEF LP!Next, LP!Ownership
<1>. QED
  BY <1>1, <1>2, RowTypes DEF LP!ReleaseOwnership, LedgerInv, LP!TypeOK, LP!Row

\* Only its owner, or anybody while it was never claimed, reserves a row.
LEMMA ReservedEffect ==
  ASSUME LedgerInv, NEW s \in Submission, NEW k \in 0..minted, NEW o \in Outcome,
         L!ReserveSettlement(s, k, o, None)
  PROVE  /\ L!OwnsLane(s, k) \/ (sub[s].state = "ready" /\ o = "aborted")
         /\ sub[s].reserved = None
         /\ sub'[s].reserved # None /\ sub'[s].reserved.outcome = o
         /\ sub'[s].state = "terminalizing" /\ sub[s].state # "settled"
         /\ sub'[s].token = sub[s].token /\ sub'[s].epoch = sub[s].epoch
         /\ sub'[s].applied = sub[s].applied /\ sub'[s].outcome = sub[s].outcome
         /\ \A r \in Submission \ {s} : sub'[r] = sub[r]
         /\ UNCHANGED <<adm, epoch, minted>>
         /\ LP!Next
<1>1. LP!ReserveSettlement(s, k, o, None)
  BY SameLedgerCalls
<1>2. LP!Next
  <2>1. None \in LP!EndsOf(s, o)
    BY RowTypes DEF LP!EndsOf, LedgerInv, Admitted
  <2>. QED
    BY <1>1, <2>1 DEF LP!Next, LP!Settling
<1>3. sub[s].reserved = None => sub[s].state \in PlainStates \ {"terminalizing", "settled"}
  BY DEF LedgerInv, LP!ReservationWins
<1>4. L!OwnsLane(s, k) \/ (sub[s].state = "ready" /\ o = "aborted")
  BY <1>1, <1>3, SameLedgerState DEF LP!ReserveSettlement, LP!JoinedSettlement,
     LP!QueuedAbortSettlement,
     PlainStates
<1>5. [outcome |-> o, ends |-> None] # None
  BY AttemptConstants DEF Outcome
<1>6. LP!TypeOK
  BY DEF LedgerInv
<1>. DEFINE re == [outcome |-> o, ends |-> None]
<1>7. re # None /\ re.outcome = o
  BY <1>5
<1>. HIDE DEF re
<1>8. /\ sub[s].reserved = None
      /\ sub'[s].reserved = re
      /\ sub'[s].state = IF sub[s].state \in LP!BeforeTerminalizing THEN "terminalizing"
                         ELSE sub[s].state
      /\ sub'[s].token = sub[s].token /\ sub'[s].epoch = sub[s].epoch
      /\ sub'[s].applied = sub[s].applied /\ sub'[s].outcome = sub[s].outcome
      /\ \A r \in Submission \ {s} : sub'[r] = sub[r]
      /\ UNCHANGED <<adm, epoch, minted>>
  BY <1>1, <1>6, LP!ReserveEffect, LedgerConstants DEF re
<1>9. sub'[s].state = "terminalizing" /\ sub[s].state # "settled"
  BY <1>3, <1>8 DEF PlainStates, LP!BeforeTerminalizing, LP!BeforeInputApplied
<1>. QED
  BY <1>2, <1>4, <1>7, <1>8, <1>9

LEMMA FinalizedEffect ==
  ASSUME LedgerInv, NEW s \in Submission, L!FinalizeSettlement(s)
  PROVE  /\ sub[s].reserved # None /\ sub'[s].reserved = sub[s].reserved
         /\ sub[s].state # "settled"
         /\ sub'[s].state = "settled" /\ sub'[s].outcome = sub[s].reserved.outcome
         /\ sub'[s].token = 0 /\ sub'[s].applied = sub[s].applied
         /\ \A r \in Submission \ {s} : SameRow(r)
         /\ UNCHANGED <<adm, epoch, minted>>
         /\ LP!Next
<1>1. LP!FinalizeSettlement(s)
  BY SameLedgerCalls
<1>2. LP!Next
  BY <1>1 DEF LP!Next, LP!Settling
<1>3. LP!TypeOK
  BY DEF LedgerInv
<1>. QED
  BY <1>1, <1>2, <1>3, LP!FinalizeEffect, LedgerConstants DEF SameRow, LP!FinalizeSettlement

LEMMA ParkEffect ==
  ASSUME LedgerInv, NEW s \in Submission, L!MarkUnknown(s, {Call})
  PROVE  /\ sub[s].reserved = None /\ sub'[s].state = "unknown" /\ sub[s].state # "settled"
         /\ sub'[s].reserved = sub[s].reserved /\ sub'[s].applied = sub[s].applied
         /\ sub'[s].token = sub[s].token /\ sub'[s].epoch = sub[s].epoch
         /\ sub'[s].outcome = sub[s].outcome
         /\ \A r \in Submission \ {s} : sub'[r] = sub[r]
         /\ UNCHANGED <<adm, epoch, minted>>
         /\ LP!Next
<1>1. LP!MarkUnknown(s, {Call})
  BY SameLedgerCalls
<1>2. LP!Next
  BY <1>1 DEF LP!Next, LP!Pausing
<1>. QED
  BY <1>1, <1>2, RowTypes DEF LP!MarkUnknown, LP!Active, LedgerInv, LP!TypeOK, LP!Row

LEMMA ResolveEffect ==
  ASSUME LedgerInv, NEW s \in Submission, L!RecordUnknownResolution(s, Call)
  PROVE  /\ sub'[s].state = sub[s].state \/ (sub[s].state = "unknown"
            /\ sub'[s].state = "input-applied")
         /\ sub'[s].reserved = sub[s].reserved /\ sub'[s].applied = sub[s].applied
         /\ sub'[s].token = sub[s].token /\ sub'[s].epoch = sub[s].epoch
         /\ sub'[s].outcome = sub[s].outcome
         /\ \A r \in Submission \ {s} : sub'[r] = sub[r]
         /\ UNCHANGED <<adm, epoch, minted>>
         /\ LP!Next
<1>1. LP!RecordUnknownResolution(s, Call)
  BY SameLedgerCalls
<1>2. LP!Next
  BY <1>1 DEF LP!Next, LP!Pausing
<1>3. LP!TypeOK
  BY DEF LedgerInv
<1>. QED
  BY <1>1, <1>2, <1>3, LP!ResolutionEffect, LedgerConstants

-----------------------------------------------------------------------------
(***************************************************************************)
(* What the proofs use of the log.                                          *)
(***************************************************************************)
LEMMA LogTypes ==
  ASSUME T!TypeOK
  PROVE  /\ fence[Lane] \in Nat \cup {-1}
         /\ log[Lane] \in Seq(TP!Entry) /\ Length \in Nat
         /\ \A i \in 1..Length : log[Lane][i].epoch \in Nat /\ log[Lane][i].body \in Saying
<1>1. TP!TypeOK
  BY SameLog
<1>2. fence[Lane] \in Nat \cup {-1} /\ log[Lane] \in Seq(TP!Entry)
  BY <1>1 DEF TP!TypeOK, TP!Unmaterialized
<1>3. \A i \in 1..Length : log[Lane][i] \in TP!Entry
  BY <1>2 DEF Length
<1>. QED
  BY <1>2, <1>3 DEF TP!Entry, Length

LEMMA IdType == \A k \in Kind, s \in Submission : Id(k, s) \in Identity
  BY DEF Id, Identity

LEMMA MaterializeEffect ==
  ASSUME T!TypeOK, NEW e \in Nat, T!Materialize(Lane, e)
  PROVE  /\ fence[Lane] < e /\ fence'[Lane] = e /\ log' = log
         /\ TP!Next /\ T!TypeOK'
<1>1. TP!TypeOK /\ TP!Materialize(Lane, e)
  BY SameLog
<1>2. TP!Next
  BY <1>1 DEF TP!Next
<1>3. TP!TypeOK'
  BY <1>1, <1>2, TP!TypeStep
<1>4. T!TypeOK'
  BY <1>3 DEF T!TypeOK, TP!TypeOK, T!Entry, TP!Entry, T!Unmaterialized, TP!Unmaterialized
<1>. QED
  BY <1>1, <1>2, <1>4 DEF TP!Materialize, TP!TypeOK

\* A batch that lands is the last of the log, under the fence it was sent with.
LEMMA LandEffect ==
  ASSUME T!TypeOK, NEW e \in Nat, NEW n \in Nat, NEW id \in Identity, NEW b \in Saying,
         T!AppendBatch(Lane, e, n, [batch |-> id, records |-> {id}, body |-> b])
  PROVE  /\ e = fence[Lane] /\ n = Length /\ fence' = fence
         /\ Length' = Length + 1
         /\ \A i \in 1..Length : log'[Lane][i] = log[Lane][i] /\ log[Lane][i].batch # id
         /\ log'[Lane][Length + 1].batch = id /\ log'[Lane][Length + 1].body = b
         /\ log'[Lane][Length + 1].epoch = e
         /\ TP!Next /\ T!TypeOK'
<1>. DEFINE q == [batch |-> id, records |-> {id}, body |-> b]
<1>1. TP!TypeOK /\ TP!AppendBatch(Lane, e, n, q)
  BY SameLog
<1>2. q \in TP!Request /\ q.records # {} /\ q.batch = id /\ q.body = b
  BY DEF TP!Request
<1>. HIDE DEF q
<1>3. e = fence[Lane] /\ n = Length /\ \A i \in 1..Length : log[Lane][i].batch # id
  BY <1>1, <1>2 DEF TP!AppendBatch, TP!Accepts, TP!Fenced, TP!TailOf, TP!Holds, Length
<1>4. n \in 0..TP!TailOf(Lane)
  BY <1>3, LogTypes DEF TP!TailOf, Length
<1>5. TP!Next
  BY <1>1, <1>2, <1>4 DEF TP!Next
<1>6. /\ Len(log'[Lane]) = Len(log[Lane]) + 1
      /\ log'[Lane][Len(log[Lane]) + 1] = TP!Stamped(e, q)
      /\ \A i \in 1..Len(log[Lane]) : log'[Lane][i] = log[Lane][i]
      /\ fence' = fence
  BY <1>1, <1>2, TP!AppendAddsLast
<1>7. TP!Stamped(e, q).batch = id /\ TP!Stamped(e, q).body = b /\ TP!Stamped(e, q).epoch = e
  BY <1>2 DEF TP!Stamped
<1>8. TP!TypeOK'
  BY <1>1, <1>5, TP!TypeStep
<1>9. T!TypeOK'
  BY <1>8 DEF T!TypeOK, TP!TypeOK, T!Entry, TP!Entry, T!Unmaterialized, TP!Unmaterialized
<1>. QED
  BY <1>3, <1>5, <1>6, <1>7, <1>9 DEF Length

\* What is recorded of a Submission, seen through the places of its records.
LEMMA Places ==
  /\ \A k \in Kind : \A s : k \in Recorded(s) <=> At(k, s) # {}
  /\ \A k, s, i : i \in At(k, s) <=> i \in 1..Length /\ log[Lane][i].batch = Id(k, s)
  /\ \A s : Recorded(s) \subseteq Kind
  BY DEF Recorded, At

\* A record of s that lands leaves everything else of the history in place.
LEMMA LandRecorded ==
  ASSUME T!TypeOK, NEW e \in Nat, NEW n \in Nat, NEW k \in Kind, NEW s \in Submission,
         NEW b \in Saying,
         T!AppendBatch(Lane, e, n, [batch |-> Id(k, s), records |-> {Id(k, s)}, body |-> b])
  PROVE  /\ k \notin Recorded(s) /\ Recorded(s)' = Recorded(s) \cup {k}
         /\ \A r \in Submission \ {s} : Recorded(r)' = Recorded(r)
         /\ At(k, s)' = {Length + 1}
         /\ \A l \in Kind, r \in Submission : l # k \/ r # s => At(l, r)' = At(l, r)
         /\ e = fence[Lane] /\ n = Length /\ fence' = fence /\ Length' = Length + 1
         /\ \A i \in 1..Length : log'[Lane][i] = log[Lane][i]
         /\ log'[Lane][Length + 1].body = b
         /\ TP!Next /\ T!TypeOK'
<1>. DEFINE id == Id(k, s)
<1>1. id \in Identity
  BY IdType
<1>2. \A l, r : Id(l, r) = id <=> l = k /\ r = s
  BY DEF Id
<1>. HIDE DEF id
<1>3. /\ e = fence[Lane] /\ n = Length /\ fence' = fence
      /\ Length' = Length + 1
      /\ \A i \in 1..Length : log'[Lane][i] = log[Lane][i] /\ log[Lane][i].batch # id
      /\ log'[Lane][Length + 1].batch = id /\ log'[Lane][Length + 1].body = b
      /\ TP!Next /\ T!TypeOK'
  <2>1. T!AppendBatch(Lane, e, n, [batch |-> id, records |-> {id}, body |-> b])
    BY DEF id
  <2>. QED
    BY <1>1, <2>1, LandEffect
<1>4. Length \in Nat
  BY LogTypes
<1>5. \A l, r : At(l, r)' = {i \in 1..(Length + 1) : log'[Lane][i].batch = Id(l, r)}
  BY <1>3 DEF At
<1>6. \A l, r : l # k \/ r # s => At(l, r)' = At(l, r)
  <2>. SUFFICES ASSUME NEW l, NEW r, l # k \/ r # s PROVE At(l, r)' = At(l, r)
    OBVIOUS
  <2>1. Id(l, r) # id
    BY <1>2
  <2>2. \A i : i \in 1..(Length + 1) /\ log'[Lane][i].batch = Id(l, r)
               <=> i \in 1..Length /\ log[Lane][i].batch = Id(l, r)
    BY <1>3, <1>4, <2>1
  <2>. QED
    BY <1>5, <2>2 DEF At
<1>7. At(k, s) = {} /\ At(k, s)' = {Length + 1}
  <2>1. At(k, s) = {}
    BY <1>3 DEF At, id
  <2>2. \A i : i \in 1..(Length + 1) /\ log'[Lane][i].batch = id <=> i = Length + 1
    BY <1>3, <1>4
  <2>. QED
    BY <1>5, <2>1, <2>2 DEF id
<1>8. \A l \in Kind : \A r : l \in Recorded(r)' <=> At(l, r)' # {}
  BY DEF Recorded, At
<1>9. \A r : Recorded(r)' \subseteq Kind
  BY DEF Recorded
<1>10. \A r \in Submission \ {s} : Recorded(r)' = Recorded(r)
  <2>. SUFFICES ASSUME NEW r \in Submission \ {s} PROVE Recorded(r)' = Recorded(r)
    OBVIOUS
  <2>1. \A l \in Kind : l \in Recorded(r)' <=> l \in Recorded(r)
    BY <1>6, <1>8, Places
  <2>. QED
    BY <1>9, <2>1, Places
<1>11. k \notin Recorded(s) /\ Recorded(s)' = Recorded(s) \cup {k}
  <2>1. \A l \in Kind : l \in Recorded(s)' <=> l \in Recorded(s) \/ l = k
    BY <1>6, <1>7, <1>8, Places
  <2>2. k \notin Recorded(s)
    BY <1>7, Places
  <2>. QED
    BY <1>9, <2>1, <2>2, Places
<1>. QED
  BY <1>3, <1>6, <1>7, <1>10, <1>11

\* Records of others land without touching what Runs recorded.
LEMMA LandOther ==
  ASSUME T!TypeOK, NEW e \in Nat, NEW n \in Nat, NEW i \in 1..MaxForeign, NEW b \in Saying,
         T!AppendBatch(Lane, e, n, [batch |-> [kind |-> "other", of |-> i],
                                    records |-> {[kind |-> "other", of |-> i]}, body |-> b])
  PROVE  /\ \A r \in Submission : Recorded(r)' = Recorded(r)
         /\ \A l \in Kind, r \in Submission : At(l, r)' = At(l, r)
         /\ fence' = fence /\ Length' = Length + 1
         /\ \A j \in 1..Length : log'[Lane][j] = log[Lane][j]
         /\ TP!Next /\ T!TypeOK'
<1>. DEFINE id == [kind |-> "other", of |-> i]
<1>1. id \in Identity
  BY DEF Identity
<1>2. \A l \in Kind : \A r : Id(l, r) # id
  BY DEF Id, Kind
<1>. HIDE DEF id
<1>3. /\ fence' = fence /\ Length' = Length + 1
      /\ \A j \in 1..Length : log'[Lane][j] = log[Lane][j]
      /\ log'[Lane][Length + 1].batch = id
      /\ TP!Next /\ T!TypeOK'
  <2>1. T!AppendBatch(Lane, e, n, [batch |-> id, records |-> {id}, body |-> b])
    BY DEF id
  <2>. QED
    BY <1>1, <2>1, LandEffect
<1>4. Length \in Nat
  BY LogTypes
<1>5. \A l, r : At(l, r)' = {j \in 1..(Length + 1) : log'[Lane][j].batch = Id(l, r)}
  BY <1>3 DEF At
<1>6. \A l \in Kind : \A r : At(l, r)' = At(l, r)
  <2>. SUFFICES ASSUME NEW l \in Kind, NEW r PROVE At(l, r)' = At(l, r)
    OBVIOUS
  <2>1. Id(l, r) # id
    BY <1>2
  <2>2. \A j : j \in 1..(Length + 1) /\ log'[Lane][j].batch = Id(l, r)
               <=> j \in 1..Length /\ log[Lane][j].batch = Id(l, r)
    BY <1>3, <1>4, <2>1
  <2>. QED
    BY <1>5, <2>2 DEF At
<1>8. \A l \in Kind : \A r : l \in Recorded(r)' <=> At(l, r)' # {}
  BY DEF Recorded, At
<1>9. \A r : Recorded(r)' \subseteq Kind
  BY DEF Recorded
<1>10. \A r \in Submission : Recorded(r)' = Recorded(r)
  <2>. SUFFICES ASSUME NEW r \in Submission PROVE Recorded(r)' = Recorded(r)
    OBVIOUS
  <2>1. \A l \in Kind : l \in Recorded(r)' <=> l \in Recorded(r)
    BY <1>6, <1>8, Places
  <2>. QED
    BY <1>9, <2>1, Places
<1>. QED
  BY <1>3, <1>6, <1>10

LEMMA LogKept ==
  ASSUME log' = log
  PROVE  /\ \A r : Recorded(r)' = Recorded(r)
         /\ \A l, r : At(l, r)' = At(l, r)
         /\ Length' = Length
  BY DEF Recorded, At, Length

-----------------------------------------------------------------------------
(***************************************************************************)
(* Neither store goes back on anything.                                     *)
(***************************************************************************)
RowForward(r) ==
  /\ sub'[r].state \in PlainStates
  /\ sub'[r].state = "ready" => sub[r].state = "ready"
  /\ sub[r].state = "settled" => sub'[r].state = "settled"
  /\ \/ sub'[r].token = 0 \/ sub'[r].token > minted
     \/ sub'[r].token = sub[r].token /\ sub'[r].epoch = sub[r].epoch
  /\ sub[r].reserved # None => sub'[r].reserved = sub[r].reserved
  /\ sub[r].applied => sub'[r].applied
LedgerForward ==
  /\ LP!Next \/ UNCHANGED LP!vars
  /\ adm' = adm /\ minted <= minted' /\ epoch[Lane] <= epoch'[Lane]
  /\ \A r \in Submission : RowForward(r)
LogForward ==
  /\ TP!Next \/ UNCHANGED TP!vars
  /\ T!TypeOK'
  /\ fence[Lane] <= fence'[Lane]
  /\ \A r \in Submission : Recorded(r) \subseteq Recorded(r)'
Forward == LedgerForward /\ LogForward

LEMMA SameRowForward ==
  ASSUME LedgerInv, NEW r \in Submission, SameRow(r) \/ sub'[r] = sub[r]
  PROVE  RowForward(r)
  BY RowTypes DEF SameRow, RowForward, LedgerInv

LEMMA LedgerKept ==
  ASSUME LedgerInv, UNCHANGED ledger
  PROVE  LedgerForward
<1>1. \A r \in Submission : RowForward(r)
  BY SameRowForward DEF ledger
<1>. QED
  BY <1>1, AttemptConstants DEF ledger, LedgerForward, LP!vars, LedgerInv, LP!TypeOK

LEMMA CallsForward ==
  ASSUME LedgerInv, NEW s \in Submission, NEW k \in 0..minted
  PROVE  /\ L!Claim(s) => LedgerForward
         /\ L!MarkInputApplied(s, k) => LedgerForward
         /\ L!RenewOwnership(s, k) => LedgerForward
         /\ L!LeaseExpires(s) => LedgerForward
         /\ L!RequestAbort(s) => LedgerForward
         /\ L!ReleaseOwnership(s, k) => LedgerForward
         /\ \A o \in Outcome : L!ReserveSettlement(s, k, o, None) => LedgerForward
         /\ L!FinalizeSettlement(s) => LedgerForward
         /\ L!MarkUnknown(s, {Call}) => LedgerForward
         /\ L!RecordUnknownResolution(s, Call) => LedgerForward
<1>. USE DEF LedgerForward
<1>0. epoch[Lane] \in Nat /\ minted \in Nat /\ \A r \in Submission : sub[r].state \in PlainStates
  BY RowTypes DEF LedgerInv
<1>1. ASSUME L!Claim(s) PROVE LedgerForward
  <2>1. RowForward(s)
    BY <1>0, <1>1, ClaimEffect DEF RowForward, PlainStates
  <2>. QED
    BY <1>0, <1>1, <2>1, ClaimEffect, SameRowForward
<1>2. ASSUME L!MarkInputApplied(s, k) PROVE LedgerForward
  <2>1. RowForward(s)
    BY <1>0, <1>2, MarkEffect DEF RowForward, PlainStates
  <2>. QED
    BY <1>0, <1>2, <2>1, MarkEffect, SameRowForward
<1>3. ASSUME L!RenewOwnership(s, k) PROVE LedgerForward
  BY <1>0, <1>3, RenewEffect, SameRowForward
<1>4. ASSUME L!LeaseExpires(s) PROVE LedgerForward
  BY <1>0, <1>4, ExpiryEffect, SameRowForward
<1>5. ASSUME L!RequestAbort(s) PROVE LedgerForward
  BY <1>0, <1>5, AbortEffect, SameRowForward
<1>6. ASSUME L!ReleaseOwnership(s, k) PROVE LedgerForward
  <2>1. RowForward(s)
    BY <1>0, <1>6, ReleaseEffect DEF RowForward, PlainStates
  <2>. QED
    BY <1>0, <1>6, <2>1, ReleaseEffect, SameRowForward
<1>7. ASSUME NEW o \in Outcome, L!ReserveSettlement(s, k, o, None) PROVE LedgerForward
  <2>1. RowForward(s)
    BY <1>0, <1>7, ReservedEffect DEF RowForward, PlainStates
  <2>. QED
    BY <1>0, <1>7, <2>1, ReservedEffect, SameRowForward
<1>8. ASSUME L!FinalizeSettlement(s) PROVE LedgerForward
  <2>1. RowForward(s)
    BY <1>0, <1>8, FinalizedEffect DEF RowForward, PlainStates
  <2>. QED
    BY <1>0, <1>8, <2>1, FinalizedEffect, SameRowForward
<1>9. ASSUME L!MarkUnknown(s, {Call}) PROVE LedgerForward
  <2>1. RowForward(s)
    BY <1>0, <1>9, ParkEffect DEF RowForward, PlainStates
  <2>. QED
    BY <1>0, <1>9, <2>1, ParkEffect, SameRowForward
<1>10. ASSUME L!RecordUnknownResolution(s, Call) PROVE LedgerForward
  <2>1. RowForward(s)
    BY <1>0, <1>10, ResolveEffect DEF RowForward, PlainStates
  <2>. QED
    BY <1>0, <1>10, <2>1, ResolveEffect, SameRowForward
<1>. QED
  BY <1>1, <1>2, <1>3, <1>4, <1>5, <1>6, <1>7, <1>8, <1>9, <1>10

LEMMA LedgerStep == LedgerInv /\ LedgerForward => LedgerInv'
<1>. SUFFICES ASSUME LedgerInv, LedgerForward PROVE LedgerInv'
  OBVIOUS
<1>1. LP!TypeOK /\ LP!Counted /\ LP!ReservationWins /\ [LP!Next]_(LP!vars)
  BY DEF LedgerInv, LedgerForward
<1>2. LP!TypeOK'
  BY <1>1, LP!NextTypeOK, LedgerConstants
<1>3. LP!Counted'
  BY <1>1, LP!NextCounted, LedgerConstants
<1>4. LP!ReservationWins'
  BY <1>1, LP!NextReservationWins, LedgerConstants
<1>5. Admitted' /\ \A s \in Submission : sub'[s].state \in PlainStates
  BY DEF LedgerForward, LedgerInv, Admitted, RowForward
<1>. QED
  BY <1>2, <1>3, <1>4, <1>5 DEF LedgerInv

LEMMA LogStill ==
  ASSUME T!TypeOK, UNCHANGED canon
  PROVE  LogForward
<1>1. T!TypeOK'
  BY DEF T!TypeOK, canon, T!Entry
<1>2. fence[Lane] \in Nat \cup {-1}
  BY LogTypes
<1>. QED
  BY <1>1, <1>2, LogKept DEF LogForward, canon, TP!vars

-----------------------------------------------------------------------------
(***************************************************************************)
(* What a process still remembers after a step.                             *)
(***************************************************************************)
Closing == {"finalize", "release"}
Forgetful == Closing \cup {"reserve", "record"}

LEMMA JobTypes ==
  ASSUME NEW j \in Job
  PROVE  /\ j.at \in Position /\ j.s \in Submission /\ j.token \in Nat /\ j.epoch \in Nat
         /\ j.tail \in Nat /\ j.refresh \in Nat /\ j.knows \in SUBSET Kind /\ j.row \in Snapshot
         /\ j.plan \in Position /\ j.outcome \in Outcome \cup {None}
  BY DEF Job

LEMMA IdleType ==
  /\ Idle \in Job /\ NoSnapshot \in Snapshot
  /\ Idle.at = "idle" /\ Idle.s = 1 /\ Idle.token = 0 /\ Idle.epoch = 0 /\ Idle.knows = {}
  /\ Idle.plan = "idle" /\ Idle.outcome = None /\ Idle.refresh = 0
<1>1. NoSnapshot \in Snapshot
  BY DEF NoSnapshot, Snapshot, L!SubmissionState, L!BeforeTerminalizing, L!BeforeInputApplied
<1>2. 1 \in Submission /\ "idle" \in Position
  BY AttemptConstants DEF Submission, Position
<1>. QED
  BY <1>1, <1>2 DEF Idle, Job

LEMMA BoundFields ==
  ASSUME NEW j \in Job, NEW at \in Position
  PROVE  /\ Bound(j, at) \in Job
         /\ Bound(j, at).at = at /\ Bound(j, at).s = j.s /\ Bound(j, at).token = j.token
         /\ Bound(j, at).epoch = IF at \in Closing THEN 0 ELSE j.epoch
         /\ at \notin Closing => Bound(j, at).outcome = j.outcome
         /\ at \notin Forgetful =>
              /\ Bound(j, at).knows = j.knows /\ Bound(j, at).row = j.row
              /\ Bound(j, at).plan = j.plan
<1>1. CASE at \in Closing
  <2>1. Bound(j, at) = [Idle EXCEPT !.at = at, !.s = j.s, !.token = j.token]
    BY <1>1 DEF Bound, Closing
  <2>. QED
    BY <1>1, <2>1, IdleType, JobTypes DEF Job, Closing, Forgetful
<1>2. CASE at \in {"reserve", "record"}
  <2>1. Bound(j, at) = [j EXCEPT !.at = at, !.knows = {}, !.row = NoSnapshot, !.plan = "idle"]
    BY <1>2 DEF Bound
  <2>2. "idle" \in Position
    BY DEF Position
  <2>. QED
    BY <1>2, <2>1, <2>2, IdleType, JobTypes DEF Job, Closing, Forgetful
<1>3. CASE at \notin Forgetful
  <2>1. Bound(j, at) = [j EXCEPT !.at = at]
    BY <1>3 DEF Bound, Closing, Forgetful
  <2>. QED
    BY <1>3, <2>1, JobTypes DEF Job, Closing, Forgetful
<1>. QED
  BY <1>1, <1>2, <1>3 DEF Closing, Forgetful

Apart(p) == job' \in [Process -> Job] /\ \A q \in Process : q # p => job'[q] = job[q]

LEMMA SetJob ==
  ASSUME job \in [Process -> Job], NEW p \in Process, NEW j, j \in Job, Set(p, j)
  PROVE  job'[p] = j /\ Apart(p)
  BY DEF Set, Apart

Elsewhere == UNCHANGED <<ran, consent, budget>>

\* A process moves: its claim stays, the rest as far as the position needs it.
Moves(p, at, kinds, outcome) ==
  /\ Apart(p)
  /\ job'[p].at = at /\ job'[p].s = job[p].s /\ job'[p].token = job[p].token
  /\ job'[p].epoch \in {0, job[p].epoch}
  /\ at \notin Closing => job'[p].epoch = job[p].epoch /\ job'[p].outcome = outcome
  /\ at \notin Forgetful => job'[p].knows = kinds
Keeps(p) == job'[p].row = job[p].row /\ job'[p].plan = job[p].plan
Goes(p, at) ==
  /\ Moves(p, at, job[p].knows, job[p].outcome)
  /\ at \notin Forgetful => Keeps(p)
\* It tries again where it is.
Stays(p) ==
  /\ Moves(p, job[p].at, job[p].knows, job[p].outcome) /\ Keeps(p)
  /\ job'[p].epoch = job[p].epoch /\ job'[p].outcome = job[p].outcome
     /\ job'[p].knows = job[p].knows

LEMMA GotoGoes ==
  ASSUME job \in [Process -> Job], NEW p \in Process, NEW at \in Position
  PROVE  /\ Goto(p, at) => Goes(p, at) /\ UNCHANGED <<ledger, canon>> /\ Elsewhere
         /\ Refused(p) => Goes(p, "release") /\ UNCHANGED <<ledger, canon>> /\ Elsewhere
         /\ \A call : Told(p, call, at) => call /\ Goes(p, at) /\ UNCHANGED canon /\ Elsewhere
<1>0. job[p] \in Job
  OBVIOUS
<1>1. ASSUME NEW a \in Position, Set(p, Bound(job[p], a)) PROVE Goes(p, a)
  <2>1. job'[p] = Bound(job[p], a) /\ Apart(p)
    BY <1>0, <1>1, SetJob, BoundFields
  <2>. QED
    BY <1>0, <2>1, BoundFields, JobTypes DEF Goes, Moves, Keeps, Closing, Forgetful
<1>2. "release" \in Position
  BY DEF Position
<1>. QED
  BY <1>1, <1>2 DEF Goto, Refused, Told, Only, Elsewhere

-----------------------------------------------------------------------------
\* The outcomes of an append: the record lands; it is there already, or a
\* tolerant caller takes it so; the tail is read again; the claim is given up.
Lands(k, s, e, b) ==
  /\ k \notin Recorded(s) /\ Recorded(s)' = Recorded(s) \cup {k}
  /\ \A r \in Submission \ {s} : Recorded(r)' = Recorded(r)
  /\ At(k, s)' = {Length + 1}
  /\ \A l \in Kind, r \in Submission : l # k \/ r # s => At(l, r)' = At(l, r)
  /\ e = fence[Lane] /\ fence' = fence /\ Length' = Length + 1
  /\ \A i \in 1..Length : log'[Lane][i] = log[Lane][i]
  /\ log'[Lane][Length + 1].body = b
Written(p, k, then) == Moves(p, then, job[p].knows \cup {k}, job[p].outcome)
Assumed(p, k, tolerant) ==
  /\ job[p].epoch = fence[Lane]
  /\ k \in Recorded(job[p].s) \/ (tolerant /\ job[p].refresh = MaxRefresh)
AppendOutcome(p, k, b, tolerant, then) ==
  /\ UNCHANGED ledger /\ Elsewhere /\ LogForward
  /\ \/ /\ \E s \in Submission : s = job[p].s /\ Lands(k, s, job[p].epoch, b)
        /\ Written(p, k, then)
     \/ Assumed(p, k, tolerant) /\ UNCHANGED canon /\ Written(p, k, then)
     \/ UNCHANGED canon /\ Stays(p)
     \/ UNCHANGED canon /\ Goes(p, "release")

LEMMA AppendsOutcome ==
  ASSUME T!TypeOK, job \in [Process -> Job], NEW p \in Process, NEW k \in Kind, NEW b \in Saying,
         NEW tolerant \in BOOLEAN, NEW then \in Position, Appends(p, k, b, tolerant, then)
  PROVE  AppendOutcome(p, k, b, tolerant, then)
<1>. DEFINE j == job[p]
            id == Id(k, j.s)
            q == [batch |-> id, records |-> {id}, body |-> b]
            memory(tail) == [j EXCEPT !.knows = @ \cup {k}, !.tail = tail, !.refresh = 0,
            !.plan = "idle"]
            done(tail) == Bound(memory(tail), then)
<1>0. j \in Job /\ j.s \in Submission /\ j.tail \in Nat /\ j.epoch \in Nat /\ Length \in Nat
      /\ j.refresh \in Nat
  BY JobTypes, LogTypes
<1>1. ASSUME NEW n \in Nat, Set(p, done(n)) PROVE Written(p, k, then)
  <2>. DEFINE m == memory(n)
  <2>1. /\ m \in Job /\ m.s = j.s /\ m.token = j.token /\ m.epoch = j.epoch
        /\ m.outcome = j.outcome /\ m.knows = j.knows \cup {k}
    <3>1. "idle" \in Position
      BY DEF Position
    <3>. QED
      BY <1>0, <3>1 DEF Job
  <2>. HIDE DEF m
  <2>2. Set(p, Bound(m, then))
    BY <1>1 DEF m
  <2>3. job'[p] = Bound(m, then) /\ Apart(p)
    BY <2>1, <2>2, SetJob, BoundFields
  <2>. QED
    BY <2>1, <2>3, BoundFields DEF Written, Moves, Closing, Forgetful
<1>2. T!Holds(Lane, q) <=> k \in Recorded(j.s)
  BY DEF T!Holds, Recorded, Length
<1>3. CASE /\ T!AppendBatch(Lane, j.epoch, j.tail, q)
           /\ Set(p, done(j.tail + 1))
           /\ UNCHANGED <<ledger, ran, consent, budget>>
  <2>0. PICK s \in Submission : s = j.s
    BY <1>0
  <2>1. Lands(k, s, j.epoch, b) /\ TP!Next /\ T!TypeOK'
    <3>1. T!AppendBatch(Lane, j.epoch, j.tail,
                        [batch |-> Id(k, s), records |-> {Id(k, s)}, body |-> b])
      BY <1>3, <2>0
    <3>. QED
      BY <1>0, <3>1, LandRecorded DEF Lands
  <2>2. LogForward
    <3>1. \A r \in Submission : Recorded(r) \subseteq Recorded(r)'
      <4>. SUFFICES ASSUME NEW r \in Submission PROVE Recorded(r) \subseteq Recorded(r)'
        OBVIOUS
      <4>1. CASE r = s
        BY <2>1, <4>1 DEF Lands
      <4>2. CASE r # s
        BY <2>1, <4>2 DEF Lands
      <4>. QED
        BY <4>1, <4>2
    <3>2. fence[Lane] <= fence'[Lane]
      BY <2>1, LogTypes DEF Lands
    <3>. QED
      BY <2>1, <3>1, <3>2 DEF LogForward
  <2>3. Written(p, k, then)
    <3>1. j.tail + 1 \in Nat
      BY <1>0
    <3>. QED
      BY <1>1, <1>3, <3>1
  <2>. QED
    BY <1>3, <2>0, <2>1, <2>2, <2>3 DEF AppendOutcome, Elsewhere
<1>4. ASSUME T!Fenced(Lane, j.epoch), T!Replays(Lane, j.tail, q), Only(p, done(j.tail + 1))
      PROVE  AppendOutcome(p, k, b, tolerant, then)
  <2>1. k \in Recorded(j.s)
    <3>1. T!Holds(Lane, q)
      BY <1>4 DEF T!Replays, T!Holds
    <3>. QED
      BY <1>2, <3>1
  <2>2. Assumed(p, k, tolerant)
    BY <1>4, <2>1 DEF Assumed, T!Fenced
  <2>3. j.tail + 1 \in Nat
    BY <1>0
  <2>4. Written(p, k, then)
    BY <1>1, <1>4, <2>3 DEF Only
  <2>5. UNCHANGED <<ledger, canon, ran, consent, budget>>
    BY <1>4 DEF Only
  <2>. QED
    BY <2>2, <2>4, <2>5, LogStill DEF AppendOutcome, Elsewhere
<1>5. ASSUME Only(p, [j EXCEPT !.tail = Length, !.refresh = @ + 1])
      PROVE  AppendOutcome(p, k, b, tolerant, then)
  <2>. DEFINE m == [j EXCEPT !.tail = Length, !.refresh = @ + 1]
  <2>1. m \in Job /\ m.at = j.at /\ m.s = j.s /\ m.token = j.token /\ m.epoch = j.epoch
        /\ m.outcome = j.outcome /\ m.knows = j.knows /\ m.row = j.row /\ m.plan = j.plan
    <3>1. j.refresh + 1 \in Nat
      BY <1>0
    <3>. QED
      BY <1>0, <3>1 DEF Job
  <2>2. Set(p, m) /\ UNCHANGED <<ledger, canon, ran, consent, budget>>
    BY <1>5 DEF Only
  <2>. HIDE DEF m
  <2>3. job'[p] = m /\ Apart(p)
    BY <2>1, <2>2, SetJob
  <2>4. Stays(p)
    BY <2>1, <2>3 DEF Stays, Moves, Keeps
  <2>. QED
    BY <2>2, <2>4, LogStill DEF AppendOutcome, Elsewhere
<1>6. ASSUME Refused(p) PROVE AppendOutcome(p, k, b, tolerant, then)
  <2>1. "release" \in Position
    BY DEF Position
  <2>2. Goes(p, "release") /\ UNCHANGED <<ledger, canon>> /\ Elsewhere
    BY <1>6, <2>1, GotoGoes
  <2>. QED
    BY <2>2, LogStill DEF AppendOutcome
<1>7. ASSUME T!Fenced(Lane, j.epoch), T!Holds(Lane, q) \/ j.refresh = MaxRefresh,
             tolerant \/ T!Holds(Lane, q),
             Only(p, done(j.tail))
      PROVE  AppendOutcome(p, k, b, tolerant, then)
  <2>1. Assumed(p, k, tolerant)
    BY <1>2, <1>7 DEF Assumed, T!Fenced
  <2>2. Written(p, k, then)
    BY <1>0, <1>1, <1>7 DEF Only
  <2>3. UNCHANGED <<ledger, canon, ran, consent, budget>>
    BY <1>7 DEF Only
  <2>. QED
    BY <2>1, <2>2, <2>3, LogStill DEF AppendOutcome, Elsewhere
<1>. QED
  BY <1>3, <1>4, <1>5, <1>6, <1>7 DEF Appends, Conflicts, FenceRejects

-----------------------------------------------------------------------------
(***************************************************************************)
(* Where a process may be.  A halting process goes on where it was; some     *)
(* positions are reached with a claim only, some before there is one.       *)
(***************************************************************************)
InRunOf == Attempting \cup {"model"}
OnRun == InRunOf \cup {"halt"}
Where(p) == IF job[p].at = "halt" THEN job[p].plan ELSE job[p].at
WithClaim ==
  {"claimed", "load", "read", "tail", "input", "marker", "reconcile", "answer", "unknown",
   "park"} \cup OnRun
BeforeClaim == {"idle", "inspect", "seek", "acquire", "attend", "wake"}
Planning == {"seek", "acquire", "claimed", "tail", "attend"}
Plans == {"record", "abort", "input", "marker", "reconcile"}
ForWorkers == {"load", "read"} \cup OnRun
ForRecovery == {"inspect", "seek", "acquire", "tail", "attend", "wake"}

Course(p) ==
  /\ job[p].at \in ForWorkers => p \in Worker
  /\ job[p].at \in ForRecovery => p \in Recoverer
  /\ job[p].at \in WithClaim => job[p].token # 0
  /\ job[p].at \in BeforeClaim => job[p].token = 0
  /\ job[p].at = "halt" => job[p].plan \in InRunOf
  /\ p \in Recoverer /\ job[p].at \in Planning => job[p].plan \in Plans
  /\ job[p].at = "attend" => job[p].plan \in {"abort", "record"}
  /\ job[p].at \in {"reserve", "record"} => job[p].outcome \in Outcome
  /\ job[p].at \in {"abort", "audit"} => job[p].outcome = "aborted"
  /\ job[p].at \in Planning /\ job[p].plan = "abort" => job[p].outcome = "aborted"
  /\ job[p].at \in Planning /\ job[p].plan = "record" => job[p].outcome \in Outcome
  /\ Where(p) \in Attempting => job[p].outcome = "completed"

Base ==
  /\ TypeOK /\ LedgerInv
  /\ \A p \in Process : job[p].token <= minted /\ Course(p)
Calm == UNCHANGED <<ledger, canon>> /\ Elsewhere

-----------------------------------------------------------------------------
(***************************************************************************)
(* What each step of a process does, with its job read field by field.      *)
(***************************************************************************)
LEMMA BaseTypes ==
  ASSUME Base, NEW p \in Process
  PROVE  /\ job \in [Process -> Job] /\ job[p] \in Job /\ T!TypeOK /\ LedgerInv
         /\ job[p].at \in Position /\ job[p].s \in Submission
         /\ job[p].token \in Nat /\ job[p].epoch \in Nat
         /\ job[p].knows \in SUBSET Kind /\ job[p].row \in Snapshot
         /\ job[p].plan \in Position /\ job[p].outcome \in Outcome \cup {None}
         /\ job[p].token \in 0..minted /\ minted \in Nat /\ epoch[Lane] \in Nat
         /\ fence[Lane] \in Nat \cup {-1} /\ Length \in Nat
<1>1. job \in [Process -> Job] /\ job[p] \in Job /\ T!TypeOK /\ LedgerInv /\ job[p].token <= minted
  BY DEF Base, TypeOK
<1>2. minted \in Nat /\ epoch[Lane] \in Nat
  BY <1>1, AttemptConstants, RowTypes DEF Submission
<1>. QED
  BY <1>1, <1>2, JobTypes, LogTypes

LEMMA OnlyMoves ==
  ASSUME Base, NEW p \in Process, NEW j, j \in Job, Only(p, j)
  PROVE  job'[p] = j /\ Apart(p) /\ Calm
  BY BaseTypes, SetJob DEF Only, Calm, Elsewhere

LEMMA BoundMoves ==
  ASSUME Base, NEW p \in Process, NEW m, m \in Job, NEW at, at \in Position, Only(p, Bound(m, at)),
         m.s = job[p].s, m.token = job[p].token, m.epoch = job[p].epoch
  PROVE  /\ Moves(p, at, m.knows, m.outcome) /\ Calm
         /\ at \notin Forgetful => job'[p].row = m.row /\ job'[p].plan = m.plan
<1>1. job'[p] = Bound(m, at) /\ Apart(p) /\ Calm
  BY OnlyMoves, BoundFields
<1>. QED
  BY <1>1, BoundFields, BaseTypes DEF Moves, Closing, Forgetful

LEMMA Targets ==
  /\ \A row, kinds : PlanOf(row, kinds) \in {"finalize", "record", "abort", "input", "marker",
     "reconcile"}
  /\ \A p, kinds, answer : Triage(p, kinds, answer) \in {"park", "unknown", "answer", "release",
     "model"}
  /\ \A kinds : Ways(kinds) \subseteq {"reserve", "respond", "complete", "prepare", "execute"}
  /\ \A row \in Snapshot : OutcomeOf(row) \in Outcome \cup {None}
  BY DEF PlanOf, Triage, Ways, OutcomeOf, Snapshot, Outcome

LEMMA SnapshotType ==
  ASSUME LedgerInv, NEW s \in Submission
  PROVE  /\ SnapshotOf(s) \in Snapshot
         /\ SnapshotOf(s).reserved = IF sub[s].reserved = None THEN None ELSE sub[s].reserved.outcome
         /\ SnapshotOf(s).state = sub[s].state /\ SnapshotOf(s).applied = sub[s].applied
         /\ SnapshotOf(s).abort = sub[s].abort
<1>1. sub[s].applied \in BOOLEAN /\ sub[s].abort \in BOOLEAN
      /\ sub[s].reserved \in LP!Reservation \cup {None}
  BY RowTypes
<1>2. sub[s].state \in L!SubmissionState
  BY DEF LedgerInv, PlainStates, L!SubmissionState, L!BeforeTerminalizing, L!BeforeInputApplied
<1>3. L!Owned(s) \in BOOLEAN /\ (sub[s].resolved # {}) \in BOOLEAN
  BY DEF L!Owned
<1>4. (IF sub[s].reserved = None THEN None ELSE sub[s].reserved.outcome) \in Outcome \cup {None}
  BY <1>1 DEF LP!Reservation
<1>. QED
  BY <1>1, <1>2, <1>3, <1>4 DEF SnapshotOf, Snapshot

LEMMA ClaimMoves ==
  ASSUME Base, NEW p \in Process, NEW s \in Submission, Claim(p, s)
  PROVE  /\ p \in Worker /\ job[p].at = "idle" /\ job[p].token = 0
         /\ Apart(p) /\ L!Claim(s) /\ UNCHANGED canon /\ Elsewhere
         /\ job'[p].at = "claimed" /\ job'[p].s = s
         /\ job'[p].token = minted + 1 /\ job'[p].epoch = epoch[Lane] + 1
         /\ job'[p].knows = {} /\ job'[p].plan = "idle"
<1>. DEFINE j == Claimed(s)
<1>1. /\ j \in Job /\ j.at = "claimed" /\ j.s = s /\ j.token = minted + 1
         /\ j.epoch = epoch[Lane] + 1
      /\ j.knows = {} /\ j.plan = "idle"
  <2>1. minted + 1 \in Nat /\ epoch[Lane] + 1 \in Nat /\ "claimed" \in Position
    BY BaseTypes DEF Position
  <2>. QED
    BY <2>1, IdleType DEF Claimed, Job
<1>. HIDE DEF j
<1>2. Set(p, j) /\ p \in Worker /\ job[p] = Idle /\ L!Claim(s) /\ UNCHANGED canon /\ Elsewhere
  BY DEF Claim, Elsewhere, j
<1>. QED
  BY <1>1, <1>2, SetJob, IdleType, BaseTypes

LEMMA AttachMoves ==
  ASSUME Base, NEW p \in Process, Attach(p)
  PROVE  /\ job[p].at = "claimed" /\ UNCHANGED ledger /\ Elsewhere /\ LogForward
         /\ \/ /\ fence[Lane] < job[p].epoch /\ fence'[Lane] = job[p].epoch /\ log' = log
               /\ Goes(p, IF Repairing(p) THEN "tail" ELSE "load")
            \/ /\ fence[Lane] = job[p].epoch /\ UNCHANGED canon
               /\ Goes(p, IF Repairing(p) THEN "tail" ELSE "load")
            \/ fence[Lane] > job[p].epoch /\ UNCHANGED canon /\ Goes(p, "release")
<1>. DEFINE then == IF Repairing(p) THEN "tail" ELSE "load"
<1>0. then \in Position /\ "release" \in Position /\ then \notin Forgetful
  BY DEF Position, Forgetful, Closing
<1>1. CASE /\ T!Materialize(Lane, job[p].epoch)
           /\ Set(p, [job[p] EXCEPT !.at = then])
           /\ UNCHANGED <<ledger, ran, consent, budget>>
  <2>. HIDE DEF then
  <2>1. /\ fence[Lane] < job[p].epoch /\ fence'[Lane] = job[p].epoch /\ log' = log
        /\ TP!Next /\ T!TypeOK'
    BY <1>1, BaseTypes, MaterializeEffect
  <2>2. LogForward
    BY <2>1, LogKept, BaseTypes DEF LogForward
  <2>. DEFINE j == [job[p] EXCEPT !.at = then]
  <2>3. /\ j \in Job /\ j.at = then /\ j.s = job[p].s /\ j.token = job[p].token
           /\ j.epoch = job[p].epoch
        /\ j.knows = job[p].knows /\ j.row = job[p].row /\ j.plan = job[p].plan
           /\ j.outcome = job[p].outcome
    BY <1>0, BaseTypes DEF Job
  <2>. HIDE DEF j
  <2>4. job'[p] = j /\ Apart(p)
    <3>1. Set(p, j)
      BY <1>1 DEF j
    <3>. QED
      BY <2>3, <3>1, SetJob, BaseTypes
  <2>5. Goes(p, then)
    BY <2>3, <2>4 DEF Goes, Moves, Keeps
  <2>. QED
    BY <1>1, <2>1, <2>2, <2>5 DEF Attach, then, Elsewhere
<1>2. CASE fence[Lane] = job[p].epoch /\ Goto(p, then)
  BY <1>0, <1>2, GotoGoes, BaseTypes, LogStill DEF Attach
<1>3. CASE fence[Lane] > job[p].epoch /\ Refused(p)
  BY <1>0, <1>3, GotoGoes, BaseTypes, LogStill DEF Attach
<1>. QED
  BY <1>1, <1>2, <1>3 DEF Attach

LEMMA LoadMoves ==
  ASSUME Base, NEW p \in Process, Load(p)
  PROVE  /\ job[p].at = "load" /\ Calm
         /\ Moves(p, "read", job[p].knows, job[p].outcome)
         /\ job'[p].row = SnapshotOf(job[p].s) /\ job'[p].plan = job[p].plan
<1>. DEFINE j == [job[p] EXCEPT !.row = SnapshotOf(job[p].s), !.at = "read"]
<1>1. /\ j \in Job /\ j.at = "read" /\ j.s = job[p].s /\ j.token = job[p].token
         /\ j.epoch = job[p].epoch
      /\ j.knows = job[p].knows /\ j.row = SnapshotOf(job[p].s) /\ j.plan = job[p].plan
      /\ j.outcome = job[p].outcome
  <2>1. SnapshotOf(job[p].s) \in Snapshot /\ "read" \in Position
    BY BaseTypes, SnapshotType DEF Position
  <2>. QED
    BY <2>1, BaseTypes DEF Job
<1>. HIDE DEF j
<1>2. job'[p] = j /\ Apart(p) /\ Calm /\ job[p].at = "load"
  <2>1. Only(p, j) /\ job[p].at = "load"
    BY DEF Load, j
  <2>. QED
    BY <1>1, <2>1, OnlyMoves
<1>. QED
  BY <1>1, <1>2 DEF Moves

LEMMA ReadMoves ==
  ASSUME Base, NEW p \in Process, Read(p)
  PROVE  /\ job[p].at = "read" /\ Calm
         /\ Moves(p, PlanOf(job[p].row, Recorded(job[p].s)), Recorded(job[p].s),
            OutcomeOf(job[p].row))
         /\ PlanOf(job[p].row, Recorded(job[p].s)) \notin Forgetful => job'[p].plan = job[p].plan
<1>. DEFINE kinds == Recorded(job[p].s)
            j == [job[p] EXCEPT !.knows = kinds, !.tail = Length, !.row = NoSnapshot,
                                !.outcome = OutcomeOf(job[p].row)]
            at == PlanOf(job[p].row, kinds)
<1>0. kinds \in SUBSET Kind /\ at \in Position
  BY Targets, Places DEF Position
<1>1. /\ j \in Job /\ j.s = job[p].s /\ j.token = job[p].token /\ j.epoch = job[p].epoch
      /\ j.knows = kinds /\ j.plan = job[p].plan /\ j.outcome = OutcomeOf(job[p].row)
  <2>1. OutcomeOf(job[p].row) \in Outcome \cup {None}
    BY BaseTypes, Targets
  <2>. HIDE DEF kinds
  <2>. QED
    BY <1>0, <2>1, BaseTypes, IdleType DEF Job
<1>2. job[p].at = "read" /\ Only(p, Bound(j, at))
  BY DEF Read
<1>. HIDE DEF j, at, kinds
<1>3. Moves(p, at, j.knows, j.outcome) /\ Calm /\ (at \notin Forgetful => job'[p].plan = j.plan)
  BY <1>0, <1>1, <1>2, BoundMoves
<1>. QED
  BY <1>1, <1>2, <1>3 DEF at, kinds

LEMMA MarkMoves ==
  ASSUME Base, NEW p \in Process, MarkInput(p)
  PROVE  /\ job[p].at = "marker" /\ UNCHANGED canon /\ Elsewhere
         /\ \/ /\ \/ L!MarkInputApplied(job[p].s, job[p].token)
                  \/ UNCHANGED ledger
               /\ Goes(p, IF Repairing(p) THEN "release" ELSE "reconcile")
            \/ UNCHANGED ledger /\ Goes(p, "release")
<1>0. (IF Repairing(p) THEN "release" ELSE "reconcile") \in Position /\ "release" \in Position
  BY DEF Position
<1>. QED
  BY <1>0, GotoGoes, BaseTypes DEF MarkInput, canon, ledger

LEMMA ReconcileMoves ==
  ASSUME Base, NEW p \in Process, Reconcile(p)
  PROVE  /\ job[p].at = "reconcile" /\ Calm
         /\ LET kinds == IF Repairing(p) THEN job[p].knows ELSE Recorded(job[p].s)
                answer == IF Repairing(p) /\ ~job[p].row.answered THEN None ELSE consent[job[p].s]
            IN Moves(p, Triage(p, kinds, answer), kinds, job[p].outcome)
<1>. DEFINE kinds == IF Repairing(p) THEN job[p].knows ELSE Recorded(job[p].s)
            answer == IF Repairing(p) /\ ~job[p].row.answered THEN None ELSE consent[job[p].s]
            j == [job[p] EXCEPT !.knows = kinds, !.row = NoSnapshot]
            at == Triage(p, kinds, answer)
<1>0. kinds \in SUBSET Kind /\ at \in Position
  BY Targets, Places, BaseTypes DEF Position
<1>1. /\ j \in Job /\ j.s = job[p].s /\ j.token = job[p].token /\ j.epoch = job[p].epoch
      /\ j.knows = kinds /\ j.outcome = job[p].outcome
  <2>. HIDE DEF kinds
  <2>. QED
    BY <1>0, BaseTypes, IdleType DEF Job
<1>2. job[p].at = "reconcile" /\ Only(p, Bound(j, at))
  BY DEF Reconcile
<1>. HIDE DEF j, at, kinds, answer
<1>3. Moves(p, at, j.knows, j.outcome) /\ Calm
  BY <1>0, <1>1, <1>2, BoundMoves
<1>. QED
  BY <1>1, <1>2, <1>3 DEF at, kinds, answer

LEMMA ParkMoves ==
  ASSUME Base, NEW p \in Process, Park(p)
  PROVE  /\ job[p].at = "park" /\ UNCHANGED canon /\ Elsewhere /\ Goes(p, "release")
         /\ L!MarkUnknown(job[p].s, {Call}) \/ UNCHANGED ledger
<1>0. "release" \in Position
  BY DEF Position
<1>. QED
  BY <1>0, GotoGoes, BaseTypes DEF Park, canon, ledger

\* A job edited in place.
LEMMA EditMoves ==
  ASSUME Base, NEW p \in Process, NEW at \in Position, NEW o \in Outcome \cup {None}, NEW j,
         j = [job[p] EXCEPT !.at = at, !.outcome = o], Set(p, j)
  PROVE  Moves(p, at, job[p].knows, o) /\ Keeps(p) /\ job'[p].epoch = job[p].epoch
<1>1. /\ j \in Job /\ j.at = at /\ j.s = job[p].s /\ j.token = job[p].token
         /\ j.epoch = job[p].epoch
      /\ j.knows = job[p].knows /\ j.row = job[p].row /\ j.plan = job[p].plan /\ j.outcome = o
  BY BaseTypes DEF Job
<1>2. job'[p] = j /\ Apart(p)
  BY <1>1, SetJob, BaseTypes
<1>. QED
  BY <1>1, <1>2 DEF Moves, Keeps

LEMMA AtOnly ==
  ASSUME Base, NEW p \in Process, NEW at
  PROVE  [job[p] EXCEPT !.at = at] = [job[p] EXCEPT !.at = at, !.outcome = job[p].outcome]
  BY BaseTypes DEF Job

LEMMA RunOnMoves ==
  ASSUME Base, NEW p \in Process, RunOn(p)
  PROVE  /\ job[p].at = "model" /\ Calm
         /\ \E at \in Ways(job[p].knows) :
              Moves(p, at, job[p].knows, "completed") /\ Keeps(p)
<1>1. PICK at \in Ways(job[p].knows) : Only(p, [job[p] EXCEPT !.at = at, !.outcome = "completed"])
  BY DEF RunOn
<1>2. at \in Position /\ "completed" \in Outcome \cup {None}
  BY Targets DEF Position, Attempting, Outcome
<1>3. Moves(p, at, job[p].knows, "completed") /\ Keeps(p)
  BY <1>1, <1>2, EditMoves DEF Only
<1>. QED
  BY <1>1, <1>3 DEF RunOn, Only, Calm, Elsewhere

LEMMA RunFailsMoves ==
  ASSUME Base, NEW p \in Process, RunFails(p)
  PROVE  /\ \/ job[p].at = "model" /\ "final" \notin job[p].knows /\ ~OpenIn(job[p].knows)
            \/ job[p].at = "close"
         /\ Calm /\ Moves(p, "reserve", job[p].knows, "failed")
<1>. DEFINE j == [job[p] EXCEPT !.outcome = "failed"]
<1>1. /\ j \in Job /\ j.s = job[p].s /\ j.token = job[p].token /\ j.epoch = job[p].epoch
      /\ j.knows = job[p].knows /\ j.outcome = "failed" /\ "reserve" \in Position
  BY BaseTypes DEF Job, Outcome, Position
<1>2. Only(p, Bound(j, "reserve"))
  BY DEF RunFails
<1>. HIDE DEF j
<1>. QED
  BY <1>1, <1>2, BoundMoves DEF RunFails

LEMMA ExecuteMoves ==
  ASSUME Base, NEW p \in Process, Execute(p)
  PROVE  /\ job[p].at = "execute" /\ UNCHANGED <<ledger, canon, consent, budget>>
         /\ ran' = [ran EXCEPT ![job[p].s] = @ + 1]
         /\ Moves(p, "close", job[p].knows, job[p].outcome) /\ Keeps(p)
<1>1. "close" \in Position /\ job[p].outcome \in Outcome \cup {None}
  BY BaseTypes DEF Position, Attempting
<1>2. Set(p, [job[p] EXCEPT !.at = "close", !.outcome = job[p].outcome])
  BY AtOnly DEF Execute
<1>3. Moves(p, "close", job[p].knows, job[p].outcome) /\ Keeps(p)
  BY <1>1, <1>2, EditMoves
<1>. QED
  BY <1>3 DEF Execute

LEMMA WatchMoves ==
  ASSUME Base, NEW p \in Process, Watch(p)
  PROVE  /\ InRun(p) /\ Calm /\ sub[job[p].s].abort
         /\ Moves(p, "halt", job[p].knows, job[p].outcome) /\ job'[p].plan = job[p].at
<1>. DEFINE j == [job[p] EXCEPT !.at = "halt", !.plan = job[p].at]
<1>1. /\ j \in Job /\ j.at = "halt" /\ j.s = job[p].s /\ j.token = job[p].token
         /\ j.epoch = job[p].epoch
      /\ j.knows = job[p].knows /\ j.plan = job[p].at /\ j.outcome = job[p].outcome
  <2>1. "halt" \in Position
    BY DEF Position
  <2>. QED
    BY <2>1, BaseTypes DEF Job
<1>2. Only(p, j)
  BY DEF Watch
<1>. HIDE DEF j
<1>3. job'[p] = j /\ Apart(p) /\ Calm
  BY <1>1, <1>2, OnlyMoves
<1>. QED
  BY <1>1, <1>3 DEF Moves, Watch

LEMMA HaltMoves ==
  ASSUME Base, NEW p \in Process, Halt(p)
  PROVE  InRun(p) /\ Calm /\ Moves(p, "reserve", job[p].knows, "aborted")
<1>. DEFINE j == [job[p] EXCEPT !.outcome = "aborted", !.refresh = 0]
<1>1. /\ j \in Job /\ j.s = job[p].s /\ j.token = job[p].token /\ j.epoch = job[p].epoch
      /\ j.knows = job[p].knows /\ j.outcome = "aborted" /\ "reserve" \in Position
  <2>1. "reserve" \in Position /\ "aborted" \in Outcome \cup {None} /\ 0 \in Nat
    BY DEF Outcome, Position
  <2>. QED
    BY <2>1, BaseTypes DEF Job
<1>2. Only(p, Bound(j, "reserve"))
  BY DEF Halt
<1>. HIDE DEF j
<1>. QED
  BY <1>1, <1>2, BoundMoves DEF Halt

LEMMA RenewMoves ==
  ASSUME Base, NEW p \in Process, Renew(p)
  PROVE  /\ InRun(p) /\ UNCHANGED canon /\ Elsewhere
         /\ \/ L!RenewOwnership(job[p].s, job[p].token) /\ Goes(p, job[p].at)
            \/ UNCHANGED ledger /\ Goes(p, "release")
<1>1. job[p].at \in Position /\ "release" \in Position
  BY BaseTypes DEF Position
<1>. QED
  BY <1>1, GotoGoes, BaseTypes DEF Renew, canon, ledger

LEMMA ReserveMoves ==
  ASSUME Base, NEW p \in Process, Reserve(p)
  PROVE  /\ job[p].at = "reserve" /\ UNCHANGED canon /\ Elsewhere
         /\ \/ /\ L!ReserveSettlement(job[p].s, job[p].token, job[p].outcome, None)
               /\ Goes(p, "record")
            \/ UNCHANGED ledger /\ Goes(p, "release")
<1>1. "record" \in Position /\ "release" \in Position
  BY BaseTypes DEF Position
<1>. QED
  BY <1>1, GotoGoes, BaseTypes DEF Reserve, canon, ledger

LEMMA FinalizeMoves ==
  ASSUME Base, NEW p \in Process, Finalize(p)
  PROVE  /\ job[p].at = "finalize" /\ UNCHANGED canon /\ Elsewhere /\ Goes(p, "release")
         /\ L!FinalizeSettlement(job[p].s) \/ UNCHANGED ledger
<1>1. "release" \in Position
  BY DEF Position
<1>. QED
  BY <1>1, GotoGoes, BaseTypes DEF Finalize, canon, ledger

Rests(p) ==
  /\ Apart(p) /\ job'[p].at = "idle" /\ job'[p].token = 0 /\ job'[p].epoch = 0
  /\ job'[p].plan = "idle" /\ job'[p].knows = {} /\ job'[p].s = 1

LEMMA IdleRests ==
  ASSUME Base, NEW p \in Process, Set(p, Idle)
  PROVE  Rests(p)
  BY BaseTypes, SetJob, IdleType DEF Rests

LEMMA ReleaseMoves ==
  ASSUME Base, NEW p \in Process, Release(p)
  PROVE  /\ job[p].at = "release" /\ UNCHANGED canon /\ Elsewhere /\ Rests(p)
         /\ L!ReleaseOwnership(job[p].s, job[p].token) \/ UNCHANGED ledger
  BY IdleRests DEF Release, Elsewhere

LEMMA SweepMoves ==
  ASSUME Base, NEW p \in Process, NEW s \in Submission, Sweep(p, s)
  PROVE  /\ p \in Recoverer /\ job[p].at = "idle" /\ Apart(p)
         /\ job'[p].at = "inspect" /\ job'[p].s = s /\ job'[p].token = 0 /\ job'[p].epoch = 0
         /\ job'[p].knows = Recorded(s) /\ job'[p].plan = "idle"
         /\ sweeps < MaxSweep /\ sweeps' = sweeps + 1
         /\ UNCHANGED <<ledger, canon, ran, consent, faults>>
<1>. DEFINE j == [Idle EXCEPT !.at = "inspect", !.s = s, !.knows = Recorded(s)]
<1>1. /\ j \in Job /\ j.at = "inspect" /\ j.s = s /\ j.token = 0 /\ j.epoch = 0
      /\ j.knows = Recorded(s) /\ j.plan = "idle"
  <2>1. Recorded(s) \in SUBSET Kind /\ "inspect" \in Position
    BY Places DEF Position
  <2>. QED
    BY <2>1, IdleType DEF Job
<1>. HIDE DEF j
<1>2. Set(p, j) /\ p \in Recoverer /\ job[p] = Idle /\ sweeps < MaxSweep /\ sweeps' = sweeps + 1
      /\ UNCHANGED <<ledger, canon, ran, consent, faults>>
  BY DEF Sweep, j
<1>. QED
  BY <1>1, <1>2, SetJob, BaseTypes, IdleType

LEMMA RepairTargets ==
  \A row, kinds :
    \/ Repair(row, kinds) \in {"idle", "wake", "input", "marker", "reconcile"}
    \/ Repair(row, kinds) = PlanOf(row, kinds)
  BY Targets DEF Repair

LEMMA InspectMoves ==
  ASSUME Base, NEW p \in Process, Inspect(p)
  PROVE  /\ job[p].at = "inspect" /\ Calm
         /\ LET row == SnapshotOf(job[p].s)
                plan == Repair(row, job[p].knows)
            IN \/ Rests(p)
               \/ /\ plan # "idle"
                  /\ Moves(p, IF plan \in {"wake", "finalize"} THEN plan ELSE "seek",
                           job[p].knows, OutcomeOf(row))
                  /\ job'[p].plan = plan
<1>. DEFINE row == SnapshotOf(job[p].s)
            plan == Repair(row, job[p].knows)
            at == IF plan \in {"wake", "finalize"} THEN plan ELSE "seek"
            j == [job[p] EXCEPT !.row = row, !.plan = plan, !.outcome = OutcomeOf(row), !.at = at]
<1>1. /\ j \in Job /\ j.at = at /\ j.s = job[p].s /\ j.token = job[p].token
         /\ j.epoch = job[p].epoch
      /\ j.knows = job[p].knows /\ j.plan = plan /\ j.outcome = OutcomeOf(row)
  <2>1. row \in Snapshot /\ OutcomeOf(row) \in Outcome \cup {None}
    BY BaseTypes, SnapshotType, Targets
  <2>2. plan \in {"idle", "wake", "input", "marker", "reconcile", "finalize", "record", "abort"}
    BY RepairTargets, Targets
  <2>. HIDE DEF row, plan
  <2>3. plan \in Position /\ at \in Position
    BY <2>2 DEF Position
  <2>. QED
    BY <2>1, <2>3, BaseTypes DEF Job
<1>2. job[p].at = "inspect" /\ Only(p, IF plan = "idle" THEN Idle ELSE j)
  BY DEF Inspect
<1>. HIDE DEF j, at, plan, row
<1>3. CASE plan = "idle"
  BY <1>2, <1>3, IdleRests DEF plan, row, Only, Calm, Elsewhere
<1>4. CASE plan # "idle"
  <2>1. job'[p] = j /\ Apart(p) /\ Calm
    BY <1>1, <1>2, <1>4, OnlyMoves
  <2>2. Moves(p, at, job[p].knows, OutcomeOf(row)) /\ job'[p].plan = plan
    BY <1>1, <2>1 DEF Moves
  <2>. QED
    BY <1>2, <1>4, <2>1, <2>2 DEF at, plan, row
<1>. QED
  BY <1>3, <1>4

LEMMA WakeMoves ==
  ASSUME Base, NEW p \in Process, Wake(p)
  PROVE  /\ job[p].at = "wake" /\ UNCHANGED canon /\ Elsewhere /\ Goes(p, "release")
         /\ L!RecordUnknownResolution(job[p].s, Call) \/ UNCHANGED ledger
<1>1. "release" \in Position
  BY DEF Position
<1>. QED
  BY <1>1, GotoGoes, BaseTypes DEF Wake, canon, ledger

LEMMA UnclaimedMoves ==
  ASSUME Base, NEW p \in Process, Unclaimed(p)
  PROVE  /\ Calm
         /\ \/ Rests(p)
            \/ /\ Moves(p, "attend", job[p].knows, job[p].outcome) /\ job'[p].plan = job[p].plan
               /\ job[p].plan \in {"abort", "record"}
<1>1. CASE Only(p, Idle)
  BY <1>1, IdleRests DEF Only, Calm, Elsewhere
<1>2. CASE job[p].plan \in {"abort", "record"} /\ Only(p, [job[p] EXCEPT !.at = "attend"])
  <2>1. "attend" \in Position /\ job[p].outcome \in Outcome \cup {None}
    BY BaseTypes DEF Position
  <2>2. Set(p, [job[p] EXCEPT !.at = "attend", !.outcome = job[p].outcome])
    BY <1>2, AtOnly DEF Only
  <2>3. Moves(p, "attend", job[p].knows, job[p].outcome) /\ Keeps(p)
    BY <2>1, <2>2, EditMoves
  <2>. QED
    BY <1>2, <2>3 DEF Only, Calm, Elsewhere, Keeps
<1>. QED
  BY <1>1, <1>2 DEF Unclaimed

LEMMA SeekMoves ==
  ASSUME Base, NEW p \in Process, Seek(p)
  PROVE  /\ job[p].at = "seek" /\ Calm
         /\ \/ Goes(p, "acquire")
            \/ Rests(p)
            \/ /\ Moves(p, "attend", job[p].knows, job[p].outcome) /\ job'[p].plan = job[p].plan
               /\ job[p].plan \in {"abort", "record"}
<1>1. "acquire" \in Position
  BY DEF Position
<1>2. CASE Goto(p, "acquire")
  <2>1. Goes(p, "acquire") /\ Calm
    BY <1>1, <1>2, GotoGoes, BaseTypes DEF Calm
  <2>. QED
    BY <2>1 DEF Seek
<1>3. CASE Unclaimed(p)
  BY <1>3, UnclaimedMoves DEF Seek
<1>. QED
  BY <1>2, <1>3 DEF Seek

LEMMA AcquireMoves ==
  ASSUME Base, NEW p \in Process, Acquire(p)
  PROVE  /\ job[p].at = "acquire" /\ UNCHANGED canon /\ Elsewhere
         /\ \/ \E h \in Submission :
                 /\ L!Claim(h) /\ Apart(p) /\ job'[p].s = h
                 /\ job'[p].token = minted + 1 /\ job'[p].epoch = epoch[Lane] + 1
                 /\ job'[p].at = IF h = job[p].s THEN "claimed" ELSE "release"
                 /\ job'[p].knows = job[p].knows /\ job'[p].outcome = job[p].outcome /\ Keeps(p)
            \/ UNCHANGED ledger /\ Rests(p)
            \/ /\ UNCHANGED ledger
               /\ Moves(p, "attend", job[p].knows, job[p].outcome) /\ job'[p].plan = job[p].plan
               /\ job[p].plan \in {"abort", "record"}
<1>1. CASE /\ \E h \in Submission :
                /\ L!Claim(h)
                /\ Set(p, [job[p] EXCEPT !.s = h, !.token = minted + 1, !.epoch = epoch[Lane] + 1,
                                         !.at = IF h = job[p].s THEN "claimed" ELSE "release"])
           /\ UNCHANGED <<canon, ran, consent, budget>>
  <2>1. PICK h \in Submission :
          /\ L!Claim(h)
          /\ Set(p, [job[p] EXCEPT !.s = h, !.token = minted + 1, !.epoch = epoch[Lane] + 1,
                                   !.at = IF h = job[p].s THEN "claimed" ELSE "release"])
    BY <1>1
  <2>. DEFINE at == IF h = job[p].s THEN "claimed" ELSE "release"
              j == [job[p] EXCEPT !.s = h, !.token = minted + 1, !.epoch = epoch[Lane] + 1,
              !.at = at]
  <2>2. at \in Position
    BY DEF Position
  <2>3. Set(p, j)
    BY <2>1
  <2>. HIDE DEF at
  <2>0. minted + 1 \in Nat /\ epoch[Lane] + 1 \in Nat
    BY BaseTypes
  <2>4. /\ j \in Job /\ j.s = h /\ j.token = minted + 1 /\ j.epoch = epoch[Lane] + 1 /\ j.at = at
        /\ j.knows = job[p].knows /\ j.outcome = job[p].outcome
        /\ j.row = job[p].row /\ j.plan = job[p].plan
    BY <2>0, <2>2, BaseTypes DEF Job
  <2>. HIDE DEF j
  <2>5. job'[p] = j /\ Apart(p)
    BY <2>3, <2>4, SetJob, BaseTypes
  <2>. QED
    BY <1>1, <2>1, <2>4, <2>5 DEF Acquire, at, Elsewhere, Keeps
<1>2. CASE Unclaimed(p)
  BY <1>2, UnclaimedMoves DEF Acquire, Calm
<1>. QED
  BY <1>1, <1>2 DEF Acquire

LEMMA ReadTailMoves ==
  ASSUME Base, NEW p \in Process, ReadTail(p)
  PROVE  /\ job[p].at = "tail" /\ Calm
         /\ LET again == job[p].plan \in {"input", "marker"}
                kinds == IF again THEN Recorded(job[p].s) ELSE job[p].knows
            IN \E at \in Position :
                 /\ Moves(p, at, kinds, job[p].outcome)
                 /\ ~again => at = job[p].plan
                 /\ again => \/ at = "input"
                             \/ at = "marker" /\ "input" \in kinds
                             \/ at = "release"
<1>. DEFINE again == job[p].plan \in {"input", "marker"}
            kinds == IF again THEN Recorded(job[p].s) ELSE job[p].knows
            at == IF ~again THEN job[p].plan
                  ELSE IF "input" \notin kinds THEN "input"
                  ELSE IF ~job[p].row.applied THEN "marker" ELSE "release"
            row == IF at = "reconcile" THEN job[p].row ELSE NoSnapshot
            j == [job[p] EXCEPT !.knows = kinds, !.tail = Length, !.row = row, !.plan = "idle"]
<1>0. kinds \in SUBSET Kind /\ at \in Position /\ row \in Snapshot
  BY Places, BaseTypes, IdleType DEF Position
<1>1. /\ j \in Job /\ j.s = job[p].s /\ j.token = job[p].token /\ j.epoch = job[p].epoch
      /\ j.knows = kinds /\ j.outcome = job[p].outcome
  <2>. HIDE DEF kinds, row
  <2>1. "idle" \in Position
    BY DEF Position
  <2>. QED
    BY <1>0, <2>1, BaseTypes DEF Job
<1>2. job[p].at = "tail" /\ Only(p, Bound(j, at))
  BY DEF ReadTail
<1>. HIDE DEF j
<1>3. Moves(p, at, j.knows, j.outcome) /\ Calm
  BY <1>0, <1>1, <1>2, BoundMoves
<1>4. /\ ~again => at = job[p].plan
      /\ again => \/ at = "input"
                  \/ at = "marker" /\ "input" \in kinds
                  \/ at = "release"
  BY DEF at
<1>. QED
  BY <1>0, <1>1, <1>2, <1>3, <1>4

LEMMA AttendMoves ==
  ASSUME Base, NEW p \in Process, Attend(p)
  PROVE  /\ job[p].at = "attend" /\ UNCHANGED ledger /\ Elsewhere /\ LogForward /\ log' = log
         /\ Apart(p) /\ job'[p].at = job[p].plan /\ job'[p].s = job[p].s
            /\ job'[p].token = job[p].token
         /\ job'[p].knows = job[p].knows /\ job'[p].outcome = job[p].outcome
         /\ job'[p].plan = job[p].plan
         /\ job'[p].epoch = fence'[Lane]
<1>1. ASSUME NEW e \in Nat, Set(p, [[job[p] EXCEPT !.at = job[p].plan,
             !.tail = Length] EXCEPT !.epoch = e])
      PROVE  /\ Apart(p) /\ job'[p].at = job[p].plan /\ job'[p].s = job[p].s
                /\ job'[p].token = job[p].token
             /\ job'[p].knows = job[p].knows /\ job'[p].outcome = job[p].outcome
             /\ job'[p].plan = job[p].plan /\ job'[p].epoch = e
  <2>. DEFINE j == [[job[p] EXCEPT !.at = job[p].plan, !.tail = Length] EXCEPT !.epoch = e]
  <2>1. /\ j \in Job /\ j.at = job[p].plan /\ j.s = job[p].s /\ j.token = job[p].token
           /\ j.epoch = e
        /\ j.knows = job[p].knows /\ j.outcome = job[p].outcome /\ j.plan = job[p].plan
    BY BaseTypes DEF Job
  <2>2. Set(p, j)
    BY <1>1
  <2>. HIDE DEF j
  <2>. QED
    BY <2>1, <2>2, SetJob, BaseTypes
<1>2. CASE /\ T!Materialize(Lane, 0)
           /\ Set(p, [[job[p] EXCEPT !.at = job[p].plan, !.tail = Length] EXCEPT !.epoch = 0])
           /\ UNCHANGED <<ledger, ran, consent, budget>>
  <2>1. /\ fence[Lane] < 0 /\ fence'[Lane] = 0 /\ log' = log /\ TP!Next /\ T!TypeOK'
    BY <1>2, BaseTypes, MaterializeEffect
  <2>2. LogForward
    BY <2>1, LogKept, BaseTypes DEF LogForward
  <2>3. /\ Apart(p) /\ job'[p].at = job[p].plan /\ job'[p].s = job[p].s
           /\ job'[p].token = job[p].token
        /\ job'[p].knows = job[p].knows /\ job'[p].outcome = job[p].outcome
        /\ job'[p].plan = job[p].plan /\ job'[p].epoch = 0
    BY <1>1, <1>2
  <2>4. job[p].at = "attend"
    BY DEF Attend
  <2>. QED
    BY <1>2, <2>1, <2>2, <2>3, <2>4 DEF Elsewhere
<1>3. CASE /\ fence[Lane] >= 0
           /\ Only(p, [[job[p] EXCEPT !.at = job[p].plan,
              !.tail = Length] EXCEPT !.epoch = fence[Lane]])
  <2>1. fence[Lane] \in Nat
    BY <1>3, BaseTypes
  <2>2. UNCHANGED <<ledger, canon, ran, consent, budget>>
    BY <1>3 DEF Only
  <2>3. LogForward
    BY <2>2, LogStill, BaseTypes
  <2>4. fence' = fence /\ log' = log
    BY <2>2 DEF canon
  <2>. QED
    BY <1>1, <1>3, <2>1, <2>2, <2>3, <2>4 DEF Attend, Elsewhere, Only
<1>. QED
  BY <1>2, <1>3 DEF Attend

LEMMA FaultMoves ==
  ASSUME Base, NEW p \in Process, Crash(p) \/ Fail(p)
  PROVE  /\ UNCHANGED <<ledger, canon, ran, consent, sweeps>>
         /\ faults < MaxFault /\ faults' = faults + 1
         /\ Rests(p) \/ (Moves(p, "release", job[p].knows, job[p].outcome)
            /\ job'[p].plan = job[p].plan)
<1>1. CASE Crash(p)
  BY <1>1, IdleRests DEF Crash, Fault
<1>2. CASE Fail(p)
  <2>1. "release" \in Position /\ job[p].outcome \in Outcome \cup {None}
    BY BaseTypes DEF Position
  <2>2. Set(p, [job[p] EXCEPT !.at = "release", !.outcome = job[p].outcome])
    BY <1>2, AtOnly DEF Fail
  <2>3. Moves(p, "release", job[p].knows, job[p].outcome) /\ Keeps(p)
    BY <2>1, <2>2, EditMoves
  <2>. QED
    BY <1>2, <2>3 DEF Fail, Fault, Keeps
<1>. QED
  BY <1>1, <1>2

-----------------------------------------------------------------------------
(***************************************************************************)
(* Every step of a process keeps its course, and moves the stores forward.  *)
(***************************************************************************)
Budgeted ==
  /\ ran' \in [Submission -> Nat] /\ consent' \in [Submission -> Answers \cup {None}]
  /\ faults' \in 0..MaxFault /\ sweeps' \in 0..MaxSweep
Regular(p) == Forward /\ Apart(p) /\ Course(p)' /\ job'[p].token <= minted' /\ Budgeted

LEMMA Bounded ==
  ASSUME Base
  PROVE  /\ Elsewhere => Budgeted
         /\ Calm => Budgeted /\ Forward
         /\ UNCHANGED canon => LogForward
         /\ UNCHANGED ledger => LedgerForward
         /\ ran \in [Submission -> Nat] /\ consent \in [Submission -> Answers \cup {None}]
         /\ faults \in Nat /\ sweeps \in Nat /\ faults \in 0..MaxFault /\ sweeps \in 0..MaxSweep
<1>1. TypeOK /\ LedgerInv /\ T!TypeOK
  BY DEF Base, TypeOK
<1>2. /\ ran \in [Submission -> Nat] /\ consent \in [Submission -> Answers \cup {None}]
      /\ faults \in Nat /\ sweeps \in Nat /\ faults \in 0..MaxFault /\ sweeps \in 0..MaxSweep
  BY <1>1, AttemptConstants DEF TypeOK
<1>. QED
  BY <1>1, <1>2, LedgerKept, LogStill DEF Elsewhere, Budgeted, budget, Calm, Forward

LEMMA CourseOf ==
  ASSUME Base, NEW p \in Process
  PROVE  Course(p) /\ job[p].token <= minted /\ job[p].token \in Nat /\ minted \in Nat
         /\ (p \in Worker <=> ~Repairing(p)) /\ (Repairing(p) <=> p \in Recoverer)
  BY BaseTypes, AttemptConstants DEF Base, Process, Repairing

\* Going nowhere, giving up and coming to rest are always in order.
LEMMA CourseHeld ==
  ASSUME Base, NEW p \in Process
  PROVE  /\ Stays(p) => Course(p)'
         /\ Rests(p) => Course(p)'
         /\ \A kinds, o : Moves(p, "release", kinds, o) => Course(p)'
         /\ Goes(p, "release") => Course(p)'
<1>1. ASSUME Stays(p) PROVE Course(p)'
  BY <1>1, CourseOf DEF Stays, Moves, Keeps, Course, Where
<1>2. ASSUME Rests(p) PROVE Course(p)'
  BY <1>2 DEF Rests, Course, Where, ForWorkers, ForRecovery, WithClaim, OnRun, InRunOf, Attempting,
     Planning
<1>3. ASSUME NEW kinds, NEW o, Moves(p, "release", kinds, o) PROVE Course(p)'
  BY <1>3 DEF Moves, Course, Where, ForWorkers, ForRecovery, WithClaim, BeforeClaim, OnRun,
     InRunOf, Attempting, Planning
<1>. QED
  BY <1>1, <1>2, <1>3 DEF Goes

LEMMA TokenHeld ==
  ASSUME Base, NEW p \in Process, LedgerForward
  PROVE  /\ Rests(p) => job'[p].token <= minted'
         /\ \A at, kinds, o : Moves(p, at, kinds, o) => job'[p].token <= minted'
         /\ \A at : Goes(p, at) => job'[p].token <= minted'
         /\ Stays(p) => job'[p].token <= minted'
<1>1. minted \in Nat /\ minted' >= minted /\ minted' \in Nat
  <2>1. minted' \in Nat
    BY LedgerStep DEF Base, LedgerInv, LP!TypeOK
  <2>. QED
    BY <2>1, CourseOf DEF LedgerForward
<1>. QED
  BY <1>1, CourseOf DEF Rests, Moves, Goes, Stays

\* After an append only the position it leads to matters.
LEMMA AppendRegular ==
  ASSUME Base, NEW p \in Process, NEW k, NEW b, NEW tolerant, NEW then,
         AppendOutcome(p, k, b, tolerant, then),
         Written(p, k, then) => Course(p)'
  PROVE  Regular(p)
<1>1. Forward /\ Budgeted
  BY Bounded DEF AppendOutcome, Forward
<1>2. CASE Written(p, k, then)
  <2>1. job'[p].token <= minted'
    BY <1>1, <1>2, TokenHeld DEF Forward, Written
  <2>. QED
    BY <1>1, <1>2, <2>1 DEF Regular, Written, Moves
<1>3. CASE Stays(p)
  BY <1>1, <1>3, CourseHeld, TokenHeld DEF Regular, Stays, Moves, Forward
<1>4. CASE Goes(p, "release")
  BY <1>1, <1>4, CourseHeld, TokenHeld DEF Regular, Goes, Moves, Forward
<1>. QED
  BY <1>2, <1>3, <1>4 DEF AppendOutcome

LEMMA ApplyInputMoves ==
  ASSUME Base, NEW p \in Process, ApplyInput(p)
  PROVE  job[p].at = "input" /\ AppendOutcome(p, "input", "-", FALSE, "marker")
<1>1. "input" \in Kind /\ "-" \in Saying /\ "marker" \in Position /\ job[p].at = "input"
  BY BaseTypes, CourseOf DEF ApplyInput, Kind, Saying, Outcome, Position, Attempting, Course
<1>2. Appends(p, "input", "-", FALSE, "marker")
  BY DEF ApplyInput
<1>. QED
  BY <1>1, <1>2, AppendsOutcome, BaseTypes

LEMMA AppendClosedCallMoves ==
  ASSUME Base, NEW p \in Process, AppendClosedCall(p)
  PROVE  job[p].at = "answer"
         /\ AppendOutcome(p, "closed", "-", TRUE, (IF Repairing(p) THEN "release" ELSE "model"))
<1>1. "closed" \in Kind /\ "-" \in Saying
      /\ (IF Repairing(p) THEN "release" ELSE "model") \in Position /\ job[p].at = "answer"
  BY BaseTypes, CourseOf DEF AppendClosedCall, Kind, Saying, Outcome, Position, Attempting, Course
<1>2. Appends(p, "closed", "-", TRUE, (IF Repairing(p) THEN "release" ELSE "model"))
  BY DEF AppendClosedCall
<1>. QED
  BY <1>1, <1>2, AppendsOutcome, BaseTypes

LEMMA AppendUnknownMoves ==
  ASSUME Base, NEW p \in Process, AppendUnknown(p)
  PROVE  job[p].at = "unknown" /\ AppendOutcome(p, "unknown", "-", TRUE, "park")
<1>1. "unknown" \in Kind /\ "-" \in Saying /\ "park" \in Position /\ job[p].at = "unknown"
  BY BaseTypes, CourseOf DEF AppendUnknown, Kind, Saying, Outcome, Position, Attempting, Course
<1>2. Appends(p, "unknown", "-", TRUE, "park")
  BY DEF AppendUnknown
<1>. QED
  BY <1>1, <1>2, AppendsOutcome, BaseTypes

LEMMA CommitResponseMoves ==
  ASSUME Base, NEW p \in Process, CommitResponse(p)
  PROVE  job[p].at = "respond" /\ AppendOutcome(p, "response", "-", FALSE, "model")
<1>1. "response" \in Kind /\ "-" \in Saying /\ "model" \in Position /\ job[p].at = "respond"
  BY BaseTypes, CourseOf DEF CommitResponse, Kind, Saying, Outcome, Position, Attempting, Course
<1>2. Appends(p, "response", "-", FALSE, "model")
  BY DEF CommitResponse
<1>. QED
  BY <1>1, <1>2, AppendsOutcome, BaseTypes

LEMMA PrepareCallMoves ==
  ASSUME Base, NEW p \in Process, PrepareCall(p)
  PROVE  job[p].at = "prepare" /\ AppendOutcome(p, "prepared", "-", FALSE, "execute")
<1>1. "prepared" \in Kind /\ "-" \in Saying /\ "execute" \in Position /\ job[p].at = "prepare"
  BY BaseTypes, CourseOf DEF PrepareCall, Kind, Saying, Outcome, Position, Attempting, Course
<1>2. Appends(p, "prepared", "-", FALSE, "execute")
  BY DEF PrepareCall
<1>. QED
  BY <1>1, <1>2, AppendsOutcome, BaseTypes

LEMMA CommitResultsMoves ==
  ASSUME Base, NEW p \in Process, CommitResults(p)
  PROVE  job[p].at = "close" /\ AppendOutcome(p, "closed", "-", FALSE, "model")
<1>1. "closed" \in Kind /\ "-" \in Saying /\ "model" \in Position /\ job[p].at = "close"
  BY BaseTypes, CourseOf DEF CommitResults, Kind, Saying, Outcome, Position, Attempting, Course
<1>2. Appends(p, "closed", "-", FALSE, "model")
  BY DEF CommitResults
<1>. QED
  BY <1>1, <1>2, AppendsOutcome, BaseTypes

LEMMA CompleteRunMoves ==
  ASSUME Base, NEW p \in Process, CompleteRun(p)
  PROVE  job[p].at = "complete" /\ AppendOutcome(p, "final", "-", FALSE, "reserve")
<1>1. "final" \in Kind /\ "-" \in Saying /\ "reserve" \in Position /\ job[p].at = "complete"
  BY BaseTypes, CourseOf DEF CompleteRun, Kind, Saying, Outcome, Position, Attempting, Course
<1>2. Appends(p, "final", "-", FALSE, "reserve")
  BY DEF CompleteRun
<1>. QED
  BY <1>1, <1>2, AppendsOutcome, BaseTypes

LEMMA RecordHaltMoves ==
  ASSUME Base, NEW p \in Process, RecordHalt(p)
  PROVE  job[p].at = "halt" /\ AppendOutcome(p, "abort", "-", TRUE, job[p].plan)
<1>1. "abort" \in Kind /\ "-" \in Saying /\ job[p].plan \in Position /\ job[p].at = "halt"
  BY BaseTypes, CourseOf DEF RecordHalt, Kind, Saying, Outcome, Position, Attempting, Course
<1>2. Appends(p, "abort", "-", TRUE, job[p].plan)
  BY DEF RecordHalt
<1>. QED
  BY <1>1, <1>2, AppendsOutcome, BaseTypes

LEMMA RecordSettlementMoves ==
  ASSUME Base, NEW p \in Process, RecordSettlement(p)
  PROVE  job[p].at = "record" /\ AppendOutcome(p, "settled", job[p].outcome, TRUE, "finalize")
<1>1. "settled" \in Kind /\ job[p].outcome \in Saying /\ "finalize" \in Position
      /\ job[p].at = "record"
  BY BaseTypes, CourseOf DEF RecordSettlement, Kind, Saying, Outcome, Position, Attempting, Course
<1>2. Appends(p, "settled", job[p].outcome, TRUE, "finalize")
  BY DEF RecordSettlement
<1>. QED
  BY <1>1, <1>2, AppendsOutcome, BaseTypes

LEMMA RecordAbortMoves ==
  ASSUME Base, NEW p \in Process, RecordAbort(p)
  PROVE  /\ job[p].at = "abort"
         /\ \/ Goes(p, "audit") /\ Calm
            \/ AppendOutcome(p, "abort", "-", TRUE, "audit")
<1>1. "abort" \in Kind /\ "-" \in Saying /\ "audit" \in Position
  BY DEF Kind, Saying, Position
<1>2. CASE Goto(p, "audit")
  BY <1>1, <1>2, GotoGoes, BaseTypes DEF RecordAbort, Calm
<1>3. CASE Appends(p, "abort", "-", TRUE, "audit")
  BY <1>1, <1>3, AppendsOutcome, BaseTypes DEF RecordAbort
<1>. QED
  BY <1>2, <1>3 DEF RecordAbort

LEMMA AuditMoves ==
  ASSUME Base, NEW p \in Process, AuditOpenCalls(p)
  PROVE  /\ job[p].at = "audit"
         /\ \/ Goes(p, "reserve") /\ Calm
            \/ AppendOutcome(p, "unknown", "-", TRUE, "reserve")
<1>1. "unknown" \in Kind /\ "-" \in Saying /\ "reserve" \in Position
  BY DEF Kind, Saying, Position
<1>2. CASE Goto(p, "reserve")
  BY <1>1, <1>2, GotoGoes, BaseTypes DEF AuditOpenCalls, Calm
<1>3. CASE Appends(p, "unknown", "-", TRUE, "reserve")
  BY <1>1, <1>3, AppendsOutcome, BaseTypes DEF AuditOpenCalls
<1>. QED
  BY <1>2, <1>3 DEF AuditOpenCalls

-----------------------------------------------------------------------------

LEMMA ApplyInputRegular == ASSUME Base, NEW p \in Process, ApplyInput(p) PROVE Regular(p)
<1>0. Course(p) /\ job[p].token \in Nat /\ (p \in Worker <=> ~Repairing(p))
  BY CourseOf
<1>1. Written(p, "input", "marker") => Course(p)'
  BY <1>0, ApplyInputMoves DEF Written, Moves, Course, Where, ForWorkers, ForRecovery, WithClaim,
     BeforeClaim, OnRun, InRunOf, Attempting, Planning, Closing, Forgetful, Outcome
<1>. QED
  BY <1>1, ApplyInputMoves, AppendRegular

LEMMA AppendClosedCallRegular == ASSUME Base, NEW p \in Process, AppendClosedCall(p)
PROVE Regular(p)
<1>0. Course(p) /\ job[p].token \in Nat /\ (p \in Worker <=> ~Repairing(p))
  BY CourseOf
<1>1. Written(p, "closed", (IF Repairing(p) THEN "release" ELSE "model")) => Course(p)'
  BY <1>0, AppendClosedCallMoves DEF Written, Moves, Course, Where, ForWorkers, ForRecovery,
     WithClaim, BeforeClaim, OnRun, InRunOf, Attempting, Planning, Closing, Forgetful, Outcome
<1>. QED
  BY <1>1, AppendClosedCallMoves, AppendRegular

LEMMA AppendUnknownRegular == ASSUME Base, NEW p \in Process, AppendUnknown(p) PROVE Regular(p)
<1>0. Course(p) /\ job[p].token \in Nat /\ (p \in Worker <=> ~Repairing(p))
  BY CourseOf
<1>1. Written(p, "unknown", "park") => Course(p)'
  BY <1>0, AppendUnknownMoves DEF Written, Moves, Course, Where, ForWorkers, ForRecovery,
     WithClaim, BeforeClaim, OnRun, InRunOf, Attempting, Planning, Closing, Forgetful, Outcome
<1>. QED
  BY <1>1, AppendUnknownMoves, AppendRegular

LEMMA CommitResponseRegular == ASSUME Base, NEW p \in Process, CommitResponse(p) PROVE Regular(p)
<1>0. Course(p) /\ job[p].token \in Nat /\ (p \in Worker <=> ~Repairing(p))
  BY CourseOf
<1>1. Written(p, "response", "model") => Course(p)'
  BY <1>0, CommitResponseMoves DEF Written, Moves, Course, Where, ForWorkers, ForRecovery,
     WithClaim, BeforeClaim, OnRun, InRunOf, Attempting, Planning, Closing, Forgetful, Outcome
<1>. QED
  BY <1>1, CommitResponseMoves, AppendRegular

LEMMA PrepareCallRegular == ASSUME Base, NEW p \in Process, PrepareCall(p) PROVE Regular(p)
<1>0. Course(p) /\ job[p].token \in Nat /\ (p \in Worker <=> ~Repairing(p))
  BY CourseOf
<1>1. Written(p, "prepared", "execute") => Course(p)'
  BY <1>0, PrepareCallMoves DEF Written, Moves, Course, Where, ForWorkers, ForRecovery, WithClaim,
     BeforeClaim, OnRun, InRunOf, Attempting, Planning, Closing, Forgetful, Outcome
<1>. QED
  BY <1>1, PrepareCallMoves, AppendRegular

LEMMA CommitResultsRegular == ASSUME Base, NEW p \in Process, CommitResults(p) PROVE Regular(p)
<1>0. Course(p) /\ job[p].token \in Nat /\ (p \in Worker <=> ~Repairing(p))
  BY CourseOf
<1>1. Written(p, "closed", "model") => Course(p)'
  BY <1>0, CommitResultsMoves DEF Written, Moves, Course, Where, ForWorkers, ForRecovery,
     WithClaim, BeforeClaim, OnRun, InRunOf, Attempting, Planning, Closing, Forgetful, Outcome
<1>. QED
  BY <1>1, CommitResultsMoves, AppendRegular

LEMMA CompleteRunRegular == ASSUME Base, NEW p \in Process, CompleteRun(p) PROVE Regular(p)
<1>0. Course(p) /\ job[p].token \in Nat /\ (p \in Worker <=> ~Repairing(p))
  BY CourseOf
<1>1. Written(p, "final", "reserve") => Course(p)'
  BY <1>0, CompleteRunMoves DEF Written, Moves, Course, Where, ForWorkers, ForRecovery, WithClaim,
     BeforeClaim, OnRun, InRunOf, Attempting, Planning, Closing, Forgetful, Outcome
<1>. QED
  BY <1>1, CompleteRunMoves, AppendRegular

LEMMA RecordHaltRegular == ASSUME Base, NEW p \in Process, RecordHalt(p) PROVE Regular(p)
<1>0. Course(p) /\ job[p].token \in Nat /\ (p \in Worker <=> ~Repairing(p))
  BY CourseOf
<1>1. Written(p, "abort", job[p].plan) => Course(p)'
  BY <1>0, RecordHaltMoves DEF Written, Moves, Course, Where, ForWorkers, ForRecovery, WithClaim,
     BeforeClaim, OnRun, InRunOf, Attempting, Planning, Closing, Forgetful, Outcome
<1>. QED
  BY <1>1, RecordHaltMoves, AppendRegular

LEMMA RecordSettlementRegular == ASSUME Base, NEW p \in Process, RecordSettlement(p)
PROVE Regular(p)
<1>0. Course(p) /\ job[p].token \in Nat /\ (p \in Worker <=> ~Repairing(p))
  BY CourseOf
<1>1. Written(p, "settled", "finalize") => Course(p)'
  BY <1>0, RecordSettlementMoves DEF Written, Moves, Course, Where, ForWorkers, ForRecovery,
     WithClaim, BeforeClaim, OnRun, InRunOf, Attempting, Planning, Closing, Forgetful, Outcome
<1>. QED
  BY <1>1, RecordSettlementMoves, AppendRegular

LEMMA RecordAbortRegular == ASSUME Base, NEW p \in Process, RecordAbort(p) PROVE Regular(p)
<1>0. Course(p) /\ job[p].token \in Nat /\ (p \in Worker <=> ~Repairing(p))
  BY CourseOf
<1>1. Written(p, "abort", "audit") => Course(p)'
  BY <1>0, RecordAbortMoves DEF Written, Moves, Course, Where, ForWorkers, ForRecovery, WithClaim,
     BeforeClaim, OnRun, InRunOf, Attempting, Planning, Closing, Forgetful, Outcome
<1>2. CASE Goes(p, "audit") /\ Calm
  <2>1. Course(p)'
    BY <1>0, <1>2, RecordAbortMoves DEF Goes, Keeps, Moves, Course, Where, ForWorkers, ForRecovery,
       WithClaim, BeforeClaim, OnRun, InRunOf, Attempting, Planning, Closing, Forgetful, Outcome
  <2>. QED
    BY <1>2, <2>1, Bounded, TokenHeld DEF Regular, Goes, Moves, Forward
<1>3. CASE AppendOutcome(p, "abort", "-", TRUE, "audit")
  BY <1>1, <1>3, AppendRegular
<1>. QED
  BY <1>2, <1>3, RecordAbortMoves

LEMMA AuditOpenCallsRegular == ASSUME Base, NEW p \in Process, AuditOpenCalls(p) PROVE Regular(p)
<1>0. Course(p) /\ job[p].token \in Nat /\ (p \in Worker <=> ~Repairing(p))
  BY CourseOf
<1>1. Written(p, "unknown", "reserve") => Course(p)'
  BY <1>0, AuditMoves DEF Written, Moves, Course, Where, ForWorkers, ForRecovery, WithClaim,
     BeforeClaim, OnRun, InRunOf, Attempting, Planning, Closing, Forgetful, Outcome
<1>2. CASE Goes(p, "reserve") /\ Calm
  <2>1. Course(p)'
    BY <1>0, <1>2, AuditMoves DEF Goes, Keeps, Moves, Course, Where, ForWorkers, ForRecovery,
       WithClaim, BeforeClaim, OnRun, InRunOf, Attempting, Planning, Closing, Forgetful, Outcome
  <2>. QED
    BY <1>2, <2>1, Bounded, TokenHeld DEF Regular, Goes, Moves, Forward
<1>3. CASE AppendOutcome(p, "unknown", "-", TRUE, "reserve")
  BY <1>1, <1>3, AppendRegular
<1>. QED
  BY <1>2, <1>3, AuditMoves

LEMMA MovesRegular ==
  ASSUME Base, NEW p \in Process, LedgerForward, LogForward, Budgeted, Course(p)',
         \/ Rests(p) \/ Stays(p)
         \/ \E at, kinds, o : Moves(p, at, kinds, o)
         \/ \E at : Goes(p, at)
  PROVE  Regular(p)
  BY TokenHeld DEF Regular, Forward, Rests, Stays, Moves, Goes

LEMMA AttachRegular == ASSUME Base, NEW p \in Process, Attach(p) PROVE Regular(p)
<1>0. Course(p) /\ job[p].token \in Nat /\ (p \in Worker <=> ~Repairing(p))
      /\ (p \in Recoverer <=> Repairing(p))
  BY CourseOf
<1>1. LedgerForward /\ LogForward /\ Budgeted
  BY AttachMoves, Bounded, CallsForward, BaseTypes DEF Calm, Forward
<1>2. ASSUME Goes(p, IF Repairing(p) THEN "tail" ELSE "load")
      PROVE  Regular(p)
  <2>1. Course(p)'
    BY <1>0, <1>2, AttachMoves, CourseHeld DEF Goes, Keeps, Moves, Course, Where, ForWorkers,
       ForRecovery, WithClaim, BeforeClaim, OnRun, InRunOf, Attempting, Planning, Closing,
       Forgetful, Outcome, InRun
  <2>. QED
    BY <1>1, <1>2, <2>1, MovesRegular
<1>3. ASSUME Goes(p, "release")
      PROVE  Regular(p)
  <2>1. Course(p)'
    BY <1>0, <1>3, AttachMoves, CourseHeld DEF Goes, Keeps, Moves, Course, Where, ForWorkers,
       ForRecovery, WithClaim, BeforeClaim, OnRun, InRunOf, Attempting, Planning, Closing,
       Forgetful, Outcome, InRun
  <2>. QED
    BY <1>1, <1>3, <2>1, MovesRegular
<1>. QED
  BY <1>2, <1>3, AttachMoves

LEMMA LoadRegular == ASSUME Base, NEW p \in Process, Load(p) PROVE Regular(p)
<1>0. Course(p) /\ job[p].token \in Nat /\ (p \in Worker <=> ~Repairing(p))
      /\ (p \in Recoverer <=> Repairing(p))
  BY CourseOf
<1>1. LedgerForward /\ LogForward /\ Budgeted
  BY LoadMoves, Bounded, CallsForward, BaseTypes DEF Calm, Forward
<1>2. ASSUME Moves(p, "read", job[p].knows, job[p].outcome)
      PROVE  Regular(p)
  <2>1. Course(p)'
    BY <1>0, <1>2, LoadMoves, CourseHeld DEF Goes, Keeps, Moves, Course, Where, ForWorkers,
       ForRecovery, WithClaim, BeforeClaim, OnRun, InRunOf, Attempting, Planning, Closing,
       Forgetful, Outcome, InRun
  <2>. QED
    BY <1>1, <1>2, <2>1, MovesRegular
<1>. QED
  BY <1>2, LoadMoves

LEMMA ReadRegular == ASSUME Base, NEW p \in Process, Read(p) PROVE Regular(p)
<1>. DEFINE row == job[p].row
            kinds == Recorded(job[p].s)
            at == PlanOf(row, kinds)
<1>0. Course(p) /\ job[p].token \in Nat /\ row \in Snapshot
  BY CourseOf, BaseTypes
<1>1. /\ at = "record" => row.reserved # None /\ OutcomeOf(row) = row.reserved
      /\ at = "abort" => OutcomeOf(row) = "aborted"
      /\ at \in {"finalize", "record", "abort", "input", "marker", "reconcile"}
  BY DEF PlanOf, OutcomeOf
<1>2. row.reserved \in Outcome \cup {None}
  BY <1>0 DEF Snapshot
<1>3. job[p].at = "read" /\ Calm /\ Moves(p, at, kinds, OutcomeOf(row))
  BY ReadMoves
<1>. HIDE DEF row, kinds, at
<1>4. Course(p)'
  BY <1>0, <1>1, <1>2, <1>3 DEF Moves, Course, Where, ForWorkers, ForRecovery, WithClaim,
     BeforeClaim, OnRun, InRunOf, Attempting, Planning, Closing, Forgetful
<1>. QED
  BY <1>3, <1>4, Bounded, MovesRegular DEF Forward

LEMMA MarkInputRegular == ASSUME Base, NEW p \in Process, MarkInput(p) PROVE Regular(p)
<1>0. Course(p) /\ job[p].token \in Nat /\ (p \in Worker <=> ~Repairing(p))
      /\ (p \in Recoverer <=> Repairing(p))
  BY CourseOf
<1>1. LedgerForward /\ LogForward /\ Budgeted
  BY MarkMoves, Bounded, CallsForward, BaseTypes DEF Calm, Forward
<1>2. ASSUME Goes(p, IF Repairing(p) THEN "release" ELSE "reconcile")
      PROVE  Regular(p)
  <2>1. Course(p)'
    BY <1>0, <1>2, MarkMoves, CourseHeld DEF Goes, Keeps, Moves, Course, Where, ForWorkers,
       ForRecovery, WithClaim, BeforeClaim, OnRun, InRunOf, Attempting, Planning, Closing,
       Forgetful, Outcome, InRun
  <2>. QED
    BY <1>1, <1>2, <2>1, MovesRegular
<1>3. ASSUME Goes(p, "release")
      PROVE  Regular(p)
  <2>1. Course(p)'
    BY <1>0, <1>3, MarkMoves, CourseHeld DEF Goes, Keeps, Moves, Course, Where, ForWorkers,
       ForRecovery, WithClaim, BeforeClaim, OnRun, InRunOf, Attempting, Planning, Closing,
       Forgetful, Outcome, InRun
  <2>. QED
    BY <1>1, <1>3, <2>1, MovesRegular
<1>. QED
  BY <1>2, <1>3, MarkMoves

LEMMA ReconcileRegular == ASSUME Base, NEW p \in Process, Reconcile(p) PROVE Regular(p)
<1>0. Course(p) /\ job[p].token \in Nat /\ (p \in Worker <=> ~Repairing(p))
  BY CourseOf
<1>1. job[p].at = "reconcile" /\ Calm
  BY ReconcileMoves
<1>2. PICK at, kinds :
        /\ Moves(p, at, kinds, job[p].outcome)
        /\ at \in {"park", "unknown", "answer", "release", "model"}
        /\ Repairing(p) => at # "model"
  <2>. DEFINE kinds == IF Repairing(p) THEN job[p].knows ELSE Recorded(job[p].s)
              answer == IF Repairing(p) /\ ~job[p].row.answered THEN None ELSE consent[job[p].s]
  <2>1. Moves(p, Triage(p, kinds, answer), kinds, job[p].outcome)
    BY ReconcileMoves
  <2>. HIDE DEF kinds, answer
  <2>2. Repairing(p) => Triage(p, kinds, answer) # "model"
    BY DEF Triage
  <2>. QED
    BY <2>1, <2>2, Targets
<1>3. Course(p)'
  BY <1>0, <1>1, <1>2, BaseTypes DEF Moves, Course, Where, ForWorkers, ForRecovery, WithClaim,
     BeforeClaim, OnRun, InRunOf, Attempting, Planning, Closing, Forgetful, Process
<1>. QED
  BY <1>1, <1>2, <1>3, Bounded, MovesRegular DEF Forward

LEMMA ParkRegular == ASSUME Base, NEW p \in Process, Park(p) PROVE Regular(p)
<1>0. Course(p) /\ job[p].token \in Nat /\ (p \in Worker <=> ~Repairing(p))
      /\ (p \in Recoverer <=> Repairing(p))
  BY CourseOf
<1>1. LedgerForward /\ LogForward /\ Budgeted
  BY ParkMoves, Bounded, CallsForward, BaseTypes DEF Calm, Forward
<1>2. ASSUME Goes(p, "release")
      PROVE  Regular(p)
  <2>1. Course(p)'
    BY <1>0, <1>2, ParkMoves, CourseHeld DEF Goes, Keeps, Moves, Course, Where, ForWorkers,
       ForRecovery, WithClaim, BeforeClaim, OnRun, InRunOf, Attempting, Planning, Closing,
       Forgetful, Outcome, InRun
  <2>. QED
    BY <1>1, <1>2, <2>1, MovesRegular
<1>. QED
  BY <1>2, ParkMoves

LEMMA RunOnRegular == ASSUME Base, NEW p \in Process, RunOn(p) PROVE Regular(p)
<1>0. Course(p) /\ job[p].token \in Nat
  BY CourseOf
<1>1. job[p].at = "model" /\ Calm
  BY RunOnMoves
<1>2. PICK at \in {"reserve", "respond", "complete", "prepare", "execute"} :
        Moves(p, at, job[p].knows, "completed")
  BY RunOnMoves, Targets
<1>3. Course(p)'
  BY <1>0, <1>1, <1>2 DEF Moves, Course, Where, ForWorkers, ForRecovery, WithClaim, BeforeClaim,
     OnRun, InRunOf, Attempting, Planning, Closing, Forgetful, Outcome
<1>. QED
  BY <1>1, <1>2, <1>3, Bounded, MovesRegular DEF Forward

LEMMA RunFailsRegular == ASSUME Base, NEW p \in Process, RunFails(p) PROVE Regular(p)
<1>0. Course(p) /\ job[p].token \in Nat /\ (p \in Worker <=> ~Repairing(p))
      /\ (p \in Recoverer <=> Repairing(p))
  BY CourseOf
<1>1. LedgerForward /\ LogForward /\ Budgeted
  BY RunFailsMoves, Bounded, CallsForward, BaseTypes DEF Calm, Forward
<1>2. ASSUME Moves(p, "reserve", job[p].knows, "failed")
      PROVE  Regular(p)
  <2>1. Course(p)'
    BY <1>0, <1>2, RunFailsMoves, CourseHeld DEF Goes, Keeps, Moves, Course, Where, ForWorkers,
       ForRecovery, WithClaim, BeforeClaim, OnRun, InRunOf, Attempting, Planning, Closing,
       Forgetful, Outcome, InRun
  <2>. QED
    BY <1>1, <1>2, <2>1, MovesRegular
<1>. QED
  BY <1>2, RunFailsMoves

LEMMA ExecuteRegular == ASSUME Base, NEW p \in Process, Execute(p) PROVE Regular(p)
<1>0. Course(p) /\ job[p].token \in Nat /\ (p \in Worker <=> ~Repairing(p))
      /\ (p \in Recoverer <=> Repairing(p))
  BY CourseOf
<1>1. LedgerForward /\ LogForward /\ Budgeted
  <2>1. ran' \in [Submission -> Nat]
    BY ExecuteMoves, Bounded, BaseTypes
  <2>. QED
    BY <2>1, ExecuteMoves, Bounded DEF Budgeted, budget
<1>2. ASSUME Moves(p, "close", job[p].knows, job[p].outcome)
      PROVE  Regular(p)
  <2>1. Course(p)'
    BY <1>0, <1>2, ExecuteMoves, CourseHeld DEF Goes, Keeps, Moves, Course, Where, ForWorkers,
       ForRecovery, WithClaim, BeforeClaim, OnRun, InRunOf, Attempting, Planning, Closing,
       Forgetful, Outcome, InRun
  <2>. QED
    BY <1>1, <1>2, <2>1, MovesRegular
<1>. QED
  BY <1>2, ExecuteMoves

LEMMA WatchRegular == ASSUME Base, NEW p \in Process, Watch(p) PROVE Regular(p)
<1>0. Course(p) /\ job[p].token \in Nat /\ (p \in Worker <=> ~Repairing(p))
      /\ (p \in Recoverer <=> Repairing(p))
  BY CourseOf
<1>1. LedgerForward /\ LogForward /\ Budgeted
  BY WatchMoves, Bounded, CallsForward, BaseTypes DEF Calm, Forward
<1>2. ASSUME Moves(p, "halt", job[p].knows, job[p].outcome), job'[p].plan = job[p].at
      PROVE  Regular(p)
  <2>1. Course(p)'
    BY <1>0, <1>2, WatchMoves, CourseHeld DEF Goes, Keeps, Moves, Course, Where, ForWorkers,
       ForRecovery, WithClaim, BeforeClaim, OnRun, InRunOf, Attempting, Planning, Closing,
       Forgetful, Outcome, InRun
  <2>. QED
    BY <1>1, <1>2, <2>1, MovesRegular
<1>. QED
  BY <1>2, WatchMoves

LEMMA HaltRegular == ASSUME Base, NEW p \in Process, Halt(p) PROVE Regular(p)
<1>0. Course(p) /\ job[p].token \in Nat /\ (p \in Worker <=> ~Repairing(p))
      /\ (p \in Recoverer <=> Repairing(p))
  BY CourseOf
<1>1. LedgerForward /\ LogForward /\ Budgeted
  BY HaltMoves, Bounded, CallsForward, BaseTypes DEF Calm, Forward
<1>2. ASSUME Moves(p, "reserve", job[p].knows, "aborted")
      PROVE  Regular(p)
  <2>1. Course(p)'
    BY <1>0, <1>2, HaltMoves, CourseHeld DEF Goes, Keeps, Moves, Course, Where, ForWorkers,
       ForRecovery, WithClaim, BeforeClaim, OnRun, InRunOf, Attempting, Planning, Closing,
       Forgetful, Outcome, InRun
  <2>. QED
    BY <1>1, <1>2, <2>1, MovesRegular
<1>. QED
  BY <1>2, HaltMoves

LEMMA RenewRegular == ASSUME Base, NEW p \in Process, Renew(p) PROVE Regular(p)
<1>0. Course(p) /\ job[p].token \in Nat /\ (p \in Worker <=> ~Repairing(p))
      /\ (p \in Recoverer <=> Repairing(p))
  BY CourseOf
<1>1. LedgerForward /\ LogForward /\ Budgeted
  BY RenewMoves, Bounded, CallsForward, BaseTypes DEF Calm, Forward
<1>2. ASSUME Goes(p, job[p].at)
      PROVE  Regular(p)
  <2>1. Course(p)'
    BY <1>0, <1>2, RenewMoves, CourseHeld DEF Goes, Keeps, Moves, Course, Where, ForWorkers,
       ForRecovery, WithClaim, BeforeClaim, OnRun, InRunOf, Attempting, Planning, Closing,
       Forgetful, Outcome, InRun
  <2>. QED
    BY <1>1, <1>2, <2>1, MovesRegular
<1>3. ASSUME Goes(p, "release")
      PROVE  Regular(p)
  <2>1. Course(p)'
    BY <1>0, <1>3, RenewMoves, CourseHeld DEF Goes, Keeps, Moves, Course, Where, ForWorkers,
       ForRecovery, WithClaim, BeforeClaim, OnRun, InRunOf, Attempting, Planning, Closing,
       Forgetful, Outcome, InRun
  <2>. QED
    BY <1>1, <1>3, <2>1, MovesRegular
<1>. QED
  BY <1>2, <1>3, RenewMoves

LEMMA ReserveRegular == ASSUME Base, NEW p \in Process, Reserve(p) PROVE Regular(p)
<1>0. Course(p) /\ job[p].token \in Nat /\ (p \in Worker <=> ~Repairing(p))
      /\ (p \in Recoverer <=> Repairing(p))
  BY CourseOf
<1>1. LedgerForward /\ LogForward /\ Budgeted
  <2>1. job[p].outcome \in Outcome
    BY <1>0, ReserveMoves DEF Course
  <2>. QED
    BY <2>1, ReserveMoves, Bounded, CallsForward, BaseTypes
<1>2. ASSUME Goes(p, "record")
      PROVE  Regular(p)
  <2>1. Course(p)'
    BY <1>0, <1>2, ReserveMoves, CourseHeld DEF Goes, Keeps, Moves, Course, Where, ForWorkers,
       ForRecovery, WithClaim, BeforeClaim, OnRun, InRunOf, Attempting, Planning, Closing,
       Forgetful, Outcome, InRun
  <2>. QED
    BY <1>1, <1>2, <2>1, MovesRegular
<1>3. ASSUME Goes(p, "release")
      PROVE  Regular(p)
  <2>1. Course(p)'
    BY <1>0, <1>3, ReserveMoves, CourseHeld DEF Goes, Keeps, Moves, Course, Where, ForWorkers,
       ForRecovery, WithClaim, BeforeClaim, OnRun, InRunOf, Attempting, Planning, Closing,
       Forgetful, Outcome, InRun
  <2>. QED
    BY <1>1, <1>3, <2>1, MovesRegular
<1>. QED
  BY <1>2, <1>3, ReserveMoves

LEMMA FinalizeRegular == ASSUME Base, NEW p \in Process, Finalize(p) PROVE Regular(p)
<1>0. Course(p) /\ job[p].token \in Nat /\ (p \in Worker <=> ~Repairing(p))
      /\ (p \in Recoverer <=> Repairing(p))
  BY CourseOf
<1>1. LedgerForward /\ LogForward /\ Budgeted
  BY FinalizeMoves, Bounded, CallsForward, BaseTypes DEF Calm, Forward
<1>2. ASSUME Goes(p, "release")
      PROVE  Regular(p)
  <2>1. Course(p)'
    BY <1>0, <1>2, FinalizeMoves, CourseHeld DEF Goes, Keeps, Moves, Course, Where, ForWorkers,
       ForRecovery, WithClaim, BeforeClaim, OnRun, InRunOf, Attempting, Planning, Closing,
       Forgetful, Outcome, InRun
  <2>. QED
    BY <1>1, <1>2, <2>1, MovesRegular
<1>. QED
  BY <1>2, FinalizeMoves

LEMMA ReleaseRegular == ASSUME Base, NEW p \in Process, Release(p) PROVE Regular(p)
<1>0. Course(p) /\ job[p].token \in Nat /\ (p \in Worker <=> ~Repairing(p))
      /\ (p \in Recoverer <=> Repairing(p))
  BY CourseOf
<1>1. LedgerForward /\ LogForward /\ Budgeted
  BY ReleaseMoves, Bounded, CallsForward, BaseTypes DEF Calm, Forward
<1>2. ASSUME Rests(p)
      PROVE  Regular(p)
  <2>1. Course(p)'
    BY <1>0, <1>2, ReleaseMoves, CourseHeld DEF Goes, Keeps, Moves, Course, Where, ForWorkers,
       ForRecovery, WithClaim, BeforeClaim, OnRun, InRunOf, Attempting, Planning, Closing,
       Forgetful, Outcome, InRun
  <2>. QED
    BY <1>1, <1>2, <2>1, MovesRegular
<1>. QED
  BY <1>2, ReleaseMoves

LEMMA WakeRegular == ASSUME Base, NEW p \in Process, Wake(p) PROVE Regular(p)
<1>0. Course(p) /\ job[p].token \in Nat /\ (p \in Worker <=> ~Repairing(p))
      /\ (p \in Recoverer <=> Repairing(p))
  BY CourseOf
<1>1. LedgerForward /\ LogForward /\ Budgeted
  BY WakeMoves, Bounded, CallsForward, BaseTypes DEF Calm, Forward
<1>2. ASSUME Goes(p, "release")
      PROVE  Regular(p)
  <2>1. Course(p)'
    BY <1>0, <1>2, WakeMoves, CourseHeld DEF Goes, Keeps, Moves, Course, Where, ForWorkers,
       ForRecovery, WithClaim, BeforeClaim, OnRun, InRunOf, Attempting, Planning, Closing,
       Forgetful, Outcome, InRun
  <2>. QED
    BY <1>1, <1>2, <2>1, MovesRegular
<1>. QED
  BY <1>2, WakeMoves

LEMMA SeekRegular == ASSUME Base, NEW p \in Process, Seek(p) PROVE Regular(p)
<1>0. Course(p) /\ job[p].token \in Nat /\ (p \in Worker <=> ~Repairing(p))
      /\ (p \in Recoverer <=> Repairing(p))
  BY CourseOf
<1>1. LedgerForward /\ LogForward /\ Budgeted
  BY SeekMoves, Bounded, CallsForward, BaseTypes DEF Calm, Forward
<1>2. ASSUME Goes(p, "acquire")
      PROVE  Regular(p)
  <2>1. Course(p)'
    BY <1>0, <1>2, SeekMoves, CourseHeld DEF Goes, Keeps, Moves, Course, Where, ForWorkers,
       ForRecovery, WithClaim, BeforeClaim, OnRun, InRunOf, Attempting, Planning, Closing,
       Forgetful, Outcome, InRun
  <2>. QED
    BY <1>1, <1>2, <2>1, MovesRegular
<1>3. ASSUME Rests(p)
      PROVE  Regular(p)
  <2>1. Course(p)'
    BY <1>0, <1>3, SeekMoves, CourseHeld DEF Goes, Keeps, Moves, Course, Where, ForWorkers,
       ForRecovery, WithClaim, BeforeClaim, OnRun, InRunOf, Attempting, Planning, Closing,
       Forgetful, Outcome, InRun
  <2>. QED
    BY <1>1, <1>3, <2>1, MovesRegular
<1>4. ASSUME Moves(p, "attend", job[p].knows, job[p].outcome), job'[p].plan = job[p].plan,
             job[p].plan \in {"abort", "record"}
      PROVE  Regular(p)
  <2>1. Course(p)'
    BY <1>0, <1>4, SeekMoves, CourseHeld DEF Goes, Keeps, Moves, Course, Where, ForWorkers,
       ForRecovery, WithClaim, BeforeClaim, OnRun, InRunOf, Attempting, Planning, Closing,
       Forgetful, Outcome, InRun
  <2>. QED
    BY <1>1, <1>4, <2>1, MovesRegular
<1>. QED
  BY <1>2, <1>3, <1>4, SeekMoves

LEMMA InspectRegular == ASSUME Base, NEW p \in Process, Inspect(p) PROVE Regular(p)
<1>. DEFINE row == SnapshotOf(job[p].s)
            plan == Repair(row, job[p].knows)
            at == IF plan \in {"wake", "finalize"} THEN plan ELSE "seek"
<1>0. Course(p) /\ job[p].token \in Nat /\ job[p].at = "inspect" /\ Calm /\ row \in Snapshot
  BY CourseOf, InspectMoves, BaseTypes, SnapshotType
<1>1. /\ plan = "record" => row.reserved # None /\ OutcomeOf(row) = row.reserved
      /\ plan = "abort" => OutcomeOf(row) = "aborted"
      /\ plan \in {"idle", "wake", "finalize"} \cup Plans
  BY RepairTargets, Targets DEF PlanOf, OutcomeOf, Plans
<1>2. row.reserved \in Outcome \cup {None}
  BY <1>0 DEF Snapshot
<1>3. \/ Rests(p)
      \/ /\ plan # "idle" /\ Moves(p, at, job[p].knows, OutcomeOf(row)) /\ job'[p].plan = plan
  BY InspectMoves
<1>4. (at = "seek" /\ plan \in Plans) \/ at \in {"wake", "finalize"} \/ plan = "idle"
  BY <1>1
<1>. HIDE DEF row, plan, at
<1>5. Course(p)'
  BY <1>0, <1>1, <1>2, <1>3, <1>4, CourseHeld DEF Moves, Course, Where, ForWorkers, ForRecovery,
     WithClaim, BeforeClaim, OnRun, InRunOf, Attempting, Planning, Closing, Forgetful
<1>. QED
  BY <1>0, <1>3, <1>5, Bounded, MovesRegular DEF Forward

LEMMA AcquireRegular == ASSUME Base, NEW p \in Process, Acquire(p) PROVE Regular(p)
<1>0. Course(p) /\ job[p].token \in Nat /\ minted \in Nat
  BY CourseOf
<1>1. LedgerForward /\ LogForward /\ Budgeted
  BY AcquireMoves, Bounded, CallsForward, BaseTypes
<1>2. ASSUME NEW h \in Submission,
             /\ L!Claim(h) /\ Apart(p) /\ job'[p].s = h
             /\ job'[p].token = minted + 1 /\ job'[p].epoch = epoch[Lane] + 1
             /\ job'[p].at = IF h = job[p].s THEN "claimed" ELSE "release"
             /\ job'[p].knows = job[p].knows /\ job'[p].outcome = job[p].outcome /\ Keeps(p)
      PROVE  Regular(p)
  <2>1. Course(p)'
    BY <1>0, <1>2, AcquireMoves DEF Keeps, Course, Where, ForWorkers, ForRecovery, WithClaim,
       BeforeClaim, OnRun, InRunOf, Attempting, Planning
  <2>2. minted' = minted + 1
    BY <1>2, ClaimEffect, BaseTypes
  <2>. QED
    BY <1>0, <1>1, <1>2, <2>1, <2>2 DEF Regular, Forward
<1>3. ASSUME Rests(p) PROVE Regular(p)
  BY <1>1, <1>3, CourseHeld, MovesRegular
<1>4. ASSUME Moves(p, "attend", job[p].knows, job[p].outcome), job'[p].plan = job[p].plan,
             job[p].plan \in {"abort", "record"}
      PROVE  Regular(p)
  <2>1. Course(p)'
    BY <1>0, <1>4, AcquireMoves DEF Moves, Course, Where, ForWorkers, ForRecovery, WithClaim,
       BeforeClaim, OnRun, InRunOf, Attempting, Planning, Closing, Forgetful
  <2>. QED
    BY <1>1, <1>4, <2>1, MovesRegular
<1>. QED
  BY <1>2, <1>3, <1>4, AcquireMoves

LEMMA ClaimRegular == ASSUME Base, NEW p \in Process, NEW s \in Submission, Claim(p, s)
PROVE Regular(p)
<1>0. minted \in Nat
  BY BaseTypes
<1>1. LedgerForward /\ LogForward /\ Budgeted
  BY ClaimMoves, Bounded, CallsForward, BaseTypes
<1>2. Course(p)'
  BY <1>0, ClaimMoves, AttemptConstants DEF Course, Where, ForWorkers, ForRecovery, WithClaim,
     BeforeClaim, OnRun, InRunOf, Attempting, Planning, Plans
<1>3. minted' = minted + 1
  BY ClaimMoves, ClaimEffect, BaseTypes
<1>. QED
  BY <1>0, <1>1, <1>2, <1>3, ClaimMoves DEF Regular, Forward

LEMMA SweepRegular == ASSUME Base, NEW p \in Process, NEW s \in Submission, Sweep(p, s)
PROVE Regular(p)
<1>1. LedgerForward /\ LogForward
  BY SweepMoves, Bounded
<1>2. Budgeted
  BY SweepMoves, Bounded, AttemptConstants DEF Budgeted
<1>3. Course(p)'
  BY SweepMoves DEF Course, Where, ForWorkers, ForRecovery, WithClaim, BeforeClaim, OnRun, InRunOf,
     Attempting, Planning
<1>4. minted' = minted /\ minted \in Nat
  BY SweepMoves, BaseTypes DEF ledger
<1>. QED
  BY <1>1, <1>2, <1>3, <1>4, SweepMoves DEF Regular, Forward

LEMMA ReadTailRegular == ASSUME Base, NEW p \in Process, ReadTail(p) PROVE Regular(p)
<1>0. Course(p) /\ job[p].token \in Nat /\ job[p].at = "tail" /\ Calm
  BY CourseOf, ReadTailMoves
<1>1. PICK at, kinds :
        /\ Moves(p, at, kinds, job[p].outcome)
        /\ at = job[p].plan \/ at \in {"input", "marker", "release"}
  BY ReadTailMoves
<1>2. Course(p)'
  BY <1>0, <1>1 DEF Moves, Course, Where, ForWorkers, ForRecovery, WithClaim, BeforeClaim, OnRun,
     InRunOf, Attempting, Planning, Closing, Forgetful, Plans
<1>. QED
  BY <1>0, <1>1, <1>2, Bounded, MovesRegular DEF Forward

LEMMA AttendRegular == ASSUME Base, NEW p \in Process, Attend(p) PROVE Regular(p)
<1>0. Course(p) /\ job[p].token \in Nat /\ minted \in Nat /\ job[p].token <= minted
  BY CourseOf
<1>1. LedgerForward /\ LogForward /\ Budgeted
  BY AttendMoves, Bounded
<1>2. Course(p)'
  BY <1>0, AttendMoves DEF Course, Where, ForWorkers, ForRecovery, WithClaim, BeforeClaim, OnRun,
     InRunOf, Attempting, Planning
<1>3. minted' = minted
  BY AttendMoves DEF ledger
<1>. QED
  BY <1>0, <1>1, <1>2, <1>3, AttendMoves DEF Regular, Forward

LEMMA FaultRegular == ASSUME Base, NEW p \in Process, Crash(p) \/ Fail(p) PROVE Regular(p)
<1>1. LedgerForward /\ LogForward
  BY FaultMoves, Bounded
<1>2. Budgeted
  BY FaultMoves, Bounded, AttemptConstants DEF Budgeted
<1>3. Course(p)'
  BY FaultMoves, CourseHeld
<1>. QED
  BY <1>1, <1>2, <1>3, FaultMoves, MovesRegular

-----------------------------------------------------------------------------
\* Steps outside the processes leave every job alone.
LEMMA OthersForward ==
  ASSUME Base,
         \/ Operate
         \/ \E s \in Submission : LeaseExpires(s)
         \/ \E i \in 1..MaxForeign : ForeignAppend(i)
  PROVE  Forward /\ Budgeted /\ job' = job /\ ran' = ran
<1>1. ASSUME NEW s \in Submission, RequestAbort(s)
      PROVE  Forward /\ Budgeted /\ job' = job /\ ran' = ran
  <2>1. minted \in Nat /\ 0 \in 0..minted /\ LedgerInv
    BY AttemptConstants, RowTypes DEF Base, Submission
  <2>. QED
    BY <1>1, <2>1, CallsForward, Bounded DEF RequestAbort, Forward, Elsewhere
<1>2. ASSUME NEW s \in Submission, NEW answer \in Choice \cap Answers, ResolveUnknown(s, answer)
      PROVE  Forward /\ Budgeted /\ job' = job /\ ran' = ran
  <2>1. minted \in Nat /\ 0 \in 0..minted /\ LedgerInv
    BY AttemptConstants, RowTypes DEF Base, Submission
  <2>2. consent' \in [Submission -> Answers \cup {None}]
    BY <1>2, Bounded DEF ResolveUnknown
  <2>3. LedgerForward
    BY <1>2, <2>1, CallsForward DEF ResolveUnknown
  <2>. QED
    BY <1>2, <2>2, <2>3, Bounded DEF ResolveUnknown, Forward, Budgeted, budget
<1>3. ASSUME NEW s \in Submission, LeaseExpires(s)
      PROVE  Forward /\ Budgeted /\ job' = job /\ ran' = ran
  <2>1. minted \in Nat /\ 0 \in 0..minted /\ LedgerInv
    BY AttemptConstants, RowTypes DEF Base, Submission
  <2>2. faults' \in 0..MaxFault
    BY <1>3, Bounded, AttemptConstants DEF LeaseExpires
  <2>3. LedgerForward
    BY <1>3, <2>1, CallsForward DEF LeaseExpires
  <2>. QED
    BY <1>3, <2>2, <2>3, Bounded DEF LeaseExpires, Forward, Budgeted
<1>4. ASSUME NEW i \in 1..MaxForeign, ForeignAppend(i)
      PROVE  Forward /\ Budgeted /\ job' = job /\ ran' = ran
  <2>1. T!TypeOK /\ Length \in Nat /\ fence[Lane] \in Nat \cup {-1}
    BY LogTypes DEF Base, TypeOK
  <2>2. "-" \in Saying /\ fence[Lane] \in Nat
    BY <1>4, <2>1 DEF Saying, ForeignAppend
  <2>3. /\ \A r \in Submission : Recorded(r)' = Recorded(r)
        /\ fence' = fence /\ TP!Next /\ T!TypeOK'
    BY <1>4, <2>1, <2>2, LandOther DEF ForeignAppend
  <2>4. LogForward
    BY <2>1, <2>3 DEF LogForward
  <2>. QED
    BY <1>4, <2>4, Bounded DEF ForeignAppend, Forward, Elsewhere
<1>. QED
  BY <1>1, <1>2, <1>3, <1>4 DEF Operate

LEMMA StepRegular ==
  ASSUME Base, NEW p \in Process, Step(p)
  PROVE  Regular(p)
  BY AttachRegular, LoadRegular, ReadRegular, ApplyInputRegular, MarkInputRegular, ReconcileRegular,
     AppendClosedCallRegular, AppendUnknownRegular, ParkRegular, RunOnRegular, RunFailsRegular,
     CommitResponseRegular, PrepareCallRegular, ExecuteRegular, CommitResultsRegular,
     CompleteRunRegular, RecordHaltRegular, RecordAbortRegular, AuditOpenCallsRegular,
     ReserveRegular,
     RecordSettlementRegular, FinalizeRegular, ReleaseRegular, InspectRegular, WakeRegular,
     SeekRegular, AcquireRegular, ReadTailRegular, AttendRegular
  DEF Step

\* Whoever takes a step, both stores only move forward.
LEMMA NextForward ==
  ASSUME Base, Next
  PROVE  Forward /\ Budgeted /\ (job' = job \/ \E p \in Process : Regular(p))
<1>1. ASSUME NEW p \in Process,
             \/ Step(p) \/ Watch(p) \/ Halt(p) \/ Renew(p) \/ Crash(p) \/ Fail(p)
             \/ \E s \in Submission : Claim(p, s) \/ Sweep(p, s)
      PROVE  Regular(p)
  BY <1>1, StepRegular, WatchRegular, HaltRegular, RenewRegular, FaultRegular, ClaimRegular,
     SweepRegular
<1>. QED
  BY <1>1, OthersForward DEF Next, Regular

LEMMA BaseInit == Init => Base
<1>. SUFFICES ASSUME Init PROVE Base
  OBVIOUS
<1>1. LedgerInv
  BY LedgerInit
<1>2. L!TypeOK
  BY <1>1, SameLedgerState DEF LedgerInv
<1>3. T!TypeOK
  BY DEF Init, T!Init, T!TypeOK, T!Unmaterialized
<1>4. job \in [Process -> Job] /\ \A p \in Process : job[p] = Idle
  BY IdleType DEF Init
<1>5. \A p \in Process : job[p].token <= minted /\ Course(p)
  BY <1>4, IdleType DEF Init, Course, Where, ForWorkers, ForRecovery, WithClaim, OnRun, InRunOf,
     Attempting, Planning
<1>6. TypeOK
  BY <1>2, <1>3, <1>4, AttemptConstants DEF Init, TypeOK
<1>. QED
  BY <1>1, <1>5, <1>6 DEF Base

LEMMA BaseStep == Base /\ [Next]_vars => Base'
<1>. SUFFICES ASSUME Base, [Next]_vars PROVE Base'
  OBVIOUS
<1>1. CASE Next
  <2>1. Forward /\ Budgeted
    BY <1>1, NextForward
  <2>2. LedgerInv'
    BY <2>1, LedgerStep DEF Base, Forward
  <2>3. L!TypeOK'
    <3>1. LP!TypeOK'
      BY <2>2 DEF LedgerInv
    <3>. QED
      BY <3>1 DEF L!TypeOK, LP!TypeOK, L!Admission, LP!Admission, L!Row, LP!Row, L!Origins,
         LP!Origins,
         L!SubmissionState, LP!SubmissionState, L!BeforeTerminalizing, LP!BeforeTerminalizing,
         L!BeforeInputApplied, LP!BeforeInputApplied, L!Reservation, LP!Reservation, L!Waiting,
         LP!Waiting, L!Terminal, LP!Terminal
  <2>4. T!TypeOK'
    BY <2>1 DEF Forward, LogForward
  <2>5. /\ job' \in [Process -> Job]
        /\ \A p \in Process : job'[p].token <= minted' /\ Course(p)'
    <3>1. CASE job' = job
      <4>1. minted <= minted' /\ minted \in Nat /\ minted' \in Nat
        BY <2>1, <2>2 DEF Forward, LedgerForward, Base, LedgerInv, LP!TypeOK
      <4>2. \A p \in Process : job[p].token \in Nat /\ job[p].token <= minted /\ Course(p)
        BY BaseTypes DEF Base
      <4>3. \A p \in Process : Course(p)'
        BY <3>1, <4>2 DEF Course, Where
      <4>4. job \in [Process -> Job]
        BY DEF Base, TypeOK
      <4>. QED
        BY <3>1, <4>1, <4>2, <4>3, <4>4
    <3>2. ASSUME NEW p \in Process, Regular(p)
          PROVE  /\ job' \in [Process -> Job]
                 /\ \A q \in Process : job'[q].token <= minted' /\ Course(q)'
      <4>1. minted <= minted' /\ minted \in Nat /\ minted' \in Nat
        BY <2>1, <2>2 DEF Forward, LedgerForward, Base, LedgerInv, LP!TypeOK
      <4>2. ASSUME NEW q \in Process, q # p PROVE job'[q].token <= minted' /\ Course(q)'
        <5>1. job'[q] = job[q] /\ job[q].token \in Nat /\ job[q].token <= minted /\ Course(q)
          BY <3>2, <4>2, CourseOf DEF Regular, Apart
        <5>2. Course(q)'
          BY <5>1 DEF Course, Where
        <5>. QED
          BY <4>1, <5>1, <5>2
      <4>. QED
        BY <3>2, <4>2 DEF Regular, Apart
    <3>. QED
      BY <1>1, <3>1, <3>2, NextForward
  <2>6. TypeOK'
    BY <2>1, <2>3, <2>4, <2>5 DEF TypeOK, Budgeted
  <2>. QED
    BY <2>2, <2>5, <2>6 DEF Base
<1>2. CASE UNCHANGED vars
  <2>1. LedgerForward
    BY <1>2, LedgerKept DEF Base, vars, ledger
  <2>2. LedgerInv'
    BY <2>1, LedgerStep DEF Base
  <2>3. L!TypeOK'
    BY <1>2 DEF Base, TypeOK, L!TypeOK, vars, ledger
  <2>4. T!TypeOK'
    BY <1>2 DEF Base, TypeOK, T!TypeOK, vars, canon
  <2>5. TypeOK'
    BY <1>2, <2>3, <2>4 DEF Base, TypeOK, vars
  <2>6. \A p \in Process : job'[p].token <= minted' /\ Course(p)'
    BY <1>2 DEF Base, vars, ledger, Course, Where
  <2>. QED
    BY <2>2, <2>5, <2>6 DEF Base
<1>. QED
  BY <1>1, <1>2

LEMMA AlwaysBase == Spec => []Base
  BY BaseInit, BaseStep, PTL DEF Spec

\* Every variable of the coordinator keeps its type: the rows, the log and the
\* memory of every process.
THEOREM TypeCorrect == Spec => []TypeOK
<1>1. Base => TypeOK
  BY DEF Base
<1>. QED
  BY <1>1, AlwaysBase, PTL

\* Whatever the coordinator, recovery and operators do, the log is only ever
\* used by its own rules: it is fenced by epochs that only rise and grows at
\* its end (materialize, appendBatch).
THEOREM HistoryKeepsItsRules == Spec => TP!Spec
<1>1. Init => TP!Init
  BY DEF Init, T!Init, TP!Init, T!Unmaterialized, TP!Unmaterialized
<1>2. Base /\ [Next]_vars => [TP!Next]_(TP!vars)
  <2>1. ASSUME Base, Next PROVE [TP!Next]_(TP!vars)
    BY <2>1, NextForward DEF Forward, LogForward
  <2>2. ASSUME UNCHANGED vars PROVE UNCHANGED TP!vars
    BY <2>2 DEF vars, canon, TP!vars
  <2>. QED
    BY <2>1, <2>2
<1>. QED
  BY <1>1, <1>2, AlwaysBase, PTL DEF Spec, TP!Spec

\* An Attempt superseded by a later claim writes nothing behind that claim's
\* records: history is in the order of the epochs.
THEOREM AttemptsAreFenced == Spec => []HistoryIsFenced
<1>1. TP!Spec => []TP!HistoryIsFenced
  BY TP!FencedHistory
<1>2. TP!HistoryIsFenced => HistoryIsFenced
  BY SameLog DEF HistoryIsFenced
<1>. QED
  BY <1>1, <1>2, HistoryKeepsItsRules, PTL

-----------------------------------------------------------------------------
(***************************************************************************)
(* The ledger in composition: the coordinator only uses it by its own       *)
(* rules, so that what those rules keep is kept here, and so is the promise *)
(* the ledger makes to whoever submits work (AcceptedWork).                 *)
(***************************************************************************)
LEMMA LedgerNext == Base /\ [Next]_vars => [LP!Next]_(LP!vars)
<1>1. ASSUME Base, Next PROVE [LP!Next]_(LP!vars)
  BY <1>1, NextForward DEF Forward, LedgerForward
<1>2. ASSUME UNCHANGED vars PROVE UNCHANGED LP!vars
  BY <1>2 DEF vars, ledger, LP!vars
<1>. QED
  BY <1>1, <1>2

LEMMA NoneAbsent == LedgerInv => LP!AbsentIsBlank
  BY DEF LedgerInv, PlainStates, LP!AbsentIsBlank, LP!Present

LEMMA LanesInit == Init => LP!LaneHasOneOwner /\ LP!NoOvertaking
<1>. SUFFICES ASSUME Init PROVE LP!LaneHasOneOwner /\ LP!NoOvertaking
  OBVIOUS
<1>1. \A s \in Submission : sub[s].state = "ready" /\ sub[s].token = 0 /\ ~sub[s].live
  BY DEF Init, L!Fresh
<1>. QED
  BY <1>1 DEF LP!LaneHasOneOwner, LP!NoOvertaking, LP!Owned, LP!OwnsLane, LP!Begun

LEMMA AlwaysOneOwner == Spec => []LP!LaneHasOneOwner
<1>1. Base /\ LP!LaneHasOneOwner /\ [Next]_vars => LP!LaneHasOneOwner'
  BY LedgerNext, LedgerConstants, LP!NextLaneHasOneOwner DEF Base, LedgerInv
<1>. QED
  BY <1>1, LanesInit, AlwaysBase, PTL DEF Spec

LEMMA AlwaysInOrder == Spec => []LP!NoOvertaking
<1>1. Base /\ LP!NoOvertaking /\ [Next]_vars => LP!NoOvertaking'
  BY LedgerNext, LedgerConstants, LP!NextNoOvertaking DEF Base, LedgerInv
<1>. QED
  BY <1>1, LanesInit, AlwaysBase, PTL DEF Spec

\* However many workers, recovery passes and operators call it, the ledger
\* changes by its own operations only: its lane keeps one owner, and no row of
\* it runs while an earlier one still waits to start (claim, claimFor).
THEOREM LedgerKeepsItsRules ==
  Spec => /\ [][LP!Next]_(LP!vars)
          /\ []LP!LaneHasOneOwner
          /\ []LP!NoOvertaking
  BY LedgerNext, AlwaysBase, AlwaysOneOwner, AlwaysInOrder, PTL DEF Spec

\* Nothing the ledger has decided for a Submission is withdrawn by any step of
\* the coordinator: not a settlement, a reservation, an abort intent, a
\* consumed input, an operator's resolution or an epoch.
THEOREM RowsAreDurable == Spec => [][LP!Durable]_(LP!vars)
<1>1. Base /\ [Next]_vars => [LP!Durable]_(LP!vars)
  BY LedgerNext, NoneAbsent, LedgerConstants, LP!NextDurable DEF Base, LedgerInv
<1>. QED
  BY <1>1, AlwaysBase, PTL DEF Spec

\* The coordinator keeps the promise the ledger makes: every step of it, be it
\* a claim, a crash or a repair, leaves each accepted Submission as it is,
\* gives it its one verdict, or settles it with that verdict.
THEOREM CoordinatorKeepsPromise == Spec => [][LP!Promise!Next]_(LP!Promise!vars)
<1>1. Base /\ [Next]_vars => [LP!Promise!Next]_(LP!Promise!vars)
  BY LedgerNext, NoneAbsent, LedgerConstants, LP!NextRefines DEF Base, LedgerInv
<1>. QED
  BY <1>1, AlwaysBase, PTL DEF Spec
=============================================================================
