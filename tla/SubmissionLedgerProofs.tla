----------------------- MODULE SubmissionLedgerProofs -----------------------
(***************************************************************************)
(* Machine-checked proofs that the ledger keeps its invariants and          *)
(* implements AcceptedWork, for every set of Threads, Submissions, keys and *)
(* Calls and for every bound.                                               *)
(*                                                                          *)
(* Each invariant is proved from the ones before it: type correctness, then *)
(* the strengthening Counted, then one lemma Next... per property, whose    *)
(* steps are the operations of the ledger, in the order of the module.      *)
(***************************************************************************)
EXTENDS SubmissionLedger, TLAPS

-----------------------------------------------------------------------------
(***************************************************************************)
(* Type correctness.  Rows have thirteen fields, so what each operation     *)
(* writes into a row is typed once, by RowUpdates, and the actions cite it.  *)
(***************************************************************************)
LEMMA RowUpdates ==
  ASSUME NEW row \in Row
  PROVE  /\ \A l \in BOOLEAN : [row EXCEPT !.live = l] \in Row
         /\ [row EXCEPT !.abort = TRUE] \in Row
         /\ [row EXCEPT !.token = 0, !.epoch = 0, !.live = FALSE] \in Row
         /\ \A st \in SubmissionState \cup {"absent"}, k \in Nat, e \in Nat :
              [row EXCEPT !.state = st, !.token = k, !.epoch = e, !.live = TRUE] \in Row
         /\ \A st \in SubmissionState \cup {"absent"} : [row EXCEPT !.applied = TRUE, !.state = st] \in Row
         /\ \A st \in SubmissionState \cup {"absent"}, re \in Reservation :
              [row EXCEPT !.reserved = re, !.state = st] \in Row
         /\ \A out \in Outcome :
              [row EXCEPT !.state = "settled", !.outcome = out,
                          !.token = 0, !.epoch = 0, !.live = FALSE] \in Row
         /\ \A w \in Waiting :
              [row EXCEPT !.state = "suspended", !.waiting = w,
                          !.token = 0, !.epoch = 0, !.live = FALSE] \in Row
         /\ [row EXCEPT !.state = "ready"] \in Row
         /\ [row EXCEPT !.state = "ready", !.host = None] \in Row
         /\ \A h \in Submission : [row EXCEPT !.state = "joining", !.host = h] \in Row
         /\ [row EXCEPT !.state = "joined", !.applied = TRUE] \in Row
         /\ \A u \in SUBSET Call : [row EXCEPT !.state = "unknown", !.unknown = u] \in Row
         /\ \A w \in Waiting : [row EXCEPT !.state = "input-applied", !.waiting = w] \in Row
         /\ \A d \in SUBSET Call, st \in SubmissionState \cup {"absent"}, w \in Waiting :
              [row EXCEPT !.decided = d, !.state = st, !.waiting = w] \in Row
         /\ \A d \in SUBSET Call, st \in SubmissionState \cup {"absent"}, u \in SUBSET Call :
              [row EXCEPT !.resolved = d, !.state = st, !.unknown = u] \in Row
<1> USE DEF Row, SubmissionState, BeforeTerminalizing, BeforeInputApplied
<1>1. \A l \in BOOLEAN : [row EXCEPT !.live = l] \in Row
  OBVIOUS
<1>2. [row EXCEPT !.abort = TRUE] \in Row
  OBVIOUS
<1>3. [row EXCEPT !.token = 0, !.epoch = 0, !.live = FALSE] \in Row
  OBVIOUS
<1>4. \A st \in SubmissionState \cup {"absent"}, k \in Nat, e \in Nat :
        [row EXCEPT !.state = st, !.token = k, !.epoch = e, !.live = TRUE] \in Row
  OBVIOUS
<1>5. \A st \in SubmissionState \cup {"absent"} : [row EXCEPT !.applied = TRUE, !.state = st] \in Row
  OBVIOUS
<1>6. \A st \in SubmissionState \cup {"absent"}, re \in Reservation :
        [row EXCEPT !.reserved = re, !.state = st] \in Row
  OBVIOUS
<1>7. \A out \in Outcome :
        [row EXCEPT !.state = "settled", !.outcome = out,
                    !.token = 0, !.epoch = 0, !.live = FALSE] \in Row
  OBVIOUS
<1>8. \A w \in Waiting :
        [row EXCEPT !.state = "suspended", !.waiting = w,
                    !.token = 0, !.epoch = 0, !.live = FALSE] \in Row
  OBVIOUS
<1>9. [row EXCEPT !.state = "ready"] \in Row
  OBVIOUS
<1>10. [row EXCEPT !.state = "ready", !.host = None] \in Row
  OBVIOUS
<1>11. \A h \in Submission : [row EXCEPT !.state = "joining", !.host = h] \in Row
  OBVIOUS
<1>12. [row EXCEPT !.state = "joined", !.applied = TRUE] \in Row
  OBVIOUS
<1>13. \A u \in SUBSET Call : [row EXCEPT !.state = "unknown", !.unknown = u] \in Row
  OBVIOUS
<1>14. \A w \in Waiting : [row EXCEPT !.state = "input-applied", !.waiting = w] \in Row
  OBVIOUS
<1>15. \A d \in SUBSET Call, st \in SubmissionState \cup {"absent"}, w \in Waiting :
         [row EXCEPT !.decided = d, !.state = st, !.waiting = w] \in Row
  OBVIOUS
<1>16. \A d \in SUBSET Call, st \in SubmissionState \cup {"absent"}, u \in SUBSET Call :
         [row EXCEPT !.resolved = d, !.state = st, !.unknown = u] \in Row
  OBVIOUS
<1> HIDE DEF Row
<1> QED
  BY <1>1, <1>2, <1>3, <1>4, <1>5, <1>6, <1>7, <1>8, <1>9, <1>10, <1>11, <1>12, <1>13, <1>14,
     <1>15, <1>16

LEMMA PutRow ==
  ASSUME TypeOK, NEW s \in Submission, NEW row \in Row, sub' = [sub EXCEPT ![s] = row],
         UNCHANGED <<adm, next, epoch, stopped, minted>>
  PROVE  TypeOK'
  BY DEF TypeOK

LEMMA FreshInRow == NotWaiting \in Waiting /\ Fresh \in Row /\ Absent \in Row
<1>1. NotWaiting \in Waiting
  BY DEF NotWaiting, Waiting
<1>2. Fresh \in Row
  BY <1>1 DEF Fresh, Row, SubmissionState, BeforeTerminalizing, BeforeInputApplied
<1>3. Absent \in Row
  BY <1>1 DEF Absent, Fresh, Row
<1> QED
  BY <1>1, <1>2, <1>3

LEMMA InitTypeOK == Init => TypeOK
<1>1. NotAdmitted \in Admission
  BY ConstantsAssumption DEF NotAdmitted, Admission, Origins
<1> QED
  BY <1>1, FreshInRow DEF Init, TypeOK

LEMMA NextTypeOK == TypeOK /\ [Next]_vars => TypeOK'
<1> SUFFICES ASSUME TypeOK, [Next]_vars PROVE TypeOK'
  OBVIOUS
<1>r. \A s \in Submission : sub[s] \in Row /\ adm[s].thread \in Thread
  BY DEF TypeOK, Admission
<1>st. \A s \in Submission : sub[s].state \in SubmissionState \cup {"absent"}
  BY <1>r DEF Row
<1>1. ASSUME NEW s \in Submission, NEW t \in Thread, NEW k \in Key,
             NEW g \in Group \cup {None}, NEW o \in Origin, Admit(s, t, k, g, o)
      PROVE  TypeOK'
  <2>1. [thread |-> t, key |-> k, group |-> g, origin |-> o, seq |-> next[t]] \in Admission
    BY ConstantsAssumption DEF TypeOK, Admission
  <2> QED
    BY <1>1, <2>1, FreshInRow DEF Admit, TypeOK
<1>2. ASSUME NEW s \in Submission, MarkReady(s) PROVE TypeOK'
  BY <1>2, <1>r, RowUpdates, PutRow DEF MarkReady
<1>3. ASSUME NEW s \in Submission, Grant(s) PROVE TypeOK'
  <2> DEFINE st == IF sub[s].state = "ready" THEN "running" ELSE sub[s].state
             k  == minted + 1
             e  == epoch[adm[s].thread] + 1
  <2>1. sub' = [sub EXCEPT ![s] = [sub[s] EXCEPT !.state = st, !.token = k,
                                                 !.epoch = e, !.live = TRUE]]
    BY <1>3 DEF Grant
  <2>2. st \in SubmissionState \cup {"absent"} /\ k \in Nat /\ e \in Nat
    BY <1>r, <1>st DEF TypeOK, SubmissionState, BeforeTerminalizing, BeforeInputApplied
  <2>3. /\ minted' \in Nat /\ epoch' \in [Thread -> Nat]
        /\ UNCHANGED <<adm, next, stopped>>
    BY <1>3, <1>r DEF Grant, TypeOK
  <2> HIDE DEF st, k, e
  <2>4. [sub[s] EXCEPT !.state = st, !.token = k, !.epoch = e, !.live = TRUE] \in Row
    BY <1>r, <2>2, RowUpdates
  <2> QED
    BY <2>1, <2>3, <2>4 DEF TypeOK
<1>4. ASSUME NEW s \in Submission, LeaseExpires(s) PROVE TypeOK'
  BY <1>4, <1>r, RowUpdates, PutRow DEF LeaseExpires
<1>5. ASSUME NEW s \in Submission, NEW token \in 0..minted, RenewOwnership(s, token) PROVE TypeOK'
  BY <1>5, <1>r, RowUpdates, PutRow DEF RenewOwnership
<1>6. ASSUME NEW s \in Submission, NEW token \in 0..minted, ReleaseOwnership(s, token) PROVE TypeOK'
  <2>1. [sub[s] EXCEPT !.token = 0, !.epoch = 0, !.live = FALSE] \in Row
    BY <1>r, RowUpdates
  <2>2. /\ sub' = [sub EXCEPT ![s] = [sub[s] EXCEPT !.token = 0, !.epoch = 0, !.live = FALSE]]
         /\ UNCHANGED <<adm, next, epoch, stopped, minted>>
    BY <1>6 DEF ReleaseOwnership
  <2> QED
    BY <2>1, <2>2, PutRow
<1>7. ASSUME NEW s \in Submission, NEW token \in 0..minted, MarkInputApplied(s, token) PROVE TypeOK'
  <2> DEFINE st == IF sub[s].state \in BeforeInputApplied THEN "input-applied" ELSE sub[s].state
  <2>1. sub' = [sub EXCEPT ![s] = [sub[s] EXCEPT !.applied = TRUE, !.state = st]]
    BY <1>7 DEF MarkInputApplied
  <2>2. st \in SubmissionState \cup {"absent"}
    BY <1>st DEF SubmissionState, BeforeTerminalizing
  <2> HIDE DEF st
  <2> QED
    BY <1>7, <1>r, <2>1, <2>2, RowUpdates, PutRow DEF MarkInputApplied
<1>8. ASSUME NEW s \in Submission, NEW token \in 0..minted, NEW outcome \in Outcome,
             NEW ends \in EndsOf(s, outcome), ReserveSettlement(s, token, outcome, ends)
      PROVE  TypeOK'
  <2> DEFINE re == [outcome |-> outcome, ends |-> ends]
             st == IF sub[s].state \in BeforeTerminalizing THEN "terminalizing" ELSE sub[s].state
  <2>1. outcome \in {"completed", "failed", "aborted"}
    BY ConstantsAssumption DEF Outcomes
  <2>2. ends \in Terminal \cup {None}
    BY <2>1 DEF EndsOf, Terminal
  <2>3. re \in Reservation
    BY <2>2 DEF Reservation
  <2>4. st \in SubmissionState \cup {"absent"}
    BY <1>st DEF SubmissionState
  <2>5. sub' = [sub EXCEPT ![s] = [sub[s] EXCEPT !.reserved = re, !.state = st]]
    BY <1>8 DEF ReserveSettlement
  <2> HIDE DEF re, st
  <2> QED
    BY <1>8, <1>r, <2>3, <2>4, <2>5, RowUpdates, PutRow DEF ReserveSettlement
<1>9. ASSUME NEW s \in Submission, FinalizeSettlement(s) PROVE TypeOK'
  <2> DEFINE out == sub[s].reserved.outcome
             ends == sub[s].reserved.ends
  <2>1. out \in Outcome /\ ends \in Terminal \cup {None}
    BY <1>9, <1>r DEF FinalizeSettlement, Row, Reservation
  <2>2. stopped' \in [Thread -> Terminal \cup {"open", "stopped"}]
    BY <1>9, <2>1 DEF FinalizeSettlement, Seals, TypeOK
  <2>3. \A r \in Submission :
          \/ sub'[r] = [sub[s] EXCEPT !.state = "settled", !.outcome = out,
                                      !.token = 0, !.epoch = 0, !.live = FALSE]
          \/ sub'[r] = [sub[r] EXCEPT !.abort = TRUE]
          \/ sub'[r] = sub[r]
    BY <1>9 DEF FinalizeSettlement
  <2>4. \E f : sub' = [r \in Submission |-> f[r]]
    <3>1. DOMAIN sub' = Submission /\ sub' = [r \in DOMAIN sub' |-> sub'[r]]
      BY <1>9 DEF FinalizeSettlement
    <3> QED
      BY <3>1
  <2> HIDE DEF out, ends
  <2>5. [sub[s] EXCEPT !.state = "settled", !.outcome = out,
                       !.token = 0, !.epoch = 0, !.live = FALSE] \in Row
    BY <1>r, <2>1, RowUpdates
  <2>6. \A r \in Submission : [sub[r] EXCEPT !.abort = TRUE] \in Row
    BY <1>r, RowUpdates
  <2>7. \A r \in Submission : sub'[r] \in Row
    BY <1>r, <2>3, <2>5, <2>6
  <2> QED
    BY <1>9, <2>2, <2>4, <2>7 DEF FinalizeSettlement, TypeOK
<1>10. ASSUME NEW t \in Thread, StopWorker(t) PROVE TypeOK'
  <2>1. sub' \in [Submission -> Row]
    BY <1>10, <1>r, RowUpdates DEF StopWorker
  <2> QED
    BY <1>10, <2>1 DEF StopWorker, TypeOK
<1>11. ASSUME NEW s \in Submission, RequestAbort(s) PROVE TypeOK'
  BY <1>11, <1>r, RowUpdates, PutRow DEF RequestAbort
<1>12. ASSUME NEW h \in Submission, NEW token \in 0..minted, NEW n \in 1..JoinLimit,
              ClaimJoining(h, token, n)
       PROVE  TypeOK'
  <2>1. sub' \in [Submission -> Row]
    BY <1>12, <1>r, RowUpdates DEF ClaimJoining
  <2> QED
    BY <1>12, <2>1 DEF ClaimJoining, TypeOK
<1>13. ASSUME NEW s \in Submission, NEW token \in 0..minted, MarkJoined(s, token) PROVE TypeOK'
  <2>1. [sub[s] EXCEPT !.state = "joined", !.applied = TRUE] \in Row
    BY <1>r, RowUpdates
  <2> QED
    BY <1>13, <2>1, PutRow DEF MarkJoined
<1>14. ASSUME NEW s \in Submission, RevertJoining(s) PROVE TypeOK'
  <2>1. [sub[s] EXCEPT !.state = "ready", !.host = None] \in Row
    BY <1>r, RowUpdates
  <2> QED
    BY <1>14, <2>1, PutRow DEF RevertJoining
<1>15. ASSUME NEW s \in Submission, NEW token \in 0..minted, NEW reason \in Reasons(s),
              Suspend(s, token, reason)
       PROVE  TypeOK'
  <2>1. reason \in Waiting
    BY DEF Reasons, Waiting
  <2>2. [sub[s] EXCEPT !.state = "suspended", !.waiting = reason,
                       !.token = 0, !.epoch = 0, !.live = FALSE] \in Row
    BY <1>r, <2>1, RowUpdates
  <2>3. /\ sub' = [sub EXCEPT ![s] = [sub[s] EXCEPT !.state = "suspended", !.waiting = reason,
                                      !.token = 0, !.epoch = 0, !.live = FALSE]]
         /\ UNCHANGED <<adm, next, epoch, stopped, minted>>
    BY <1>15 DEF Suspend
  <2> QED
    BY <2>2, <2>3, PutRow
<1>16. ASSUME NEW s \in Submission, NEW c \in Submission, RecordChildSettled(s, c) PROVE TypeOK'
  <2>1. [sub[s] EXCEPT !.state = "input-applied", !.waiting = NotWaiting] \in Row
    BY <1>r, FreshInRow, RowUpdates
  <2> QED
    BY <1>16, <2>1, PutRow DEF RecordChildSettled
<1>17. ASSUME NEW s \in Submission, NEW c \in Call, RecordApprovalDecision(s, c) PROVE TypeOK'
  <2>1. PICK st \in SubmissionState \cup {"absent"}, w \in Waiting :
          sub' = [sub EXCEPT ![s] = [sub[s] EXCEPT !.decided = @ \cup {c}, !.state = st,
                                                   !.waiting = w]]
    <3> DEFINE wakes == /\ sub[s].state = "suspended"
                        /\ sub[s].waiting.kind = "approval"
                        /\ sub[s].waiting.on \subseteq sub[s].decided \cup {c}
               st == IF wakes THEN "input-applied" ELSE sub[s].state
               w == IF wakes THEN NotWaiting ELSE sub[s].waiting
    <3>1. sub' = [sub EXCEPT ![s] = [sub[s] EXCEPT !.decided = @ \cup {c}, !.state = st,
                                                   !.waiting = w]]
      BY <1>17 DEF RecordApprovalDecision
    <3>2. st \in SubmissionState \cup {"absent"}
      BY <1>st DEF SubmissionState, BeforeTerminalizing
    <3>3. w \in Waiting
      BY <1>r, FreshInRow DEF Row
    <3> HIDE DEF wakes, st, w
    <3> QED
      BY <3>1, <3>2, <3>3
  <2>2. sub[s].decided \cup {c} \in SUBSET Call
    BY <1>r DEF Row
  <2>3. [sub[s] EXCEPT !.decided = @ \cup {c}, !.state = st, !.waiting = w] \in Row
    BY <1>r, <2>2, RowUpdates
  <2> QED
    BY <1>17, <2>1, <2>3, PutRow DEF RecordApprovalDecision
<1>18. ASSUME NEW s \in Submission, NEW c \in Call, RecordUnknownResolution(s, c) PROVE TypeOK'
  <2>1. PICK st \in SubmissionState \cup {"absent"}, u \in SUBSET Call :
          sub' = [sub EXCEPT ![s] = [sub[s] EXCEPT !.resolved = @ \cup {c}, !.state = st,
                                                   !.unknown = u]]
    <3> DEFINE wakes == /\ sub[s].state = "unknown"
                        /\ sub[s].unknown \subseteq sub[s].resolved \cup {c}
               st == IF wakes THEN "input-applied" ELSE sub[s].state
               u == IF wakes THEN {} ELSE sub[s].unknown
    <3>1. sub' = [sub EXCEPT ![s] = [sub[s] EXCEPT !.resolved = @ \cup {c}, !.state = st,
                                                   !.unknown = u]]
      BY <1>18 DEF RecordUnknownResolution
    <3>2. st \in SubmissionState \cup {"absent"}
      BY <1>st DEF SubmissionState, BeforeTerminalizing
    <3>3. u \in SUBSET Call
      BY <1>r DEF Row
    <3> HIDE DEF wakes, st, u
    <3> QED
      BY <3>1, <3>2, <3>3
  <2>2. sub[s].resolved \cup {c} \in SUBSET Call
    BY <1>r DEF Row
  <2>3. [sub[s] EXCEPT !.resolved = @ \cup {c}, !.state = st, !.unknown = u] \in Row
    BY <1>r, <2>2, RowUpdates
  <2> QED
    BY <1>18, <2>1, <2>3, PutRow DEF RecordUnknownResolution
<1>19. ASSUME NEW s \in Submission, NEW calls \in SUBSET Call, MarkUnknown(s, calls) PROVE TypeOK'
  <2>1. sub[s].unknown \cup calls \in SUBSET Call
    BY <1>r DEF Row
  <2>2. [sub[s] EXCEPT !.state = "unknown", !.unknown = @ \cup calls] \in Row
    BY <1>r, <2>1, RowUpdates
  <2> QED
    BY <1>19, <2>2, PutRow DEF MarkUnknown
<1>20. CASE UNCHANGED vars
  BY <1>20 DEF vars, TypeOK
<1> QED
  BY <1>1, <1>2, <1>3, <1>4, <1>5, <1>6, <1>7, <1>8, <1>9, <1>10, <1>11, <1>12, <1>13, <1>14,
     <1>15, <1>16, <1>17, <1>18, <1>19, <1>20
  DEF Next, Admissions, Ownership, Settling, Stopping, Joining, Pausing, Claim, ClaimHandoff

\* Every reachable ledger is well typed.
THEOREM TypeCorrect == Spec => []TypeOK
  BY InitTypeOK, NextTypeOK, PTL DEF Spec

-----------------------------------------------------------------------------
(***************************************************************************)
(* What three operations with larger effects do to each field of a row.     *)
(***************************************************************************)
LEMMA FinalizeEffect ==
  ASSUME TypeOK, NEW s \in Submission, FinalizeSettlement(s)
  PROVE  /\ sub[s].reserved # None /\ sub[s].reserved = sub'[s].reserved
         /\ sub'[s].state = "settled" /\ sub'[s].outcome = sub[s].reserved.outcome
         /\ sub'[s].token = 0 /\ ~sub'[s].live
         /\ Active(s)
         /\ \A r \in Submission \ {s} : ~Active(r) => sub'[r] = sub[r]
         /\ \A t \in Thread : stopped[t] # "open" => stopped'[t] = stopped[t]
         /\ \A r \in Submission \ {s} :
              /\ sub'[r].state = sub[r].state /\ sub'[r].outcome = sub[r].outcome
              /\ sub'[r].token = sub[r].token /\ sub'[r].epoch = sub[r].epoch
              /\ sub'[r].live = sub[r].live /\ sub'[r].reserved = sub[r].reserved
         /\ \A r \in Submission :
              /\ sub'[r].applied = sub[r].applied /\ sub'[r].host = sub[r].host
              /\ sub'[r].waiting = sub[r].waiting /\ sub'[r].unknown = sub[r].unknown
              /\ sub'[r].decided = sub[r].decided /\ sub'[r].resolved = sub[r].resolved
              /\ sub[r].abort => sub'[r].abort
         /\ UNCHANGED <<adm, next, epoch, minted>>
<1>1. /\ sub'[s] = [sub[s] EXCEPT !.state = "settled", !.outcome = sub[s].reserved.outcome,
                                  !.token = 0, !.epoch = 0, !.live = FALSE]
      /\ \A r \in Submission \ {s} : sub'[r] = sub[r] \/ sub'[r] = [sub[r] EXCEPT !.abort = TRUE]
      /\ sub[s].reserved # None
      /\ UNCHANGED <<adm, next, epoch, minted>>
  BY DEF FinalizeSettlement
<1>5. /\ Active(s)
      /\ \A r \in Submission \ {s} : ~Active(r) => sub'[r] = sub[r]
  BY DEF FinalizeSettlement, Active, Present
<1>6. \A t \in Thread : stopped[t] # "open" => stopped'[t] = stopped[t]
  BY DEF FinalizeSettlement, Seals, TypeOK
<1>2. \A r \in Submission : sub[r] \in Row
  BY DEF TypeOK
<1>3. /\ sub'[s].state = "settled" /\ sub'[s].outcome = sub[s].reserved.outcome
      /\ sub'[s].token = 0 /\ ~sub'[s].live
      /\ sub'[s].reserved = sub[s].reserved
      /\ sub'[s].applied = sub[s].applied /\ sub'[s].host = sub[s].host
      /\ sub'[s].waiting = sub[s].waiting /\ sub'[s].unknown = sub[s].unknown
      /\ sub'[s].decided = sub[s].decided /\ sub'[s].resolved = sub[s].resolved
      /\ sub[s].abort => sub'[s].abort
  BY <1>1, <1>2 DEF Row
<1>4. ASSUME NEW r \in Submission \ {s}
      PROVE  /\ sub'[r].state = sub[r].state /\ sub'[r].outcome = sub[r].outcome
             /\ sub'[r].token = sub[r].token /\ sub'[r].epoch = sub[r].epoch
             /\ sub'[r].live = sub[r].live /\ sub'[r].reserved = sub[r].reserved
             /\ sub'[r].applied = sub[r].applied /\ sub'[r].host = sub[r].host
             /\ sub'[r].waiting = sub[r].waiting /\ sub'[r].unknown = sub[r].unknown
             /\ sub'[r].decided = sub[r].decided /\ sub'[r].resolved = sub[r].resolved
             /\ sub[r].abort => sub'[r].abort
  <2>1. CASE sub'[r] = sub[r]
    BY <2>1
  <2>2. CASE sub'[r] = [sub[r] EXCEPT !.abort = TRUE]
    BY <2>2, <1>2 DEF Row
  <2> QED
    BY <1>1, <2>1, <2>2
<1> QED
  BY <1>1, <1>3, <1>4, <1>5, <1>6

LEMMA DecisionEffect ==
  ASSUME TypeOK, NEW s \in Submission, NEW c \in Call, RecordApprovalDecision(s, c)
  PROVE  /\ \/ sub'[s].state = sub[s].state /\ sub'[s].waiting = sub[s].waiting
            \/ sub[s].state = "suspended" /\ sub'[s].state = "input-applied"
         /\ sub'[s].state = "suspended" /\ sub[s].waiting.kind = "approval" =>
              ~(sub[s].waiting.on \subseteq sub'[s].decided)
         /\ sub'[s].outcome = sub[s].outcome /\ sub'[s].token = sub[s].token
         /\ sub'[s].epoch = sub[s].epoch /\ sub'[s].live = sub[s].live
         /\ sub'[s].reserved = sub[s].reserved /\ sub'[s].applied = sub[s].applied
         /\ sub'[s].host = sub[s].host /\ sub'[s].abort = sub[s].abort
         /\ sub'[s].unknown = sub[s].unknown /\ sub'[s].resolved = sub[s].resolved
         /\ sub'[s].decided = sub[s].decided \cup {c}
         /\ \A r \in Submission \ {s} : sub'[r] = sub[r]
         /\ Active(s)
         /\ UNCHANGED <<adm, next, epoch, stopped, minted>>
<1> DEFINE wakes == /\ sub[s].state = "suspended"
                    /\ sub[s].waiting.kind = "approval"
                    /\ sub[s].waiting.on \subseteq sub[s].decided \cup {c}
           st == IF wakes THEN "input-applied" ELSE sub[s].state
           w == IF wakes THEN NotWaiting ELSE sub[s].waiting
<1>1. /\ sub' = [sub EXCEPT ![s] = [sub[s] EXCEPT !.decided = @ \cup {c}, !.state = st,
                                                  !.waiting = w]]
      /\ UNCHANGED <<adm, next, epoch, stopped, minted>>
  BY DEF RecordApprovalDecision
<1>2. \/ wakes /\ st = "input-applied"
      \/ ~wakes /\ st = sub[s].state /\ w = sub[s].waiting
  OBVIOUS
<1>3. sub[s] \in Row /\ sub'[s] = [sub[s] EXCEPT !.decided = @ \cup {c}, !.state = st, !.waiting = w]
  BY <1>1 DEF TypeOK
<1>4. \A r \in Submission \ {s} : sub'[r] = sub[r]
  BY <1>1 DEF TypeOK
<1> HIDE DEF st, w
<1>5. /\ sub'[s].state = st /\ sub'[s].waiting = w /\ sub'[s].decided = sub[s].decided \cup {c}
      /\ sub'[s].outcome = sub[s].outcome /\ sub'[s].token = sub[s].token
      /\ sub'[s].epoch = sub[s].epoch /\ sub'[s].live = sub[s].live
      /\ sub'[s].reserved = sub[s].reserved /\ sub'[s].applied = sub[s].applied
      /\ sub'[s].host = sub[s].host /\ sub'[s].abort = sub[s].abort
      /\ sub'[s].unknown = sub[s].unknown /\ sub'[s].resolved = sub[s].resolved
  BY <1>3 DEF Row
<1>6. wakes => sub'[s].state # "suspended"
  BY <1>2, <1>5
<1>7. ~wakes => sub'[s].state = sub[s].state /\ sub'[s].waiting = sub[s].waiting
  BY <1>2, <1>5
<1>8. wakes => sub[s].state = "suspended" /\ sub'[s].state = "input-applied"
  BY <1>2, <1>5
<1>9. sub'[s].state = "suspended" /\ sub[s].waiting.kind = "approval" =>
        ~(sub[s].waiting.on \subseteq sub'[s].decided)
  BY <1>5, <1>6, <1>7
<1> HIDE DEF wakes
<1> QED
  BY <1>1, <1>4, <1>5, <1>7, <1>8, <1>9 DEF RecordApprovalDecision

LEMMA ResolutionEffect ==
  ASSUME TypeOK, NEW s \in Submission, NEW c \in Call, RecordUnknownResolution(s, c)
  PROVE  /\ \/ sub'[s].state = sub[s].state
            \/ sub[s].state = "unknown" /\ sub'[s].state = "input-applied"
         /\ sub'[s].outcome = sub[s].outcome /\ sub'[s].token = sub[s].token
         /\ sub'[s].epoch = sub[s].epoch /\ sub'[s].live = sub[s].live
         /\ sub'[s].reserved = sub[s].reserved /\ sub'[s].applied = sub[s].applied
         /\ sub'[s].host = sub[s].host /\ sub'[s].abort = sub[s].abort
         /\ sub'[s].waiting = sub[s].waiting /\ sub'[s].decided = sub[s].decided
         /\ sub'[s].resolved = sub[s].resolved \cup {c}
         /\ \A r \in Submission \ {s} : sub'[r] = sub[r]
         /\ Active(s)
         /\ UNCHANGED <<adm, next, epoch, stopped, minted>>
<1> DEFINE wakes == /\ sub[s].state = "unknown"
                    /\ sub[s].unknown \subseteq sub[s].resolved \cup {c}
           st == IF wakes THEN "input-applied" ELSE sub[s].state
           u == IF wakes THEN {} ELSE sub[s].unknown
<1>1. /\ sub' = [sub EXCEPT ![s] = [sub[s] EXCEPT !.resolved = @ \cup {c}, !.state = st,
                                                  !.unknown = u]]
      /\ UNCHANGED <<adm, next, epoch, stopped, minted>>
  BY DEF RecordUnknownResolution
<1>2. \/ sub[s].state = "unknown" /\ st = "input-applied"
      \/ st = sub[s].state
  OBVIOUS
<1>3. sub[s] \in Row /\ sub'[s] = [sub[s] EXCEPT !.resolved = @ \cup {c}, !.state = st, !.unknown = u]
  BY <1>1 DEF TypeOK
<1>4. \A r \in Submission \ {s} : sub'[r] = sub[r]
  BY <1>1 DEF TypeOK
<1> HIDE DEF st, u
<1>5. /\ sub'[s].state = st /\ sub'[s].resolved = sub[s].resolved \cup {c}
      /\ sub'[s].outcome = sub[s].outcome /\ sub'[s].token = sub[s].token
      /\ sub'[s].epoch = sub[s].epoch /\ sub'[s].live = sub[s].live
      /\ sub'[s].reserved = sub[s].reserved /\ sub'[s].applied = sub[s].applied
      /\ sub'[s].host = sub[s].host /\ sub'[s].abort = sub[s].abort
      /\ sub'[s].waiting = sub[s].waiting /\ sub'[s].decided = sub[s].decided
  BY <1>3 DEF Row
<1> QED
  BY <1>1, <1>2, <1>4, <1>5 DEF RecordUnknownResolution

LEMMA JoinEffect ==
  ASSUME TypeOK, NEW h \in Submission, NEW token, NEW n, ClaimJoining(h, token, n)
  PROVE  /\ \A r \in Submission :
              /\ \/ sub'[r].state = sub[r].state /\ sub'[r].host = sub[r].host
                 \/ /\ sub[r].state = "ready" /\ sub'[r].state = "joining" /\ sub'[r].host = h
                    /\ Earlier(h, r)
              /\ sub[r].state # "ready" => sub'[r] = sub[r]
              /\ sub'[r].outcome = sub[r].outcome /\ sub'[r].token = sub[r].token
              /\ sub'[r].epoch = sub[r].epoch /\ sub'[r].live = sub[r].live
              /\ sub'[r].reserved = sub[r].reserved /\ sub'[r].applied = sub[r].applied
              /\ sub'[r].waiting = sub[r].waiting /\ sub'[r].decided = sub[r].decided
              /\ sub'[r].resolved = sub[r].resolved /\ sub'[r].abort = sub[r].abort
         /\ UNCHANGED <<adm, next, epoch, stopped, minted>>
<1>1. ASSUME NEW r \in Submission
      PROVE  \/ sub'[r] = sub[r]
             \/ /\ sub'[r] = [sub[r] EXCEPT !.state = "joining", !.host = h]
                /\ sub[r].state = "ready" /\ Earlier(h, r)
  BY DEF ClaimJoining, JoinPrefix, Later, InLane, Earlier, SameLane
<1>2. ASSUME NEW r \in Submission
      PROVE  /\ \/ sub'[r].state = sub[r].state /\ sub'[r].host = sub[r].host
                \/ /\ sub[r].state = "ready" /\ sub'[r].state = "joining" /\ sub'[r].host = h
                   /\ Earlier(h, r)
             /\ sub'[r].outcome = sub[r].outcome /\ sub'[r].token = sub[r].token
             /\ sub'[r].epoch = sub[r].epoch /\ sub'[r].live = sub[r].live
             /\ sub'[r].reserved = sub[r].reserved /\ sub'[r].applied = sub[r].applied
             /\ sub'[r].waiting = sub[r].waiting /\ sub'[r].decided = sub[r].decided
             /\ sub'[r].resolved = sub[r].resolved /\ sub'[r].abort = sub[r].abort
  <2>1. CASE sub'[r] = sub[r]
    BY <2>1
  <2>2. CASE /\ sub'[r] = [sub[r] EXCEPT !.state = "joining", !.host = h]
             /\ sub[r].state = "ready" /\ Earlier(h, r)
    <3>1. sub[r] \in Row
      BY DEF TypeOK
    <3> QED
      BY <2>2, <3>1 DEF Row
  <2> QED
    BY <1>1, <2>1, <2>2
<1> QED
  BY <1>1, <1>2 DEF ClaimJoining

LEMMA AdmitEffect ==
  ASSUME TypeOK, NEW s \in Submission, NEW t \in Thread, NEW k, NEW g, NEW o, Admit(s, t, k, g, o)
  PROVE  /\ sub'[s] = Fresh /\ sub'[s].state = "admitted" /\ sub'[s].token = 0
         /\ ~sub'[s].live /\ sub'[s].reserved = None /\ sub'[s].outcome = None
         /\ sub'[s].host = None /\ ~sub'[s].applied
         /\ adm'[s].thread = t /\ adm'[s].seq = next[t]
         /\ sub[s].state = "absent"
         /\ \A r \in Submission \ {s} : sub'[r] = sub[r] /\ adm'[r] = adm[r]
         /\ next'[t] = next[t] + 1
         /\ \A u \in Thread \ {t} : next'[u] = next[u]
         /\ stopped[t] = "open"
         /\ UNCHANGED <<epoch, stopped, minted>>
  BY DEF Admit, TypeOK, Fresh, Present

LEMMA ReserveEffect ==
  ASSUME TypeOK, NEW s \in Submission, NEW token, NEW outcome, NEW ends,
         ReserveSettlement(s, token, outcome, ends)
  PROVE  /\ sub[s].state # "absent" /\ sub[s].reserved = None
         /\ sub'[s].reserved = [outcome |-> outcome, ends |-> ends]
         /\ sub'[s].state = IF sub[s].state \in BeforeTerminalizing THEN "terminalizing"
                            ELSE sub[s].state
         /\ sub'[s].outcome = sub[s].outcome /\ sub'[s].token = sub[s].token
         /\ sub'[s].epoch = sub[s].epoch /\ sub'[s].live = sub[s].live
         /\ sub'[s].applied = sub[s].applied /\ sub'[s].host = sub[s].host
         /\ sub'[s].waiting = sub[s].waiting /\ sub'[s].decided = sub[s].decided
         /\ sub'[s].resolved = sub[s].resolved /\ sub'[s].abort = sub[s].abort
         /\ \A r \in Submission \ {s} : sub'[r] = sub[r]
         /\ UNCHANGED <<adm, next, epoch, stopped, minted>>
<1> DEFINE re == [outcome |-> outcome, ends |-> ends]
           st == IF sub[s].state \in BeforeTerminalizing THEN "terminalizing" ELSE sub[s].state
<1>1. /\ sub' = [sub EXCEPT ![s] = [sub[s] EXCEPT !.reserved = re, !.state = st]]
      /\ sub[s].state # "absent" /\ sub[s].reserved = None
      /\ UNCHANGED <<adm, next, epoch, stopped, minted>>
  BY DEF ReserveSettlement, Present
<1> HIDE DEF re, st
<1>2. sub[s] \in Row /\ sub'[s] = [sub[s] EXCEPT !.reserved = re, !.state = st]
  BY <1>1 DEF TypeOK
<1>3. /\ sub'[s].reserved = re /\ sub'[s].state = st
      /\ sub'[s].outcome = sub[s].outcome /\ sub'[s].token = sub[s].token
      /\ sub'[s].epoch = sub[s].epoch /\ sub'[s].live = sub[s].live
      /\ sub'[s].applied = sub[s].applied /\ sub'[s].host = sub[s].host
      /\ sub'[s].waiting = sub[s].waiting /\ sub'[s].decided = sub[s].decided
      /\ sub'[s].resolved = sub[s].resolved /\ sub'[s].abort = sub[s].abort
  BY <1>2 DEF Row
<1>4. \A r \in Submission \ {s} : sub'[r] = sub[r]
  BY <1>1 DEF TypeOK
<1> QED
  BY <1>1, <1>3, <1>4 DEF re, st

LEMMA GrantEffect ==
  ASSUME TypeOK, NEW s \in Submission, Grant(s)
  PROVE  /\ sub'[s].state = IF sub[s].state = "ready" THEN "running" ELSE sub[s].state
         /\ sub'[s].token = minted + 1 /\ sub'[s].epoch = epoch[adm[s].thread] + 1
         /\ epoch'[adm[s].thread] = epoch[adm[s].thread] + 1
         /\ \A t \in Thread \ {adm[s].thread} : epoch'[t] = epoch[t]
         /\ sub'[s].outcome = sub[s].outcome /\ sub'[s].reserved = sub[s].reserved
         /\ sub'[s].applied = sub[s].applied /\ sub'[s].host = sub[s].host
         /\ sub'[s].waiting = sub[s].waiting /\ sub'[s].decided = sub[s].decided
         /\ sub'[s].resolved = sub[s].resolved /\ sub'[s].abort = sub[s].abort
         /\ \A r \in Submission \ {s} : sub'[r] = sub[r]
         /\ minted' = minted + 1
         /\ UNCHANGED <<adm, next, stopped>>
<1> DEFINE st == IF sub[s].state = "ready" THEN "running" ELSE sub[s].state
           k == minted + 1
           e == epoch[adm[s].thread] + 1
<1>1. /\ sub' = [sub EXCEPT ![s] = [sub[s] EXCEPT !.state = st, !.token = k, !.epoch = e,
                                                  !.live = TRUE]]
      /\ minted' = minted + 1
      /\ epoch' = [epoch EXCEPT ![adm[s].thread] = @ + 1]
      /\ UNCHANGED <<adm, next, stopped>>
  BY DEF Grant
<1>2. adm[s].thread \in Thread /\ sub[s] \in Row
  BY DEF TypeOK, Admission
<1>3. /\ epoch'[adm[s].thread] = epoch[adm[s].thread] + 1
      /\ \A t \in Thread \ {adm[s].thread} : epoch'[t] = epoch[t]
  BY <1>1, <1>2 DEF TypeOK
<1> HIDE DEF st, k, e
<1>4. sub'[s] = [sub[s] EXCEPT !.state = st, !.token = k, !.epoch = e, !.live = TRUE]
  BY <1>1 DEF TypeOK
<1>5. /\ sub'[s].state = st /\ sub'[s].token = k /\ sub'[s].epoch = e
      /\ sub'[s].outcome = sub[s].outcome /\ sub'[s].reserved = sub[s].reserved
      /\ sub'[s].applied = sub[s].applied /\ sub'[s].host = sub[s].host
      /\ sub'[s].waiting = sub[s].waiting /\ sub'[s].decided = sub[s].decided
      /\ sub'[s].resolved = sub[s].resolved /\ sub'[s].abort = sub[s].abort
  BY <1>2, <1>4 DEF Row
<1>6. \A r \in Submission \ {s} : sub'[r] = sub[r]
  BY <1>1 DEF TypeOK
<1> QED
  BY <1>1, <1>3, <1>5, <1>6 DEF st, k, e

-----------------------------------------------------------------------------
(***************************************************************************)
(* The inductive step of each invariant.                                    *)
(***************************************************************************)
\* Tokens and epochs never run ahead of the counters that mint them, only an
\* active row is owned, sequences are below the lane's next one, and a live
\* lease owns its lane.
Counted ==
  /\ \A s \in Submission :
       /\ sub[s].token <= minted
       /\ Owned(s) => Active(s) /\ sub[s].epoch <= epoch[adm[s].thread]
       /\ Present(s) => adm[s].seq < next[adm[s].thread]
       /\ sub[s].live => OwnsLane(s, sub[s].token)

LEMMA NextCounted == TypeOK /\ Counted /\ [Next]_vars => Counted'
<1> SUFFICES ASSUME TypeOK, Counted, [Next]_vars PROVE Counted'
  OBVIOUS
<1> USE DEF TypeOK, Counted, Owned, OwnsLane, Present, Active
<1>r. \A s \in Submission : /\ sub[s] \in Row /\ adm[s].thread \in Thread
                            /\ sub[s].token \in Nat /\ sub[s].epoch \in Nat
                            /\ sub[s].live \in BOOLEAN
  BY DEF TypeOK, Row, Admission
<1>1. ASSUME NEW s \in Submission, NEW t \in Thread, NEW k \in Key,
             NEW g \in Group \cup {None}, NEW o \in Origin, Admit(s, t, k, g, o) PROVE Counted'
  <2>1. t \in Thread /\ next[t] \in Nat /\ next'[t] = next[t] + 1
    BY <1>1, AdmitEffect
  <2>2. ASSUME NEW r \in Submission \ {s}
        PROVE  sub'[r] = sub[r] /\ adm'[r] = adm[r] /\ next[adm[r].thread] <= next'[adm[r].thread]
    BY <1>1, <1>r, <2>1, AdmitEffect
  <2>3. ASSUME NEW r \in Submission \ {s}
        PROVE  /\ (sub[r].token <= minted)'
               /\ Owned(r)' => Active(r)' /\ (sub[r].epoch <= epoch[adm[r].thread])'
               /\ Present(r)' => (adm[r].seq < next[adm[r].thread])'
               /\ (sub[r].live => OwnsLane(r, sub[r].token))'
    <3>1. adm[r].seq \in Nat /\ next[adm[r].thread] \in Nat /\ next'[adm[r].thread] \in Nat
      BY <1>r, <2>1, <1>1, AdmitEffect DEF Admission
    <3> QED
      BY <1>1, <2>2, <3>1, AdmitEffect
  <2>4. /\ sub'[s].token = 0 /\ ~sub'[s].live /\ minted' = minted
        /\ adm'[s].thread = t /\ adm'[s].seq < next'[t]
    BY <1>1, <2>1, AdmitEffect
  <2> QED
    BY <2>3, <2>4
<1>2. ASSUME NEW s \in Submission, MarkReady(s) PROVE Counted'
  BY <1>2, <1>r DEF MarkReady
<1>3. ASSUME NEW s \in Submission, Claim(s) PROVE Counted'
  BY <1>3, <1>r DEF Claim, IsHead, Candidate, Grant, LaneIdle, InLane
<1>4. ASSUME NEW s \in Submission, NEW e \in 0..minted, ClaimHandoff(s, e) PROVE Counted'
  BY <1>4, <1>r DEF ClaimHandoff, Candidate, Grant, LaneIdle, InLane
<1>5. ASSUME NEW s \in Submission, LeaseExpires(s) PROVE Counted'
  BY <1>5, <1>r DEF LeaseExpires
<1>6. ASSUME NEW s \in Submission, NEW token \in 0..minted, RenewOwnership(s, token) PROVE Counted'
  BY <1>6, <1>r DEF RenewOwnership
<1>7. ASSUME NEW s \in Submission, NEW token \in 0..minted, ReleaseOwnership(s, token) PROVE Counted'
  BY <1>7, <1>r DEF ReleaseOwnership
<1>8. ASSUME NEW s \in Submission, NEW token \in 0..minted, MarkInputApplied(s, token) PROVE Counted'
  BY <1>8, <1>r DEF MarkInputApplied
<1>9. ASSUME NEW s \in Submission, NEW token \in 0..minted, NEW outcome \in Outcome,
             NEW ends \in EndsOf(s, outcome), ReserveSettlement(s, token, outcome, ends) PROVE Counted'
  BY <1>9, <1>r DEF ReserveSettlement
<1>10. ASSUME NEW s \in Submission, FinalizeSettlement(s) PROVE Counted'
  <2>1. ASSUME NEW r \in Submission \ {s}
        PROVE  /\ sub'[r].state = sub[r].state /\ sub'[r].token = sub[r].token
               /\ sub'[r].epoch = sub[r].epoch /\ sub'[r].live = sub[r].live
    BY <1>10, FinalizeEffect
  <2>2. /\ sub'[s].state = "settled" /\ sub'[s].token = 0 /\ ~sub'[s].live
        /\ sub[s].state # "absent" /\ UNCHANGED <<adm, next, epoch, minted>>
    BY <1>10, FinalizeEffect DEF FinalizeSettlement
  <2> QED
    BY <1>r, <2>1, <2>2
<1>11. ASSUME NEW t \in Thread, StopWorker(t) PROVE Counted'
  BY <1>11, <1>r DEF StopWorker
<1>12. ASSUME NEW s \in Submission, RequestAbort(s) PROVE Counted'
  BY <1>12, <1>r DEF RequestAbort
<1>13. ASSUME NEW h \in Submission, NEW token \in 0..minted, NEW n \in 1..JoinLimit, ClaimJoining(h, token, n) PROVE Counted'
  BY <1>13, <1>r, JoinEffect
<1>14. ASSUME NEW s \in Submission, NEW token \in 0..minted, MarkJoined(s, token) PROVE Counted'
  BY <1>14, <1>r DEF MarkJoined
<1>15. ASSUME NEW s \in Submission, RevertJoining(s) PROVE Counted'
  BY <1>15, <1>r DEF RevertJoining
<1>16. ASSUME NEW s \in Submission, NEW token \in 0..minted, NEW reason \in Reasons(s), Suspend(s, token, reason) PROVE Counted'
  BY <1>16, <1>r DEF Suspend
<1>17. ASSUME NEW p \in Submission, NEW c \in Submission, RecordChildSettled(p, c) PROVE Counted'
  BY <1>17, <1>r DEF RecordChildSettled
<1>18. ASSUME NEW s \in Submission, NEW c \in Call, RecordApprovalDecision(s, c) PROVE Counted'
  BY <1>18, <1>r, DecisionEffect
<1>19. ASSUME NEW s \in Submission, NEW c \in Call, RecordUnknownResolution(s, c) PROVE Counted'
  BY <1>19, <1>r, ResolutionEffect
<1>20. ASSUME NEW s \in Submission, NEW calls \in (SUBSET Call) \ {{}}, MarkUnknown(s, calls) PROVE Counted'
  BY <1>20, <1>r DEF MarkUnknown
<1>21. CASE UNCHANGED vars
  BY <1>21 DEF vars
<1> QED
  BY <1>1, <1>2, <1>3, <1>4, <1>5, <1>6, <1>7, <1>8, <1>9, <1>10, <1>11, <1>12, <1>13, <1>14, <1>15, <1>16, <1>17, <1>18, <1>19, <1>20, <1>21
  DEF Next, Admissions, Ownership, Settling, Stopping, Joining, Pausing

\* A claim takes a fresh token and a fresh epoch, and only in an idle lane.
LEMMA NextLaneHasOneOwner == TypeOK /\ Counted /\ LaneHasOneOwner /\ [Next]_vars => LaneHasOneOwner'
<1> SUFFICES ASSUME TypeOK, Counted, LaneHasOneOwner, [Next]_vars PROVE LaneHasOneOwner'
  OBVIOUS
<1> USE DEF TypeOK, Counted, LaneHasOneOwner, Owned, OwnsLane, SameLane, Present, Active
<1>r. \A s \in Submission : /\ sub[s] \in Row /\ adm[s].thread \in Thread
                            /\ sub[s].token \in Nat /\ sub[s].epoch \in Nat
                            /\ sub[s].live \in BOOLEAN
  BY DEF TypeOK, Row, Admission
<1>1. ASSUME NEW s \in Submission, NEW t \in Thread, NEW k \in Key,
             NEW g \in Group \cup {None}, NEW o \in Origin, Admit(s, t, k, g, o) PROVE LaneHasOneOwner'
  BY <1>1, <1>r, AdmitEffect
<1>2. ASSUME NEW s \in Submission, MarkReady(s) PROVE LaneHasOneOwner'
  BY <1>2, <1>r DEF MarkReady
<1>3. ASSUME NEW s \in Submission, Claim(s) PROVE LaneHasOneOwner'
  BY <1>3, <1>r DEF Claim, Grant, LaneIdle, InLane
<1>4. ASSUME NEW s \in Submission, NEW e \in 0..minted, ClaimHandoff(s, e) PROVE LaneHasOneOwner'
  BY <1>4, <1>r DEF ClaimHandoff, Grant, LaneIdle, InLane
<1>5. ASSUME NEW s \in Submission, LeaseExpires(s) PROVE LaneHasOneOwner'
  BY <1>5, <1>r DEF LeaseExpires
<1>6. ASSUME NEW s \in Submission, NEW token \in 0..minted, RenewOwnership(s, token) PROVE LaneHasOneOwner'
  BY <1>6, <1>r DEF RenewOwnership
<1>7. ASSUME NEW s \in Submission, NEW token \in 0..minted, ReleaseOwnership(s, token) PROVE LaneHasOneOwner'
  BY <1>7, <1>r DEF ReleaseOwnership
<1>8. ASSUME NEW s \in Submission, NEW token \in 0..minted, MarkInputApplied(s, token) PROVE LaneHasOneOwner'
  BY <1>8, <1>r DEF MarkInputApplied
<1>9. ASSUME NEW s \in Submission, NEW token \in 0..minted, NEW outcome \in Outcome,
             NEW ends \in EndsOf(s, outcome), ReserveSettlement(s, token, outcome, ends) PROVE LaneHasOneOwner'
  BY <1>9, <1>r DEF ReserveSettlement
<1>10. ASSUME NEW s \in Submission, FinalizeSettlement(s) PROVE LaneHasOneOwner'
  BY <1>10, <1>r, FinalizeEffect
<1>11. ASSUME NEW t \in Thread, StopWorker(t) PROVE LaneHasOneOwner'
  BY <1>11, <1>r DEF StopWorker
<1>12. ASSUME NEW s \in Submission, RequestAbort(s) PROVE LaneHasOneOwner'
  BY <1>12, <1>r DEF RequestAbort
<1>13. ASSUME NEW h \in Submission, NEW token \in 0..minted, NEW n \in 1..JoinLimit, ClaimJoining(h, token, n) PROVE LaneHasOneOwner'
  BY <1>13, <1>r, JoinEffect
<1>14. ASSUME NEW s \in Submission, NEW token \in 0..minted, MarkJoined(s, token) PROVE LaneHasOneOwner'
  BY <1>14, <1>r DEF MarkJoined
<1>15. ASSUME NEW s \in Submission, RevertJoining(s) PROVE LaneHasOneOwner'
  BY <1>15, <1>r DEF RevertJoining
<1>16. ASSUME NEW s \in Submission, NEW token \in 0..minted, NEW reason \in Reasons(s), Suspend(s, token, reason) PROVE LaneHasOneOwner'
  BY <1>16, <1>r DEF Suspend
<1>17. ASSUME NEW p \in Submission, NEW c \in Submission, RecordChildSettled(p, c) PROVE LaneHasOneOwner'
  BY <1>17, <1>r DEF RecordChildSettled
<1>18. ASSUME NEW s \in Submission, NEW c \in Call, RecordApprovalDecision(s, c) PROVE LaneHasOneOwner'
  BY <1>18, <1>r, DecisionEffect
<1>19. ASSUME NEW s \in Submission, NEW c \in Call, RecordUnknownResolution(s, c) PROVE LaneHasOneOwner'
  BY <1>19, <1>r, ResolutionEffect
<1>20. ASSUME NEW s \in Submission, NEW calls \in (SUBSET Call) \ {{}}, MarkUnknown(s, calls) PROVE LaneHasOneOwner'
  BY <1>20, <1>r DEF MarkUnknown
<1>21. CASE UNCHANGED vars
  BY <1>21 DEF vars
<1> QED
  BY <1>1, <1>2, <1>3, <1>4, <1>5, <1>6, <1>7, <1>8, <1>9, <1>10, <1>11, <1>12, <1>13, <1>14, <1>15, <1>16, <1>17, <1>18, <1>19, <1>20, <1>21
  DEF Next, Admissions, Ownership, Settling, Stopping, Joining, Pausing

\* Only a claim lets a row begin, and what it passes over is not waiting.
LEMMA NextNoOvertaking == TypeOK /\ Counted /\ NoOvertaking /\ [Next]_vars => NoOvertaking'
<1> SUFFICES ASSUME TypeOK, Counted, NoOvertaking, [Next]_vars PROVE NoOvertaking'
  OBVIOUS
<1> USE DEF TypeOK, Counted, NoOvertaking, Owned, OwnsLane, SameLane, Present, Active, Earlier, Begun, Waits, BeforeInputApplied
<1>r. \A s \in Submission : /\ sub[s] \in Row /\ adm[s].thread \in Thread
                            /\ sub[s].token \in Nat /\ sub[s].epoch \in Nat
                            /\ sub[s].live \in BOOLEAN
  BY DEF TypeOK, Row, Admission
<1>1. ASSUME NEW s \in Submission, NEW t \in Thread, NEW k \in Key,
             NEW g \in Group \cup {None}, NEW o \in Origin, Admit(s, t, k, g, o) PROVE NoOvertaking'
  <2>1. ASSUME NEW q \in Submission, NEW r \in Submission, Earlier(q, r)', Begun(r)'
        PROVE  ~Waits(q)'
    <3>1. r # s
      BY <1>1, <2>1, AdmitEffect
    <3>2. Begun(r) /\ Present(r) /\ adm'[r] = adm[r]
      BY <1>1, <2>1, <3>1, AdmitEffect
    <3>3. adm[r].seq < next[adm[r].thread] /\ adm[r].seq \in Nat /\ next[adm[r].thread] \in Nat
      BY <1>r, <3>2 DEF Admission
    <3>4. q # s
      BY <1>1, <2>1, <3>2, <3>3, AdmitEffect
    <3>5. Earlier(q, r) /\ sub'[q] = sub[q]
      BY <1>1, <2>1, <3>2, <3>4, AdmitEffect
    <3> QED
      BY <3>2, <3>5
  <2> QED
    BY <2>1
<1>2. ASSUME NEW s \in Submission, MarkReady(s) PROVE NoOvertaking'
  BY <1>2, <1>r DEF MarkReady
<1>3. ASSUME NEW s \in Submission, Claim(s) PROVE NoOvertaking'
  BY <1>3, <1>r DEF Claim, IsHead, Candidate, Parked, Grant
<1>4. ASSUME NEW s \in Submission, NEW e \in 0..minted, ClaimHandoff(s, e) PROVE NoOvertaking'
  BY <1>4, <1>r DEF ClaimHandoff, Candidate, Parked, Grant
<1>5. ASSUME NEW s \in Submission, LeaseExpires(s) PROVE NoOvertaking'
  BY <1>5, <1>r DEF LeaseExpires
<1>6. ASSUME NEW s \in Submission, NEW token \in 0..minted, RenewOwnership(s, token) PROVE NoOvertaking'
  BY <1>6, <1>r DEF RenewOwnership
<1>7. ASSUME NEW s \in Submission, NEW token \in 0..minted, ReleaseOwnership(s, token) PROVE NoOvertaking'
  BY <1>7, <1>r DEF ReleaseOwnership
<1>8. ASSUME NEW s \in Submission, NEW token \in 0..minted, MarkInputApplied(s, token) PROVE NoOvertaking'
  BY <1>8, <1>r DEF MarkInputApplied
<1>9. ASSUME NEW s \in Submission, NEW token \in 0..minted, NEW outcome \in Outcome,
             NEW ends \in EndsOf(s, outcome), ReserveSettlement(s, token, outcome, ends) PROVE NoOvertaking'
  BY <1>9, <1>r DEF ReserveSettlement
<1>10. ASSUME NEW s \in Submission, FinalizeSettlement(s) PROVE NoOvertaking'
  BY <1>10, <1>r, FinalizeEffect
<1>11. ASSUME NEW t \in Thread, StopWorker(t) PROVE NoOvertaking'
  BY <1>11, <1>r DEF StopWorker
<1>12. ASSUME NEW s \in Submission, RequestAbort(s) PROVE NoOvertaking'
  BY <1>12, <1>r DEF RequestAbort
<1>13. ASSUME NEW h \in Submission, NEW token \in 0..minted, NEW n \in 1..JoinLimit, ClaimJoining(h, token, n) PROVE NoOvertaking'
  BY <1>13, <1>r, JoinEffect
<1>14. ASSUME NEW s \in Submission, NEW token \in 0..minted, MarkJoined(s, token) PROVE NoOvertaking'
  BY <1>14, <1>r DEF MarkJoined
<1>15. ASSUME NEW s \in Submission, RevertJoining(s) PROVE NoOvertaking'
  BY <1>15, <1>r DEF RevertJoining
<1>16. ASSUME NEW s \in Submission, NEW token \in 0..minted, NEW reason \in Reasons(s), Suspend(s, token, reason) PROVE NoOvertaking'
  BY <1>16, <1>r DEF Suspend
<1>17. ASSUME NEW p \in Submission, NEW c \in Submission, RecordChildSettled(p, c) PROVE NoOvertaking'
  BY <1>17, <1>r DEF RecordChildSettled
<1>18. ASSUME NEW s \in Submission, NEW c \in Call, RecordApprovalDecision(s, c) PROVE NoOvertaking'
  BY <1>18, <1>r, DecisionEffect
<1>19. ASSUME NEW s \in Submission, NEW c \in Call, RecordUnknownResolution(s, c) PROVE NoOvertaking'
  BY <1>19, <1>r, ResolutionEffect
<1>20. ASSUME NEW s \in Submission, NEW calls \in (SUBSET Call) \ {{}}, MarkUnknown(s, calls) PROVE NoOvertaking'
  BY <1>20, <1>r DEF MarkUnknown
<1>21. CASE UNCHANGED vars
  BY <1>21 DEF vars
<1> QED
  BY <1>1, <1>2, <1>3, <1>4, <1>5, <1>6, <1>7, <1>8, <1>9, <1>10, <1>11, <1>12, <1>13, <1>14, <1>15, <1>16, <1>17, <1>18, <1>19, <1>20, <1>21
  DEF Next, Admissions, Ownership, Settling, Stopping, Joining, Pausing

\* Every operation that could move a reserved row looks at its reservation.
LEMMA NextReservationWins == TypeOK /\ ReservationWins /\ [Next]_vars => ReservationWins'
<1> SUFFICES ASSUME TypeOK, ReservationWins, [Next]_vars PROVE ReservationWins'
  OBVIOUS
<1> USE DEF TypeOK, ReservationWins
<1>r. \A s \in Submission : /\ sub[s] \in Row /\ adm[s].thread \in Thread
                            /\ sub[s].token \in Nat /\ sub[s].epoch \in Nat
  BY DEF TypeOK, Row, Admission
<1>1. ASSUME NEW s \in Submission, NEW t \in Thread, NEW k \in Key,
             NEW g \in Group \cup {None}, NEW o \in Origin, Admit(s, t, k, g, o) PROVE ReservationWins'
  BY <1>1, <1>r, AdmitEffect
<1>2. ASSUME NEW s \in Submission, MarkReady(s) PROVE ReservationWins'
  BY <1>2, <1>r DEF MarkReady
<1>3. ASSUME NEW s \in Submission, Claim(s) PROVE ReservationWins'
  BY <1>3, <1>r DEF Claim, Grant
<1>4. ASSUME NEW s \in Submission, NEW e \in 0..minted, ClaimHandoff(s, e) PROVE ReservationWins'
  BY <1>4, <1>r DEF ClaimHandoff, Grant
<1>5. ASSUME NEW s \in Submission, LeaseExpires(s) PROVE ReservationWins'
  BY <1>5, <1>r DEF LeaseExpires
<1>6. ASSUME NEW s \in Submission, NEW token \in 0..minted, RenewOwnership(s, token) PROVE ReservationWins'
  BY <1>6, <1>r DEF RenewOwnership
<1>7. ASSUME NEW s \in Submission, NEW token \in 0..minted, ReleaseOwnership(s, token) PROVE ReservationWins'
  BY <1>7, <1>r DEF ReleaseOwnership
<1>8. ASSUME NEW s \in Submission, NEW token \in 0..minted, MarkInputApplied(s, token) PROVE ReservationWins'
  BY <1>8, <1>r DEF MarkInputApplied, BeforeInputApplied
<1>9. ASSUME NEW s \in Submission, NEW token \in 0..minted, NEW outcome \in Outcome,
             NEW ends \in EndsOf(s, outcome), ReserveSettlement(s, token, outcome, ends) PROVE ReservationWins'
  <2>1. sub[s].state \in BeforeTerminalizing
    BY <1>9, <1>r, ReserveEffect DEF Row, SubmissionState
  <2>2. [outcome |-> outcome, ends |-> ends] # None
    <3>1. outcome \in {"completed", "failed", "aborted"}
      BY ConstantsAssumption DEF Outcomes
    <3>2. ends \in Terminal \cup {None}
      BY <3>1 DEF EndsOf, Terminal
    <3> QED
      BY <3>2, ConstantsAssumption
  <2>3. sub'[s].state = "terminalizing" /\ sub'[s].reserved # None /\ sub'[s].outcome = sub[s].outcome
    BY <1>9, <2>1, <2>2, ReserveEffect, ConstantsAssumption
  <2>4. sub[s].state # "settled"
    BY <2>1 DEF BeforeTerminalizing, BeforeInputApplied
  <2>5. \A r \in Submission \ {s} : sub'[r] = sub[r]
    BY <1>9, ReserveEffect
  <2> QED
    BY <2>3, <2>4, <2>5
<1>10. ASSUME NEW s \in Submission, FinalizeSettlement(s) PROVE ReservationWins'
  <2>1. sub[s].reserved.outcome # None
    BY <1>10, <1>r, FinalizeEffect, ConstantsAssumption DEF Row, Reservation
  <2> QED
    BY <1>10, <1>r, <2>1, FinalizeEffect
<1>11. ASSUME NEW t \in Thread, StopWorker(t) PROVE ReservationWins'
  BY <1>11, <1>r DEF StopWorker
<1>12. ASSUME NEW s \in Submission, RequestAbort(s) PROVE ReservationWins'
  BY <1>12, <1>r DEF RequestAbort
<1>13. ASSUME NEW h \in Submission, NEW token \in 0..minted, NEW n \in 1..JoinLimit, ClaimJoining(h, token, n) PROVE ReservationWins'
  BY <1>13, <1>r, JoinEffect
<1>14. ASSUME NEW s \in Submission, NEW token \in 0..minted, MarkJoined(s, token) PROVE ReservationWins'
  BY <1>14, <1>r DEF MarkJoined
<1>15. ASSUME NEW s \in Submission, RevertJoining(s) PROVE ReservationWins'
  BY <1>15, <1>r DEF RevertJoining
<1>16. ASSUME NEW s \in Submission, NEW token \in 0..minted, NEW reason \in Reasons(s), Suspend(s, token, reason) PROVE ReservationWins'
  BY <1>16, <1>r DEF Suspend
<1>17. ASSUME NEW p \in Submission, NEW c \in Submission, RecordChildSettled(p, c) PROVE ReservationWins'
  BY <1>17, <1>r DEF RecordChildSettled
<1>18. ASSUME NEW s \in Submission, NEW c \in Call, RecordApprovalDecision(s, c) PROVE ReservationWins'
  BY <1>18, <1>r, DecisionEffect
<1>19. ASSUME NEW s \in Submission, NEW c \in Call, RecordUnknownResolution(s, c) PROVE ReservationWins'
  BY <1>19, <1>r, ResolutionEffect
<1>20. ASSUME NEW s \in Submission, NEW calls \in (SUBSET Call) \ {{}}, MarkUnknown(s, calls) PROVE ReservationWins'
  BY <1>20, <1>r DEF MarkUnknown
<1>21. CASE UNCHANGED vars
  BY <1>21 DEF vars
<1> QED
  BY <1>1, <1>2, <1>3, <1>4, <1>5, <1>6, <1>7, <1>8, <1>9, <1>10, <1>11, <1>12, <1>13, <1>14, <1>15, <1>16, <1>17, <1>18, <1>19, <1>20, <1>21
  DEF Next, Admissions, Ownership, Settling, Stopping, Joining, Pausing

\* The host of a join owns the lane, so the joined row cannot.
LEMMA NextJoinsAreAnchored == TypeOK /\ Counted /\ LaneHasOneOwner /\ JoinsAreAnchored /\ [Next]_vars => JoinsAreAnchored'
<1> SUFFICES ASSUME TypeOK, Counted, LaneHasOneOwner, JoinsAreAnchored, [Next]_vars PROVE JoinsAreAnchored'
  OBVIOUS
<1> USE DEF TypeOK, Counted, LaneHasOneOwner, JoinsAreAnchored, Owned, OwnsLane, SameLane, Present, Active, Earlier
<1>r. \A s \in Submission : /\ sub[s] \in Row /\ adm[s].thread \in Thread
                            /\ sub[s].token \in Nat /\ sub[s].epoch \in Nat
                            /\ sub[s].live \in BOOLEAN
  BY DEF TypeOK, Row, Admission
<1>1. ASSUME NEW s \in Submission, NEW t \in Thread, NEW k \in Key,
             NEW g \in Group \cup {None}, NEW o \in Origin, Admit(s, t, k, g, o) PROVE JoinsAreAnchored'
  BY <1>1, <1>r, AdmitEffect
<1>2. ASSUME NEW s \in Submission, MarkReady(s) PROVE JoinsAreAnchored'
  BY <1>2, <1>r DEF MarkReady
<1>3. ASSUME NEW s \in Submission, Claim(s) PROVE JoinsAreAnchored'
  <2>1. sub[s].state \notin {"joining", "joined"} /\ Grant(s)
    BY <1>3, <1>r DEF Claim, BlockedHeadStates
  <2>2. ASSUME NEW r \in Submission
        PROVE  /\ sub'[r].state \in {"joining", "joined"} => r # s /\ sub'[r] = sub[r]
               /\ sub'[r].state \in {"admitted", "ready", "running"} =>
                    /\ sub[r].state \in {"admitted", "ready", "running"}
                    /\ sub'[r].host = sub[r].host /\ sub'[r].applied = sub[r].applied
               /\ Present(r) => Present(r)'
    BY <2>1, GrantEffect
  <2>3. ASSUME NEW r \in Submission, r # s, OwnsLane(r, sub[r].token)'
        PROVE  OwnsLane(r, sub[r].token)
    <3>1. sub'[r] = sub[r] /\ adm' = adm
      BY <2>1, <2>3, GrantEffect
    <3>2. epoch[adm[r].thread] \in Nat /\ sub[r].epoch <= epoch[adm[r].thread]
      BY <1>r, <2>3, <3>1
    <3>3. adm[r].thread # adm[s].thread
      BY <1>r, <2>1, <2>3, <3>1, <3>2, GrantEffect
    <3> QED
      BY <1>r, <2>1, <2>3, <3>1, <3>3, GrantEffect
  <2>4. adm' = adm
    BY <2>1, GrantEffect
  <2> QED
    BY <2>2, <2>3, <2>4
<1>4. ASSUME NEW s \in Submission, NEW e \in 0..minted, ClaimHandoff(s, e) PROVE JoinsAreAnchored'
  BY <1>4, <1>r DEF ClaimHandoff, Grant
<1>5. ASSUME NEW s \in Submission, LeaseExpires(s) PROVE JoinsAreAnchored'
  BY <1>5, <1>r DEF LeaseExpires
<1>6. ASSUME NEW s \in Submission, NEW token \in 0..minted, RenewOwnership(s, token) PROVE JoinsAreAnchored'
  BY <1>6, <1>r DEF RenewOwnership
<1>7. ASSUME NEW s \in Submission, NEW token \in 0..minted, ReleaseOwnership(s, token) PROVE JoinsAreAnchored'
  BY <1>7, <1>r DEF ReleaseOwnership
<1>8. ASSUME NEW s \in Submission, NEW token \in 0..minted, MarkInputApplied(s, token) PROVE JoinsAreAnchored'
  BY <1>8, <1>r DEF MarkInputApplied, BeforeInputApplied
<1>9. ASSUME NEW s \in Submission, NEW token \in 0..minted, NEW outcome \in Outcome,
             NEW ends \in EndsOf(s, outcome), ReserveSettlement(s, token, outcome, ends) PROVE JoinsAreAnchored'
  BY <1>9, <1>r DEF ReserveSettlement
<1>10. ASSUME NEW s \in Submission, FinalizeSettlement(s) PROVE JoinsAreAnchored'
  BY <1>10, <1>r, FinalizeEffect
<1>11. ASSUME NEW t \in Thread, StopWorker(t) PROVE JoinsAreAnchored'
  BY <1>11, <1>r DEF StopWorker
<1>12. ASSUME NEW s \in Submission, RequestAbort(s) PROVE JoinsAreAnchored'
  BY <1>12, <1>r DEF RequestAbort
<1>13. ASSUME NEW h \in Submission, NEW token \in 0..minted, NEW n \in 1..JoinLimit, ClaimJoining(h, token, n) PROVE JoinsAreAnchored'
  <2>1. OwnsLane(h, token) /\ adm' = adm /\ epoch' = epoch
    BY <1>13, JoinEffect DEF ClaimJoining
  <2>2. ASSUME NEW r \in Submission
        PROVE  /\ Present(r) => Present(r)'
               /\ OwnsLane(r, sub[r].token)' => OwnsLane(r, sub[r].token)
    BY <1>13, <2>1, JoinEffect
  <2>3. ASSUME NEW r \in Submission, Earlier(h, r)
        PROVE  ~OwnsLane(r, sub[r].token)
    BY <1>r, <2>1, <2>3 DEF Admission
  <2>4. ASSUME NEW r \in Submission, sub'[r].state # sub[r].state
        PROVE  /\ sub'[r].state = "joining" /\ sub'[r].host = h /\ Earlier(h, r)
               /\ ~sub'[r].applied
    BY <1>13, <2>4, JoinEffect
  <2>5. ASSUME NEW r \in Submission, sub'[r].state = sub[r].state
        PROVE  sub'[r].applied = sub[r].applied /\ sub'[r].host = sub[r].host
    BY <1>13, <2>5, JoinEffect
  <2> QED
    BY <2>1, <2>2, <2>3, <2>4, <2>5
<1>14. ASSUME NEW s \in Submission, NEW token \in 0..minted, MarkJoined(s, token) PROVE JoinsAreAnchored'
  BY <1>14, <1>r DEF MarkJoined
<1>15. ASSUME NEW s \in Submission, RevertJoining(s) PROVE JoinsAreAnchored'
  BY <1>15, <1>r DEF RevertJoining
<1>16. ASSUME NEW s \in Submission, NEW token \in 0..minted, NEW reason \in Reasons(s), Suspend(s, token, reason) PROVE JoinsAreAnchored'
  BY <1>16, <1>r DEF Suspend
<1>17. ASSUME NEW p \in Submission, NEW c \in Submission, RecordChildSettled(p, c) PROVE JoinsAreAnchored'
  BY <1>17, <1>r DEF RecordChildSettled
<1>18. ASSUME NEW s \in Submission, NEW c \in Call, RecordApprovalDecision(s, c) PROVE JoinsAreAnchored'
  BY <1>18, <1>r, DecisionEffect
<1>19. ASSUME NEW s \in Submission, NEW c \in Call, RecordUnknownResolution(s, c) PROVE JoinsAreAnchored'
  BY <1>19, <1>r, ResolutionEffect
<1>20. ASSUME NEW s \in Submission, NEW calls \in (SUBSET Call) \ {{}}, MarkUnknown(s, calls) PROVE JoinsAreAnchored'
  BY <1>20, <1>r DEF MarkUnknown
<1>21. CASE UNCHANGED vars
  BY <1>21 DEF vars
<1> QED
  BY <1>1, <1>2, <1>3, <1>4, <1>5, <1>6, <1>7, <1>8, <1>9, <1>10, <1>11, <1>12, <1>13, <1>14, <1>15, <1>16, <1>17, <1>18, <1>19, <1>20, <1>21
  DEF Next, Admissions, Ownership, Settling, Stopping, Joining, Pausing

\* Suspend looks for decisions that raced ahead; a decision looks for the
\* suspended row it completes.
LEMMA NextSuspendedAwaitsDecision == TypeOK /\ SuspendedAwaitsDecision /\ [Next]_vars => SuspendedAwaitsDecision'
<1> SUFFICES ASSUME TypeOK, SuspendedAwaitsDecision, [Next]_vars PROVE SuspendedAwaitsDecision'
  OBVIOUS
<1> USE DEF TypeOK, SuspendedAwaitsDecision, Owned, OwnsLane
<1>r. \A s \in Submission : /\ sub[s] \in Row /\ adm[s].thread \in Thread
                            /\ sub[s].token \in Nat /\ sub[s].epoch \in Nat
  BY DEF TypeOK, Row, Admission
<1>1. ASSUME NEW s \in Submission, NEW t \in Thread, NEW k \in Key,
             NEW g \in Group \cup {None}, NEW o \in Origin, Admit(s, t, k, g, o) PROVE SuspendedAwaitsDecision'
  BY <1>1, <1>r, AdmitEffect
<1>2. ASSUME NEW s \in Submission, MarkReady(s) PROVE SuspendedAwaitsDecision'
  BY <1>2, <1>r DEF MarkReady
<1>3. ASSUME NEW s \in Submission, Claim(s) PROVE SuspendedAwaitsDecision'
  BY <1>3, <1>r DEF Claim, BlockedHeadStates, Grant
<1>4. ASSUME NEW s \in Submission, NEW e \in 0..minted, ClaimHandoff(s, e) PROVE SuspendedAwaitsDecision'
  BY <1>4, <1>r DEF ClaimHandoff, Grant
<1>5. ASSUME NEW s \in Submission, LeaseExpires(s) PROVE SuspendedAwaitsDecision'
  BY <1>5, <1>r DEF LeaseExpires
<1>6. ASSUME NEW s \in Submission, NEW token \in 0..minted, RenewOwnership(s, token) PROVE SuspendedAwaitsDecision'
  BY <1>6, <1>r DEF RenewOwnership
<1>7. ASSUME NEW s \in Submission, NEW token \in 0..minted, ReleaseOwnership(s, token) PROVE SuspendedAwaitsDecision'
  BY <1>7, <1>r DEF ReleaseOwnership
<1>8. ASSUME NEW s \in Submission, NEW token \in 0..minted, MarkInputApplied(s, token) PROVE SuspendedAwaitsDecision'
  BY <1>8, <1>r DEF MarkInputApplied
<1>9. ASSUME NEW s \in Submission, NEW token \in 0..minted, NEW outcome \in Outcome,
             NEW ends \in EndsOf(s, outcome), ReserveSettlement(s, token, outcome, ends) PROVE SuspendedAwaitsDecision'
  BY <1>9, <1>r DEF ReserveSettlement
<1>10. ASSUME NEW s \in Submission, FinalizeSettlement(s) PROVE SuspendedAwaitsDecision'
  BY <1>10, <1>r, FinalizeEffect
<1>11. ASSUME NEW t \in Thread, StopWorker(t) PROVE SuspendedAwaitsDecision'
  BY <1>11, <1>r DEF StopWorker
<1>12. ASSUME NEW s \in Submission, RequestAbort(s) PROVE SuspendedAwaitsDecision'
  BY <1>12, <1>r DEF RequestAbort
<1>13. ASSUME NEW h \in Submission, NEW token \in 0..minted, NEW n \in 1..JoinLimit, ClaimJoining(h, token, n) PROVE SuspendedAwaitsDecision'
  BY <1>13, <1>r, JoinEffect
<1>14. ASSUME NEW s \in Submission, NEW token \in 0..minted, MarkJoined(s, token) PROVE SuspendedAwaitsDecision'
  BY <1>14, <1>r DEF MarkJoined
<1>15. ASSUME NEW s \in Submission, RevertJoining(s) PROVE SuspendedAwaitsDecision'
  BY <1>15, <1>r DEF RevertJoining
<1>16. ASSUME NEW s \in Submission, NEW token \in 0..minted, NEW reason \in Reasons(s), Suspend(s, token, reason) PROVE SuspendedAwaitsDecision'
  BY <1>16, <1>r DEF Suspend, Covered, Reasons
<1>17. ASSUME NEW p \in Submission, NEW c \in Submission, RecordChildSettled(p, c) PROVE SuspendedAwaitsDecision'
  BY <1>17, <1>r DEF RecordChildSettled
<1>18. ASSUME NEW s \in Submission, NEW c \in Call, RecordApprovalDecision(s, c) PROVE SuspendedAwaitsDecision'
  BY <1>18, <1>r, DecisionEffect
<1>19. ASSUME NEW s \in Submission, NEW c \in Call, RecordUnknownResolution(s, c) PROVE SuspendedAwaitsDecision'
  BY <1>19, <1>r, ResolutionEffect
<1>20. ASSUME NEW s \in Submission, NEW calls \in (SUBSET Call) \ {{}}, MarkUnknown(s, calls) PROVE SuspendedAwaitsDecision'
  BY <1>20, <1>r DEF MarkUnknown
<1>21. CASE UNCHANGED vars
  BY <1>21 DEF vars
<1> QED
  BY <1>1, <1>2, <1>3, <1>4, <1>5, <1>6, <1>7, <1>8, <1>9, <1>10, <1>11, <1>12, <1>13, <1>14, <1>15, <1>16, <1>17, <1>18, <1>19, <1>20, <1>21
  DEF Next, Admissions, Ownership, Settling, Stopping, Joining, Pausing

\* Sealing marks every active row but those its settling host consumed, and
\* a sealed Thread neither admits nor joins.
LEMMA NextStopIsComplete == TypeOK /\ JoinsAreAnchored /\ StopIsComplete /\ [Next]_vars => StopIsComplete'
<1> SUFFICES ASSUME TypeOK, JoinsAreAnchored, StopIsComplete, [Next]_vars PROVE StopIsComplete'
  OBVIOUS
<1> USE DEF TypeOK, StopIsComplete, Active
<1>r. \A s \in Submission : /\ sub[s] \in Row /\ adm[s].thread \in Thread
                            /\ sub[s].token \in Nat /\ sub[s].epoch \in Nat
  BY DEF TypeOK, Row, Admission
<1>1. ASSUME NEW s \in Submission, NEW t \in Thread, NEW k \in Key,
             NEW g \in Group \cup {None}, NEW o \in Origin, Admit(s, t, k, g, o) PROVE StopIsComplete'
  BY <1>1, <1>r, AdmitEffect
<1>2. ASSUME NEW s \in Submission, MarkReady(s) PROVE StopIsComplete'
  BY <1>2, <1>r DEF MarkReady
<1>3. ASSUME NEW s \in Submission, Claim(s) PROVE StopIsComplete'
  BY <1>3, <1>r DEF Claim, IsHead, Candidate, Grant
<1>4. ASSUME NEW s \in Submission, NEW e \in 0..minted, ClaimHandoff(s, e) PROVE StopIsComplete'
  BY <1>4, <1>r DEF ClaimHandoff, Candidate, Grant
<1>5. ASSUME NEW s \in Submission, LeaseExpires(s) PROVE StopIsComplete'
  BY <1>5, <1>r DEF LeaseExpires
<1>6. ASSUME NEW s \in Submission, NEW token \in 0..minted, RenewOwnership(s, token) PROVE StopIsComplete'
  BY <1>6, <1>r DEF RenewOwnership
<1>7. ASSUME NEW s \in Submission, NEW token \in 0..minted, ReleaseOwnership(s, token) PROVE StopIsComplete'
  BY <1>7, <1>r DEF ReleaseOwnership
<1>8. ASSUME NEW s \in Submission, NEW token \in 0..minted, MarkInputApplied(s, token) PROVE StopIsComplete'
  BY <1>8, <1>r DEF MarkInputApplied, BeforeInputApplied
<1>9. ASSUME NEW s \in Submission, NEW token \in 0..minted, NEW outcome \in Outcome,
             NEW ends \in EndsOf(s, outcome), ReserveSettlement(s, token, outcome, ends) PROVE StopIsComplete'
  <2>1. ASSUME NEW r \in Submission
        PROVE  /\ sub'[r].state = "settled" <=> sub[r].state = "settled"
               /\ Active(r)' => Active(r)
               /\ sub'[r].abort = sub[r].abort /\ sub'[r].applied = sub[r].applied
               /\ sub'[r].host = sub[r].host
    <3>1. CASE r # s
      BY <1>9, <3>1, ReserveEffect
    <3>2. CASE r = s
      <4>1. /\ sub'[s].abort = sub[s].abort /\ sub'[s].applied = sub[s].applied
            /\ sub'[s].host = sub[s].host /\ sub[s].state # "absent"
            /\ sub'[s].state = IF sub[s].state \in BeforeTerminalizing THEN "terminalizing"
                               ELSE sub[s].state
        BY <1>9, ReserveEffect
      <4> QED
        BY <3>2, <4>1 DEF BeforeTerminalizing, BeforeInputApplied
    <3> QED
      BY <3>1, <3>2
  <2>2. UNCHANGED <<adm, stopped>>
    BY <1>9, ReserveEffect
  <2> QED
    BY <2>1, <2>2
<1>10. ASSUME NEW s \in Submission, FinalizeSettlement(s) PROVE StopIsComplete'
  <2>1. /\ adm' = adm
        /\ stopped' = IF Seals(s) THEN [stopped EXCEPT ![adm[s].thread] = sub[s].reserved.ends]
                      ELSE stopped
    BY <1>10, <1>r DEF FinalizeSettlement
  <2>2. \A r \in Submission :
          /\ sub'[r].applied = sub[r].applied /\ sub'[r].host = sub[r].host
          /\ sub[r].abort => sub'[r].abort
          /\ sub[r].state = "settled" => sub'[r].state = "settled"
          /\ Active(r)' => Active(r) /\ r # s
    BY <1>10, FinalizeEffect
  <2>3. sub'[s].state = "settled"
    BY <1>10, FinalizeEffect
  <2>4. ASSUME NEW r \in Submission, Active(r)', stopped'[adm[r].thread] # "open",
               stopped[adm[r].thread] = "open"
        PROVE  sub'[r].abort \/ JoinedTo(r, s)
    <3>1. Seals(s) /\ SameLane(r, s) /\ Active(r) /\ r # s
      <4>1. Seals(s) /\ adm[r].thread = adm[s].thread
        BY <1>r, <2>1, <2>4
      <4> QED
        BY <2>2, <2>4, <4>1 DEF SameLane
    <3>2. CASE JoinedTo(r, s)
      BY <3>2
    <3>3. CASE ~JoinedTo(r, s)
      <4>1. sub'[r] = [sub[r] EXCEPT !.abort = TRUE]
        BY <1>10, <3>1, <3>3 DEF FinalizeSettlement
      <4> QED
        BY <1>r, <4>1 DEF Row
    <3> QED
      BY <3>2, <3>3
  <2>5. ASSUME NEW r \in Submission, Active(r)', stopped'[adm[r].thread] # "open"
        PROVE  sub'[r].abort \/ (/\ sub'[r].applied /\ sub'[r].host \in Submission
                                /\ sub'[sub'[r].host].state = "settled")
    <3>1. CASE stopped[adm[r].thread] = "open"
      <4>1. sub'[r].abort \/ JoinedTo(r, s)
        BY <2>4, <2>5, <3>1
      <4>2. JoinedTo(r, s) => /\ sub'[r].applied /\ sub'[r].host = s
                              /\ sub'[s].state = "settled"
        BY <2>2, <2>3 DEF JoinedTo
      <4> QED
        BY <4>1, <4>2
    <3>2. CASE stopped[adm[r].thread] # "open"
      <4>1. \/ sub[r].abort
            \/ sub[r].applied /\ sub[r].host \in Submission /\ sub[sub[r].host].state = "settled"
        BY <2>2, <2>5, <3>2
      <4>2. CASE sub[r].abort
        BY <2>2, <4>2
      <4>3. CASE sub[r].applied /\ sub[r].host \in Submission /\ sub[sub[r].host].state = "settled"
        BY <2>2, <4>3
      <4> QED
        BY <4>1, <4>2, <4>3
    <3> QED
      BY <3>1, <3>2
  <2> QED
    BY <2>1, <2>5
<1>11. ASSUME NEW t \in Thread, StopWorker(t) PROVE StopIsComplete'
  <2>1. ASSUME NEW r \in Submission
        PROVE  /\ sub'[r].state = sub[r].state /\ sub'[r].applied = sub[r].applied
               /\ sub'[r].host = sub[r].host
               /\ sub[r].abort => sub'[r].abort
               /\ adm[r].thread = t /\ Active(r) => sub'[r].abort
    <3>1. CASE sub'[r] = sub[r] /\ ~(adm[r].thread = t /\ Active(r))
      BY <3>1
    <3>2. CASE sub'[r] = [sub[r] EXCEPT !.abort = TRUE]
      BY <1>r, <3>2 DEF Row
    <3> QED
      BY <1>11, <3>1, <3>2 DEF StopWorker, InLane, Present
  <2>2. adm' = adm /\ \A u \in Thread \ {t} : stopped'[u] = stopped[u]
    BY <1>11, <1>r DEF StopWorker
  <2>3. ASSUME NEW r \in Submission, Active(r)', stopped'[adm[r].thread] # "open"
        PROVE  sub'[r].abort \/ (/\ sub'[r].applied /\ sub'[r].host \in Submission
                                /\ sub'[sub'[r].host].state = "settled")
    <3>1. CASE adm[r].thread = t
      BY <2>1, <2>3, <3>1
    <3>2. CASE adm[r].thread # t
      <4>1. stopped[adm[r].thread] # "open" /\ Active(r)
        BY <1>r, <2>1, <2>2, <2>3, <3>2
      <4>2. \/ sub[r].abort
            \/ sub[r].applied /\ sub[r].host \in Submission /\ sub[sub[r].host].state = "settled"
        BY <4>1
      <4>3. CASE sub[r].abort
        BY <2>1, <4>3
      <4>4. CASE sub[r].applied /\ sub[r].host \in Submission /\ sub[sub[r].host].state = "settled"
        BY <2>1, <4>4
      <4> QED
        BY <4>2, <4>3, <4>4
    <3> QED
      BY <3>1, <3>2
  <2> QED
    BY <2>2, <2>3
<1>12. ASSUME NEW s \in Submission, RequestAbort(s) PROVE StopIsComplete'
  BY <1>12, <1>r DEF RequestAbort
<1>13. ASSUME NEW h \in Submission, NEW token \in 0..minted, NEW n \in 1..JoinLimit, ClaimJoining(h, token, n) PROVE StopIsComplete'
  <2>1. ASSUME NEW r \in Submission, Active(r)', stopped'[adm'[r].thread] # "open"
        PROVE  /\ Active(r) /\ stopped[adm[r].thread] # "open"
               /\ sub'[r].host = sub[r].host
    <3>1. stopped[adm[h].thread] = "open" /\ adm' = adm /\ stopped' = stopped
      BY <1>13, <1>r DEF ClaimJoining
    <3>2. ~Earlier(h, r)
      BY <2>1, <3>1 DEF Earlier, SameLane
    <3>3. sub'[r].state = sub[r].state /\ sub'[r].host = sub[r].host
      BY <1>13, <3>2, JoinEffect
    <3> QED
      BY <2>1, <3>1, <3>3
  <2>2. ASSUME NEW r \in Submission
        PROVE  /\ sub'[r].abort = sub[r].abort /\ sub'[r].applied = sub[r].applied
               /\ sub[r].state = "settled" => sub'[r].state = "settled"
    BY <1>13, JoinEffect
  <2> QED
    BY <2>1, <2>2
<1>14. ASSUME NEW s \in Submission, NEW token \in 0..minted, MarkJoined(s, token) PROVE StopIsComplete'
  BY <1>14, <1>r DEF MarkJoined
<1>15. ASSUME NEW s \in Submission, RevertJoining(s) PROVE StopIsComplete'
  BY <1>15, <1>r DEF RevertJoining, JoinsAreAnchored
<1>16. ASSUME NEW s \in Submission, NEW token \in 0..minted, NEW reason \in Reasons(s), Suspend(s, token, reason) PROVE StopIsComplete'
  BY <1>16, <1>r DEF Suspend
<1>17. ASSUME NEW p \in Submission, NEW c \in Submission, RecordChildSettled(p, c) PROVE StopIsComplete'
  BY <1>17, <1>r DEF RecordChildSettled
<1>18. ASSUME NEW s \in Submission, NEW c \in Call, RecordApprovalDecision(s, c) PROVE StopIsComplete'
  BY <1>18, <1>r, DecisionEffect
<1>19. ASSUME NEW s \in Submission, NEW c \in Call, RecordUnknownResolution(s, c) PROVE StopIsComplete'
  BY <1>19, <1>r, ResolutionEffect
<1>20. ASSUME NEW s \in Submission, NEW calls \in (SUBSET Call) \ {{}}, MarkUnknown(s, calls) PROVE StopIsComplete'
  BY <1>20, <1>r DEF MarkUnknown
<1>21. CASE UNCHANGED vars
  BY <1>21 DEF vars
<1> QED
  BY <1>1, <1>2, <1>3, <1>4, <1>5, <1>6, <1>7, <1>8, <1>9, <1>10, <1>11, <1>12, <1>13, <1>14, <1>15, <1>16, <1>17, <1>18, <1>19, <1>20, <1>21
  DEF Next, Admissions, Ownership, Settling, Stopping, Joining, Pausing

\* No operation touches a row that was not admitted.
AbsentIsBlank == \A s \in Submission : ~Present(s) => sub[s] = Absent

LEMMA NextAbsentIsBlank == TypeOK /\ Counted /\ AbsentIsBlank /\ [Next]_vars => AbsentIsBlank'
<1> SUFFICES ASSUME TypeOK, Counted, AbsentIsBlank, [Next]_vars PROVE AbsentIsBlank'
  OBVIOUS
<1> USE DEF TypeOK, Counted, AbsentIsBlank, Present, Owned, OwnsLane, Active
<1>r. \A s \in Submission : /\ sub[s] \in Row /\ adm[s].thread \in Thread
                            /\ sub[s].token \in Nat /\ sub[s].epoch \in Nat
  BY DEF TypeOK, Row, Admission
<1>1. ASSUME NEW s \in Submission, NEW t \in Thread, NEW k \in Key,
             NEW g \in Group \cup {None}, NEW o \in Origin, Admit(s, t, k, g, o) PROVE AbsentIsBlank'
  BY <1>1, <1>r, AdmitEffect
<1>2. ASSUME NEW s \in Submission, MarkReady(s) PROVE AbsentIsBlank'
  BY <1>2, <1>r DEF MarkReady
<1>3. ASSUME NEW s \in Submission, Claim(s) PROVE AbsentIsBlank'
  BY <1>3, <1>r DEF Claim, IsHead, Candidate, Grant
<1>4. ASSUME NEW s \in Submission, NEW e \in 0..minted, ClaimHandoff(s, e) PROVE AbsentIsBlank'
  BY <1>4, <1>r DEF ClaimHandoff, Candidate, Grant
<1>5. ASSUME NEW s \in Submission, LeaseExpires(s) PROVE AbsentIsBlank'
  BY <1>5, <1>r DEF LeaseExpires
<1>6. ASSUME NEW s \in Submission, NEW token \in 0..minted, RenewOwnership(s, token) PROVE AbsentIsBlank'
  BY <1>6, <1>r DEF RenewOwnership
<1>7. ASSUME NEW s \in Submission, NEW token \in 0..minted, ReleaseOwnership(s, token) PROVE AbsentIsBlank'
  BY <1>7, <1>r DEF ReleaseOwnership
<1>8. ASSUME NEW s \in Submission, NEW token \in 0..minted, MarkInputApplied(s, token) PROVE AbsentIsBlank'
  BY <1>8, <1>r DEF MarkInputApplied, BeforeInputApplied
<1>9. ASSUME NEW s \in Submission, NEW token \in 0..minted, NEW outcome \in Outcome,
             NEW ends \in EndsOf(s, outcome), ReserveSettlement(s, token, outcome, ends) PROVE AbsentIsBlank'
  BY <1>9, <1>r DEF ReserveSettlement, BeforeTerminalizing, BeforeInputApplied
<1>10. ASSUME NEW s \in Submission, FinalizeSettlement(s) PROVE AbsentIsBlank'
  BY <1>10, <1>r, FinalizeEffect
<1>11. ASSUME NEW t \in Thread, StopWorker(t) PROVE AbsentIsBlank'
  BY <1>11, <1>r DEF StopWorker
<1>12. ASSUME NEW s \in Submission, RequestAbort(s) PROVE AbsentIsBlank'
  BY <1>12, <1>r DEF RequestAbort
<1>13. ASSUME NEW h \in Submission, NEW token \in 0..minted, NEW n \in 1..JoinLimit, ClaimJoining(h, token, n) PROVE AbsentIsBlank'
  BY <1>13, <1>r, JoinEffect
<1>14. ASSUME NEW s \in Submission, NEW token \in 0..minted, MarkJoined(s, token) PROVE AbsentIsBlank'
  BY <1>14, <1>r DEF MarkJoined
<1>15. ASSUME NEW s \in Submission, RevertJoining(s) PROVE AbsentIsBlank'
  BY <1>15, <1>r DEF RevertJoining
<1>16. ASSUME NEW s \in Submission, NEW token \in 0..minted, NEW reason \in Reasons(s), Suspend(s, token, reason) PROVE AbsentIsBlank'
  BY <1>16, <1>r DEF Suspend
<1>17. ASSUME NEW p \in Submission, NEW c \in Submission, RecordChildSettled(p, c) PROVE AbsentIsBlank'
  BY <1>17, <1>r DEF RecordChildSettled
<1>18. ASSUME NEW s \in Submission, NEW c \in Call, RecordApprovalDecision(s, c) PROVE AbsentIsBlank'
  BY <1>18, <1>r, DecisionEffect
<1>19. ASSUME NEW s \in Submission, NEW c \in Call, RecordUnknownResolution(s, c) PROVE AbsentIsBlank'
  BY <1>19, <1>r, ResolutionEffect
<1>20. ASSUME NEW s \in Submission, NEW calls \in (SUBSET Call) \ {{}}, MarkUnknown(s, calls) PROVE AbsentIsBlank'
  BY <1>20, <1>r DEF MarkUnknown
<1>21. CASE UNCHANGED vars
  BY <1>21 DEF vars
<1> QED
  BY <1>1, <1>2, <1>3, <1>4, <1>5, <1>6, <1>7, <1>8, <1>9, <1>10, <1>11, <1>12, <1>13, <1>14, <1>15, <1>16, <1>17, <1>18, <1>19, <1>20, <1>21
  DEF Next, Admissions, Ownership, Settling, Stopping, Joining, Pausing

\* What each operation leaves alone in rows it must not take back.
LEMMA NextDurable == TypeOK /\ Counted /\ AbsentIsBlank /\ ReservationWins /\ [Next]_vars => [Durable]_vars
<1> SUFFICES ASSUME TypeOK, Counted, AbsentIsBlank, ReservationWins, [Next]_vars PROVE Durable \/ UNCHANGED vars
  OBVIOUS
<1> USE DEF TypeOK, Counted, ReservationWins, Durable, Owned, OwnsLane, Active, Present
<1>r. \A s \in Submission : /\ sub[s] \in Row /\ adm[s].thread \in Thread
                            /\ sub[s].token \in Nat /\ sub[s].epoch \in Nat
                            /\ sub[s].live \in BOOLEAN
  BY DEF TypeOK, Row, Admission
<1>1. ASSUME NEW s \in Submission, NEW t \in Thread, NEW k \in Key,
             NEW g \in Group \cup {None}, NEW o \in Origin, Admit(s, t, k, g, o) PROVE Durable
  <2>1. sub[s] = Absent
    BY <1>1, AdmitEffect DEF AbsentIsBlank
  <2>2. /\ ~sub[s].abort /\ ~sub[s].applied /\ sub[s].reserved = None
        /\ sub[s].decided = {} /\ sub[s].resolved = {} /\ sub[s].state = "absent"
    BY <2>1 DEF Absent, Fresh
  <2>3. \A r \in Submission \ {s} : sub'[r] = sub[r] /\ adm'[r] = adm[r]
    BY <1>1, AdmitEffect
  <2>4. UNCHANGED <<epoch, stopped>>
    BY <1>1, AdmitEffect
  <2> QED
    BY <2>2, <2>3, <2>4
<1>2. ASSUME NEW s \in Submission, MarkReady(s) PROVE Durable
  BY <1>2, <1>r DEF MarkReady
<1>3. ASSUME NEW s \in Submission, Claim(s) PROVE Durable
  BY <1>3, <1>r DEF Claim, IsHead, Candidate, Grant
<1>4. ASSUME NEW s \in Submission, NEW e \in 0..minted, ClaimHandoff(s, e) PROVE Durable
  BY <1>4, <1>r DEF ClaimHandoff, Candidate, Grant
<1>5. ASSUME NEW s \in Submission, LeaseExpires(s) PROVE Durable
  BY <1>5, <1>r DEF LeaseExpires
<1>6. ASSUME NEW s \in Submission, NEW token \in 0..minted, RenewOwnership(s, token) PROVE Durable
  BY <1>6, <1>r DEF RenewOwnership
<1>7. ASSUME NEW s \in Submission, NEW token \in 0..minted, ReleaseOwnership(s, token) PROVE Durable
  BY <1>7, <1>r DEF ReleaseOwnership
<1>8. ASSUME NEW s \in Submission, NEW token \in 0..minted, MarkInputApplied(s, token) PROVE Durable
  BY <1>8, <1>r DEF MarkInputApplied
<1>9. ASSUME NEW s \in Submission, NEW token \in 0..minted, NEW outcome \in Outcome,
             NEW ends \in EndsOf(s, outcome), ReserveSettlement(s, token, outcome, ends) PROVE Durable
  BY <1>9, <1>r DEF ReserveSettlement
<1>10. ASSUME NEW s \in Submission, FinalizeSettlement(s) PROVE Durable
  BY <1>10, <1>r, FinalizeEffect
<1>11. ASSUME NEW t \in Thread, StopWorker(t) PROVE Durable
  BY <1>11, <1>r DEF StopWorker
<1>12. ASSUME NEW s \in Submission, RequestAbort(s) PROVE Durable
  BY <1>12, <1>r DEF RequestAbort
<1>13. ASSUME NEW h \in Submission, NEW token \in 0..minted, NEW n \in 1..JoinLimit, ClaimJoining(h, token, n) PROVE Durable
  BY <1>13, <1>r, JoinEffect
<1>14. ASSUME NEW s \in Submission, NEW token \in 0..minted, MarkJoined(s, token) PROVE Durable
  BY <1>14, <1>r DEF MarkJoined
<1>15. ASSUME NEW s \in Submission, RevertJoining(s) PROVE Durable
  BY <1>15, <1>r DEF RevertJoining
<1>16. ASSUME NEW s \in Submission, NEW token \in 0..minted, NEW reason \in Reasons(s), Suspend(s, token, reason) PROVE Durable
  BY <1>16, <1>r DEF Suspend
<1>17. ASSUME NEW p \in Submission, NEW c \in Submission, RecordChildSettled(p, c) PROVE Durable
  BY <1>17, <1>r DEF RecordChildSettled
<1>18. ASSUME NEW s \in Submission, NEW c \in Call, RecordApprovalDecision(s, c) PROVE Durable
  BY <1>18, <1>r, DecisionEffect
<1>19. ASSUME NEW s \in Submission, NEW c \in Call, RecordUnknownResolution(s, c) PROVE Durable
  BY <1>19, <1>r, ResolutionEffect
<1>20. ASSUME NEW s \in Submission, NEW calls \in (SUBSET Call) \ {{}}, MarkUnknown(s, calls) PROVE Durable
  BY <1>20, <1>r DEF MarkUnknown
<1>21. CASE UNCHANGED vars
  BY <1>21 DEF vars
<1> QED
  BY <1>1, <1>2, <1>3, <1>4, <1>5, <1>6, <1>7, <1>8, <1>9, <1>10, <1>11, <1>12, <1>13, <1>14, <1>15, <1>16, <1>17, <1>18, <1>19, <1>20, <1>21
  DEF Next, Admissions, Ownership, Settling, Stopping, Joining, Pausing

Quiet ==
  /\ \A s \in Submission :
       /\ sub[s].state = "absent" <=> sub'[s].state = "absent"
       /\ sub[s].state = "settled" <=> sub'[s].state = "settled"
       /\ sub'[s].reserved = sub[s].reserved
  /\ UNCHANGED <<adm, next, stopped>>

Loud ==
  \/ \E s \in Submission, t \in Thread, k \in Key, g \in Group \cup {None}, o \in Origin :
       Admit(s, t, k, g, o)
  \/ \E s \in Submission, token \in 0..minted, outcome \in Outcome :
       \E ends \in EndsOf(s, outcome) : ReserveSettlement(s, token, outcome, ends)
  \/ \E s \in Submission : FinalizeSettlement(s)
  \/ \E t \in Thread : StopWorker(t)

\* Sixteen of the twenty operations neither accept, decide, settle nor seal.
LEMMA QuietSteps == TypeOK /\ Counted /\ [Next]_vars => Quiet \/ Loud
<1> SUFFICES ASSUME TypeOK, Counted, [Next]_vars PROVE Quiet \/ Loud
  OBVIOUS
<1> USE DEF TypeOK, Counted, Quiet, Owned, OwnsLane, Active, Present
<1>r. \A s \in Submission : /\ sub[s] \in Row /\ adm[s].thread \in Thread
                            /\ sub[s].token \in Nat /\ sub[s].epoch \in Nat
                            /\ sub[s].live \in BOOLEAN
  BY DEF TypeOK, Row, Admission
<1>1. ASSUME NEW s \in Submission, NEW t \in Thread, NEW k \in Key,
             NEW g \in Group \cup {None}, NEW o \in Origin, Admit(s, t, k, g, o) PROVE Loud
  BY <1>1 DEF Loud
<1>2. ASSUME NEW s \in Submission, MarkReady(s) PROVE Quiet
  BY <1>2, <1>r DEF MarkReady
<1>3. ASSUME NEW s \in Submission, Claim(s) PROVE Quiet
  BY <1>3, <1>r DEF Claim, IsHead, Candidate, Grant
<1>4. ASSUME NEW s \in Submission, NEW e \in 0..minted, ClaimHandoff(s, e) PROVE Quiet
  BY <1>4, <1>r DEF ClaimHandoff, Candidate, Grant
<1>5. ASSUME NEW s \in Submission, LeaseExpires(s) PROVE Quiet
  BY <1>5, <1>r DEF LeaseExpires
<1>6. ASSUME NEW s \in Submission, NEW token \in 0..minted, RenewOwnership(s, token) PROVE Quiet
  BY <1>6, <1>r DEF RenewOwnership
<1>7. ASSUME NEW s \in Submission, NEW token \in 0..minted, ReleaseOwnership(s, token) PROVE Quiet
  BY <1>7, <1>r DEF ReleaseOwnership
<1>8. ASSUME NEW s \in Submission, NEW token \in 0..minted, MarkInputApplied(s, token) PROVE Quiet
  BY <1>8, <1>r DEF MarkInputApplied, BeforeInputApplied
<1>9. ASSUME NEW s \in Submission, NEW token \in 0..minted, NEW outcome \in Outcome,
             NEW ends \in EndsOf(s, outcome), ReserveSettlement(s, token, outcome, ends) PROVE Loud
  BY <1>9 DEF Loud
<1>10. ASSUME NEW s \in Submission, FinalizeSettlement(s) PROVE Loud
  BY <1>10 DEF Loud
<1>11. ASSUME NEW t \in Thread, StopWorker(t) PROVE Loud
  BY <1>11 DEF Loud
<1>12. ASSUME NEW s \in Submission, RequestAbort(s) PROVE Quiet
  BY <1>12, <1>r DEF RequestAbort
<1>13. ASSUME NEW h \in Submission, NEW token \in 0..minted, NEW n \in 1..JoinLimit, ClaimJoining(h, token, n) PROVE Quiet
  BY <1>13, <1>r, JoinEffect
<1>14. ASSUME NEW s \in Submission, NEW token \in 0..minted, MarkJoined(s, token) PROVE Quiet
  BY <1>14, <1>r DEF MarkJoined
<1>15. ASSUME NEW s \in Submission, RevertJoining(s) PROVE Quiet
  BY <1>15, <1>r DEF RevertJoining
<1>16. ASSUME NEW s \in Submission, NEW token \in 0..minted, NEW reason \in Reasons(s), Suspend(s, token, reason) PROVE Quiet
  BY <1>16, <1>r DEF Suspend
<1>17. ASSUME NEW p \in Submission, NEW c \in Submission, RecordChildSettled(p, c) PROVE Quiet
  BY <1>17, <1>r DEF RecordChildSettled
<1>18. ASSUME NEW s \in Submission, NEW c \in Call, RecordApprovalDecision(s, c) PROVE Quiet
  BY <1>18, <1>r, DecisionEffect
<1>19. ASSUME NEW s \in Submission, NEW c \in Call, RecordUnknownResolution(s, c) PROVE Quiet
  BY <1>19, <1>r, ResolutionEffect
<1>20. ASSUME NEW s \in Submission, NEW calls \in (SUBSET Call) \ {{}}, MarkUnknown(s, calls) PROVE Quiet
  BY <1>20, <1>r DEF MarkUnknown
<1>21. CASE UNCHANGED vars
  BY <1>21 DEF vars
<1> QED
  BY <1>1, <1>2, <1>3, <1>4, <1>5, <1>6, <1>7, <1>8, <1>9, <1>10, <1>11, <1>12, <1>13, <1>14, <1>15, <1>16, <1>17, <1>18, <1>19, <1>20, <1>21
  DEF Next, Admissions, Ownership, Settling, Stopping, Joining, Pausing

LEMMA NextAdmissionIsExact ==
  TypeOK /\ Counted /\ AdmissionIsExact /\ [Next]_vars => AdmissionIsExact'
<1> SUFFICES ASSUME TypeOK, Counted, AdmissionIsExact, [Next]_vars PROVE AdmissionIsExact'
  OBVIOUS
<1>1. CASE /\ UNCHANGED <<adm, next>>
           /\ \A s \in Submission : /\ Present(s)' <=> Present(s)
                                    /\ Active(s)' => Active(s)
  <2>1. \A t \in Thread : InLane(t)' = InLane(t)
    BY <1>1 DEF InLane
  <2> QED
    BY <1>1, <2>1 DEF AdmissionIsExact, SameLane
<1>2. ASSUME NEW s \in Submission, NEW t \in Thread, NEW k \in Key,
             NEW g \in Group \cup {None}, NEW o \in Origin, Admit(s, t, k, g, o)
      PROVE  AdmissionIsExact'
  <2>1. /\ \A r \in Submission \ {s} : sub'[r] = sub[r] /\ adm'[r] = adm[r]
        /\ adm'[s] = [thread |-> t, key |-> k, group |-> g, origin |-> o, seq |-> next[t]]
        /\ ~Present(s) /\ Present(s)'
        /\ next'[t] = next[t] + 1 /\ \A u \in Thread \ {t} : next'[u] = next[u]
    BY <1>2 DEF Admit, TypeOK, Present, Fresh
  <2>2. InLane(t)' = InLane(t) \cup {s} /\ \A u \in Thread \ {t} : InLane(u)' = InLane(u)
    BY <2>1 DEF InLane, Present
  <2>3. ASSUME NEW u \in Thread
        PROVE  {adm'[r].seq : r \in InLane(u)'} = 1..(next'[u] - 1)
    <3>1. {adm[r].seq : r \in InLane(u)} = 1..(next[u] - 1)
      BY DEF AdmissionIsExact
    <3>2. \A r \in InLane(u) : adm'[r] = adm[r]
      BY <2>1 DEF InLane, Present
    <3>3. CASE u = t
      <4>1. {adm'[r].seq : r \in InLane(t)'} = {adm[r].seq : r \in InLane(t)} \cup {next[t]}
        BY <2>1, <2>2, <3>2, <3>3
      <4>2. next[t] \in Nat \ {0} /\ next'[t] = next[t] + 1
        BY <2>1 DEF TypeOK
      <4>3. 1..(next[t] - 1) \cup {next[t]} = 1..(next'[t] - 1)
        BY <4>2
      <4> QED
        BY <3>1, <3>3, <4>1, <4>3
    <3>4. CASE u # t
      BY <2>1, <2>2, <3>1, <3>2, <3>4
    <3> QED
      BY <3>3, <3>4
  <2>4. ASSUME NEW q \in Submission, q # s, Present(q)', adm'[q].thread = t
        PROVE  /\ q \in InLane(t) /\ adm[q].seq < next[t] /\ adm[q].seq \in Nat
               /\ adm[q].key # k /\ adm[q].origin = o
               /\ g # None /\ adm[q].group = g => ~Active(q)
    <3>1. q \in InLane(t)
      BY <2>1, <2>4 DEF InLane, Present
    <3>2. adm[q].seq \in Nat /\ adm[q].thread = t /\ Present(q)
      BY <3>1 DEF TypeOK, Admission, InLane
    <3>3. PICK r \in InLane(t) : adm[r].seq = 1
      <4>1. next[t] \in Nat /\ adm[q].seq < next[t] /\ adm[q].seq \in 1..(next[t] - 1)
        BY <3>1, <3>2 DEF AdmissionIsExact, Counted, TypeOK
      <4>2. 1 \in 1..(next[t] - 1)
        BY <3>2, <4>1
      <4> QED
        BY <4>2 DEF AdmissionIsExact
    <3>4. adm[r].origin = o
      BY <1>2, <3>3 DEF Admit
    <3>5. adm[q].origin = adm[r].origin
      BY <3>1, <3>3 DEF AdmissionIsExact, InLane, SameLane
    <3> QED
      BY <1>2, <3>1, <3>2, <3>4, <3>5 DEF Admit, Counted
  <2>5. ASSUME NEW q \in Submission, NEW r \in Submission,
               Present(q)', Present(r)', SameLane(q, r)', q # r
        PROVE  /\ adm'[q].seq # adm'[r].seq
               /\ adm'[q].key # adm'[r].key
               /\ adm'[q].origin = adm'[r].origin
               /\ adm'[q].group # None /\ adm'[q].group = adm'[r].group =>
                    ~(Active(q)' /\ Active(r)')
    <3>0. /\ adm'[s].thread = t /\ adm'[s].seq = next[t] /\ adm'[s].key = k
          /\ adm'[s].origin = o /\ adm'[s].group = g /\ next[t] \in Nat
      BY <2>1 DEF TypeOK
    <3>1. CASE q = s
      <4>1. r # s /\ adm'[r].thread = t /\ adm'[r] = adm[r] /\ sub'[r] = sub[r]
        BY <2>1, <2>5, <3>0, <3>1 DEF SameLane
      <4> QED
        BY <2>4, <2>5, <3>0, <3>1, <4>1 DEF Active
    <3>2. CASE r = s
      <4>1. q # s /\ adm'[q].thread = t /\ adm'[q] = adm[q] /\ sub'[q] = sub[q]
        BY <2>1, <2>5, <3>0, <3>2 DEF SameLane
      <4> QED
        BY <2>4, <2>5, <3>0, <3>2, <4>1 DEF Active
    <3>3. CASE q # s /\ r # s
      BY <2>1, <2>5, <3>3 DEF AdmissionIsExact, SameLane, Present, Active
    <3> QED
      BY <3>1, <3>2, <3>3
  <2> QED
    BY <2>3, <2>5 DEF AdmissionIsExact
<1>3. CASE Quiet
  BY <1>1, <1>3 DEF Quiet, Present, Active
<1>4. ASSUME NEW s \in Submission, NEW token \in 0..minted, NEW outcome \in Outcome,
             NEW ends \in EndsOf(s, outcome), ReserveSettlement(s, token, outcome, ends)
      PROVE  AdmissionIsExact'
  <2>1. /\ sub[s].state # "absent"
        /\ sub'[s].state = IF sub[s].state \in BeforeTerminalizing THEN "terminalizing"
                           ELSE sub[s].state
        /\ \A r \in Submission \ {s} : sub'[r] = sub[r]
        /\ UNCHANGED <<adm, next>>
    BY <1>4, ReserveEffect
  <2> QED
    BY <1>1, <2>1 DEF Present, Active, BeforeTerminalizing, BeforeInputApplied
<1>5. ASSUME NEW s \in Submission, FinalizeSettlement(s) PROVE AdmissionIsExact'
  BY <1>1, <1>5, FinalizeEffect DEF Present, Active
<1>6. ASSUME NEW t \in Thread, StopWorker(t) PROVE AdmissionIsExact'
  <2>1. \A r \in Submission : sub[r] \in Row
    BY DEF TypeOK
  <2>2. \A r \in Submission : sub'[r].state = sub[r].state
    BY <1>6, <2>1 DEF StopWorker, Row
  <2> QED
    BY <1>1, <1>6, <2>2 DEF StopWorker, Present, Active
<1> QED
  BY <1>2, <1>3, <1>4, <1>5, <1>6, QuietSteps DEF Loud

-----------------------------------------------------------------------------
(***************************************************************************)
(* Refinement: every step of the ledger is a step of AcceptedWork, or none. *)
(***************************************************************************)
LEMMA InitRefines == Init => Promise!Init
<1> SUFFICES ASSUME Init PROVE Promise!Init
  OBVIOUS
<1>1. \A s \in Submission : sub[s].state = "absent" /\ sub[s].reserved = None
  BY DEF Init, Absent, Fresh
<1>2. \A s \in Submission : HomeOf(s) = None /\ PhaseOf(s) = "none" /\ VerdictOf(s) = None
  BY <1>1 DEF HomeOf, PhaseOf, VerdictOf, Present, Active
<1>3. \A t \in Thread : stopped[t] = "open"
  BY DEF Init
<1> QED
  BY <1>2, <1>3 DEF Promise!Init

LEMMA NextRefines ==
  TypeOK /\ Counted /\ ReservationWins /\ AbsentIsBlank /\ [Next]_vars
    => [Promise!Next]_(Promise!vars)
<1> SUFFICES ASSUME TypeOK, Counted, ReservationWins, AbsentIsBlank, [Next]_vars
             PROVE  Promise!Next \/ UNCHANGED Promise!vars
  OBVIOUS
<1>1. ASSUME NEW s \in Submission, NEW t \in Thread, NEW k \in Key,
             NEW g \in Group \cup {None}, NEW o \in Origin, Admit(s, t, k, g, o)
      PROVE  Promise!Accept(s, t)
  <2>1. /\ \A r \in Submission \ {s} : sub'[r] = sub[r] /\ adm'[r] = adm[r]
        /\ adm'[s].thread = t /\ sub'[s].state = "admitted" /\ sub'[s].reserved = None
        /\ sub[s].state = "absent" /\ stopped[t] = "open" /\ stopped' = stopped
    BY <1>1, AdmitEffect
  <2>2. sub[s].reserved = None
    BY <2>1 DEF AbsentIsBlank, Absent, Fresh, Present
  <2>3. /\ HomeOf(s)' = t /\ PhaseOf(s) = "none" /\ PhaseOf(s)' = "owed"
        /\ VerdictOf(s)' = VerdictOf(s)
    BY <2>1, <2>2 DEF HomeOf, PhaseOf, VerdictOf, Present, Active
  <2>4. \A r \in Submission \ {s} : /\ HomeOf(r)' = HomeOf(r) /\ PhaseOf(r)' = PhaseOf(r)
                                    /\ VerdictOf(r)' = VerdictOf(r)
    BY <2>1 DEF HomeOf, PhaseOf, VerdictOf, Present, Active
  <2>5. [r \in Submission |-> HomeOf(r)'] = [[r \in Submission |-> HomeOf(r)] EXCEPT ![s] = t]
    BY <2>3, <2>4
  <2>6. [r \in Submission |-> PhaseOf(r)']
          = [[r \in Submission |-> PhaseOf(r)] EXCEPT ![s] = "owed"]
    BY <2>3, <2>4
  <2>7. [r \in Submission |-> VerdictOf(r)'] = [r \in Submission |-> VerdictOf(r)]
    BY <2>3, <2>4
  <2> QED
    BY <2>1, <2>3, <2>5, <2>6, <2>7 DEF Promise!Accept
<1>2. ASSUME NEW s \in Submission, NEW token \in 0..minted, NEW outcome \in Outcome,
             NEW ends \in EndsOf(s, outcome), ReserveSettlement(s, token, outcome, ends)
      PROVE  Promise!Decide(s, outcome)
  <2>1. /\ sub[s].state # "absent" /\ sub[s].reserved = None
        /\ sub'[s].reserved = [outcome |-> outcome, ends |-> ends]
        /\ sub'[s].state = IF sub[s].state \in BeforeTerminalizing THEN "terminalizing"
                           ELSE sub[s].state
        /\ \A r \in Submission \ {s} : sub'[r] = sub[r]
        /\ UNCHANGED <<adm, stopped>>
    BY <1>2, ReserveEffect
  <2>2. [outcome |-> outcome, ends |-> ends] # None
    <3>1. outcome \in {"completed", "failed", "aborted"}
      BY ConstantsAssumption DEF Outcomes
    <3>2. ends \in Terminal \cup {None}
      BY <3>1 DEF EndsOf, Terminal
    <3> QED
      BY <3>2, ConstantsAssumption
  <2>3. sub[s].state # "settled" /\ sub'[s].state \notin {"absent", "settled"}
    BY <2>1 DEF ReservationWins
  <2>4. /\ HomeOf(s)' = HomeOf(s) /\ PhaseOf(s) = "owed" /\ PhaseOf(s)' = "decided"
        /\ VerdictOf(s)' = outcome
    BY <2>1, <2>2, <2>3 DEF HomeOf, PhaseOf, VerdictOf, Present, Active
  <2>5. \A r \in Submission \ {s} : /\ HomeOf(r)' = HomeOf(r) /\ PhaseOf(r)' = PhaseOf(r)
                                    /\ VerdictOf(r)' = VerdictOf(r)
    BY <2>1 DEF HomeOf, PhaseOf, VerdictOf, Present, Active
  <2>6. [r \in Submission |-> HomeOf(r)'] = [r \in Submission |-> HomeOf(r)]
    BY <2>4, <2>5
  <2>7. [r \in Submission |-> PhaseOf(r)']
          = [[r \in Submission |-> PhaseOf(r)] EXCEPT ![s] = "decided"]
    BY <2>4, <2>5
  <2>8. [r \in Submission |-> VerdictOf(r)']
          = [[r \in Submission |-> VerdictOf(r)] EXCEPT ![s] = outcome]
    BY <2>4, <2>5
  <2> QED
    BY <2>1, <2>4, <2>6, <2>7, <2>8 DEF Promise!Decide
<1>3. ASSUME NEW s \in Submission, FinalizeSettlement(s)
      PROVE  Promise!Settle(s)
  <2>1. /\ sub[s].reserved # None /\ sub'[s].reserved = sub[s].reserved
        /\ sub'[s].state = "settled" /\ Active(s)
        /\ \A r \in Submission \ {s} :
             sub'[r].state = sub[r].state /\ sub'[r].reserved = sub[r].reserved
        /\ adm' = adm
    BY <1>3, FinalizeEffect
  <2>2. /\ HomeOf(s)' = HomeOf(s) /\ PhaseOf(s) = "decided" /\ PhaseOf(s)' = "settled"
        /\ VerdictOf(s)' = VerdictOf(s) /\ HomeOf(s) = adm[s].thread
    BY <2>1 DEF HomeOf, PhaseOf, VerdictOf, Present, Active
  <2>3. \A r \in Submission \ {s} : /\ HomeOf(r)' = HomeOf(r) /\ PhaseOf(r)' = PhaseOf(r)
                                    /\ VerdictOf(r)' = VerdictOf(r)
    BY <2>1 DEF HomeOf, PhaseOf, VerdictOf, Present, Active
  <2>4. [r \in Submission |-> HomeOf(r)'] = [r \in Submission |-> HomeOf(r)]
    BY <2>2, <2>3
  <2>5. [r \in Submission |-> PhaseOf(r)']
          = [[r \in Submission |-> PhaseOf(r)] EXCEPT ![s] = "settled"]
    BY <2>2, <2>3
  <2>6. [r \in Submission |-> VerdictOf(r)'] = [r \in Submission |-> VerdictOf(r)]
    BY <2>2, <2>3
  <2>7. \/ [t \in Thread |-> stopped'[t] # "open"] = [t \in Thread |-> stopped[t] # "open"]
        \/ [t \in Thread |-> stopped'[t] # "open"]
             = [[t \in Thread |-> stopped[t] # "open"] EXCEPT ![HomeOf(s)] = TRUE]
    <3>1. CASE stopped' = stopped
      BY <3>1
    <3>2. CASE stopped' # stopped
      <4>1. stopped' = [stopped EXCEPT ![adm[s].thread] = sub[s].reserved.ends]
        BY <1>3, <3>2 DEF FinalizeSettlement
      <4>2. sub[s].reserved \in Reservation /\ Seals(s) /\ adm[s].thread \in Thread
        BY <1>3, <2>1, <3>2 DEF FinalizeSettlement, TypeOK, Row, Admission
      <4>3. sub[s].reserved.ends \in {"completed", "failed", "cancelled"}
        BY <4>2 DEF Seals, Reservation, Terminal
      <4>4. /\ stopped'[adm[s].thread] # "open"
            /\ \A t \in Thread \ {adm[s].thread} : stopped'[t] = stopped[t]
        BY <4>1, <4>2, <4>3 DEF TypeOK
      <4> QED
        BY <2>2, <4>4
    <3> QED
      BY <3>1, <3>2
  <2> QED
    BY <2>2, <2>4, <2>5, <2>6, <2>7 DEF Promise!Settle
<1>4. ASSUME NEW t \in Thread, StopWorker(t)
      PROVE  Promise!Seal(t)
  <2>1. \A r \in Submission : sub[r] \in Row
    BY DEF TypeOK
  <2>2. \A r \in Submission : sub'[r].state = sub[r].state /\ sub'[r].reserved = sub[r].reserved
    BY <1>4, <2>1 DEF StopWorker, Row
  <2>3. \A r \in Submission : /\ HomeOf(r)' = HomeOf(r) /\ PhaseOf(r)' = PhaseOf(r)
                              /\ VerdictOf(r)' = VerdictOf(r)
    BY <1>4, <2>2 DEF StopWorker, HomeOf, PhaseOf, VerdictOf, Present, Active
  <2>4. stopped'[t] # "open" /\ \A u \in Thread \ {t} : stopped'[u] = stopped[u]
    BY <1>4 DEF StopWorker, TypeOK
  <2>5. [u \in Thread |-> stopped'[u] # "open"]
          = [[u \in Thread |-> stopped[u] # "open"] EXCEPT ![t] = TRUE]
    BY <2>4
  <2> QED
    BY <2>3, <2>5 DEF Promise!Seal
<1>5. CASE Quiet
  <2>1. \A r \in Submission : /\ HomeOf(r)' = HomeOf(r) /\ PhaseOf(r)' = PhaseOf(r)
                              /\ VerdictOf(r)' = VerdictOf(r)
    BY <1>5 DEF Quiet, HomeOf, PhaseOf, VerdictOf, Present, Active
  <2> QED
    BY <1>5, <2>1 DEF Quiet, Promise!vars
<1> QED
  <2>1. CASE Quiet
    BY <1>5, <2>1
  <2>2. CASE Loud
    BY <1>1, <1>2, <1>3, <1>4, <2>2, ConstantsAssumption DEF Loud, Promise!Next
  <2> QED
    BY <2>1, <2>2, QuietSteps

-----------------------------------------------------------------------------
(***************************************************************************)
(* Results.                                                                 *)
(***************************************************************************)
LEMMA InitAll ==
  Init => /\ Counted /\ AbsentIsBlank /\ LaneHasOneOwner /\ NoOvertaking /\ ReservationWins
          /\ JoinsAreAnchored /\ SuspendedAwaitsDecision /\ StopIsComplete /\ AdmissionIsExact
<1> SUFFICES ASSUME Init
             PROVE  /\ Counted /\ AbsentIsBlank /\ LaneHasOneOwner /\ NoOvertaking
                    /\ ReservationWins /\ JoinsAreAnchored /\ SuspendedAwaitsDecision
                    /\ StopIsComplete /\ AdmissionIsExact
  OBVIOUS
<1>1. \A s \in Submission : /\ sub[s] = Absent /\ sub[s].state = "absent" /\ sub[s].token = 0
                            /\ ~sub[s].live /\ sub[s].reserved = None /\ sub[s].outcome = None
  BY DEF Init, Absent, Fresh
<1>2. \A t \in Thread : InLane(t) = {} /\ next[t] = 1
  BY <1>1 DEF Init, InLane, Present
<1>3. Counted /\ AbsentIsBlank /\ LaneHasOneOwner /\ NoOvertaking
  BY <1>1 DEF Init, Counted, AbsentIsBlank, LaneHasOneOwner, NoOvertaking, Owned, OwnsLane, Present,
              Active, Earlier
<1>4. ReservationWins /\ JoinsAreAnchored /\ SuspendedAwaitsDecision /\ StopIsComplete
  BY <1>1 DEF ReservationWins, JoinsAreAnchored, SuspendedAwaitsDecision, StopIsComplete, Active
<1>5. AdmissionIsExact
  BY <1>1, <1>2 DEF AdmissionIsExact, Present
<1> QED
  BY <1>3, <1>4, <1>5

\* The strengthening: tokens and epochs never run ahead of the counters that
\* mint them, only an active row is owned, and a live lease owns its lane.
LEMMA CountersHold == Spec => []Counted
  BY InitAll, NextCounted, TypeCorrect, PTL DEF Spec

LEMMA AbsentRowsAreBlank == Spec => []AbsentIsBlank
  BY InitAll, NextAbsentIsBlank, TypeCorrect, CountersHold, PTL DEF Spec

\* At most one row of a lane carries the current epoch, and only it can hold
\* an unexpired lease (claim, renewOwnership, releaseOwnership).
THEOREM OneOwnerPerLane == Spec => []LaneHasOneOwner
  BY InitAll, NextLaneHasOneOwner, TypeCorrect, CountersHold, PTL DEF Spec

\* A row that runs or owns its lane has no earlier row still waiting to start
\* (findHead, the handoff of claim, claimJoining, revertJoining).
THEOREM FifoExecution == Spec => []NoOvertaking
  BY InitAll, NextNoOvertaking, TypeCorrect, CountersHold, PTL DEF Spec

\* A reserved row is terminalizing or settled and settles with the reserved
\* outcome (reserveSettlement, finalizeSettlement).
THEOREM ReservedOutcomeWins == Spec => []ReservationWins
  BY InitAll, NextReservationWins, TypeCorrect, PTL DEF Spec

\* A joining or joined row hangs on an earlier row of its lane and owns
\* nothing (claimJoining, markJoined, revertJoining).
THEOREM JoinsHangOnEarlierHosts == Spec => []JoinsAreAnchored
  BY InitAll, NextJoinsAreAnchored, TypeCorrect, CountersHold, OneOwnerPerLane, PTL DEF Spec

\* A suspended row is unowned and still lacks a decision (suspend,
\* recordApprovalDecision).
THEOREM SuspensionIsJustified == Spec => []SuspendedAwaitsDecision
  BY InitAll, NextSuspendedAwaitsDecision, TypeCorrect, PTL DEF Spec

\* Sealing a worker Thread leaves every active row of it aborting or consumed
\* by a settled host (stopWorker, finalizeSettlement).
THEOREM StoppingIsComplete == Spec => []StopIsComplete
  BY InitAll, NextStopIsComplete, TypeCorrect, JoinsHangOnEarlierHosts, PTL DEF Spec

\* Admission is exact: gapless sequences, one row per key, one origin per
\* Thread, one unsettled row per group (admit).
THEOREM AdmissionOnce == Spec => []AdmissionIsExact
  BY InitAll, NextAdmissionIsExact, TypeCorrect, CountersHold, PTL DEF Spec

\* No step of any operation withdraws what an earlier one decided.
THEOREM DecisionsNeverWithdrawn == Spec => DecisionsAreDurable
  BY NextDurable, TypeCorrect, CountersHold, AbsentRowsAreBlank, ReservedOutcomeWins, PTL
  DEF Spec, DecisionsAreDurable

\* The ledger implements AcceptedWork: one acceptance, one verdict, one
\* settlement with it, and nothing accepted by a sealed Thread.
THEOREM LedgerKeepsPromise == Spec => KeepsPromise
  BY InitRefines, NextRefines, TypeCorrect, CountersHold, AbsentRowsAreBlank, ReservedOutcomeWins,
     PTL
  DEF Spec, KeepsPromise, Promise!Spec
=============================================================================
