-------------------------- MODULE ChildWorkProofs ---------------------------
(***************************************************************************)
(* Machine-checked proofs about the attached children of a Run.  One        *)
(* invariant carries all of them: what a job may still assume of the rows,   *)
(* of the log and of the ledger while other processes act between its       *)
(* steps.  It is kept in two parts: a step keeps it for everybody who looks  *)
(* on (Around), and what the process itself goes on with fits what it just   *)
(* wrote.  The calls of the ledger are taken from SubmissionLedgerProofs.    *)
(* For any number of workers, of recovery processes and of Calls, and for    *)
(* any interleaving of them with aborts, expiries, failures and crashes.     *)
(***************************************************************************)
EXTENDS ChildWork, WellFoundedInduction, TLAPS

LP == INSTANCE SubmissionLedgerProofs WITH
  Thread <- Submission, Key <- Submission, Group <- {}, Origin <- {"none"},
  Call <- {}, JoinLimit <- 0, MaxEpoch <- [t \in Submission |-> MaxEpoch]

-----------------------------------------------------------------------------
(***************************************************************************)
(* What is known of a job beyond its type: which positions belong to which  *)
(* purpose, when it holds a claim, and what it may still assume of what it   *)
(* read before.                                                             *)
(***************************************************************************)
Going ==
  {"reserve", "request", "resolve", "admit", "ready", "start", "link", "lookup", "bid", "join",
   "freeze", "free"}
Staged(j) ==
  /\ j.doing = "run" => j.at \notin {"resolve", "bid", "exhaust", "settle", "wake", "acquire"}
  /\ j.doing = "abort" =>
       j.at \in {"read", "consult", "admit", "ready", "lookup", "bid", "join", "freeze", "free",
                 "suspend", "settle", "finalize"}
  /\ j.doing = "expire" =>
       j.at \in {"exhaust", "acquire", "claimed", "read", "consult", "resolve", "ready", "start",
                 "link", "lookup", "join", "freeze", "free"}
  /\ j.doing = "account" => j.at \in {"read", "consult", "freeze", "free", "settle", "finalize"}
  /\ j.doing = "admit" => j.at \in {"admit", "ready"}
  /\ j.doing = "link" => j.at \in {"admit", "ready", "acquire", "claimed", "start", "link"}
  /\ j.doing = "wait" => j.at \in {"acquire", "suspend"}
  /\ j.doing = "wake" => j.at = "wake"
  /\ j.doing = "propagate" => j.at \in {"bid", "acquire", "suspend"}
  /\ j.doing = "nudge" => j.at = "bid"
  /\ j.doing \in {"apply", "orphan"} => j.at \in {"freeze", "free"}
  /\ j.doing = "close" => j.at \in {"wake", "acquire", "claimed", "settle", "finalize"}
Claims(j) ==
  \/ j.at = "claimed" \/ (j.doing = "link" /\ j.at \in {"start", "link"})
  \/ /\ j.doing \in {"run", "abort", "expire", "account"}
     /\ j.at \notin {"idle", "inspect", "finalize", "release", "acquire"}
Ends(j) ==
  /\ j.doing \in {"abort", "close"} => j.outcome = "aborted"
  /\ j.doing = "expire" => j.outcome \in {"failed", None}
  /\ j.doing = "account" => j.outcome \in {"completed", "failed", None}
\* It deals with a Call, which it has not forgotten yet.
Walks(j) == j.at \in Going \/ (j.doing = "link" /\ j.at \in {"acquire", "claimed"})
Shape(j) ==
  /\ j \in Job
  /\ Staged(j) /\ Ends(j)
  /\ Claims(j) => j.token # 0 /\ j.epoch # 0
  /\ j.at \in {"idle", "inspect"} => j.token = 0 /\ j.outcome = None
  /\ Walks(j) => j.c \in j.todo
  /\ j.at = "settle" => j.outcome # None

Knew(k, s) ==
  /\ k.requested => s.requested
  /\ k.started => s.started
  /\ k.joined # None => s.joined = k.joined
Closed == {"releasePending", "released"}
Saw(old, new) ==
  /\ old.status # "absent" => new.status # "absent"
  /\ old.status \in Closed => new.status \in Closed /\ new.accounting = old.accounting
  /\ old.status = "released" => new.status = "released"
  /\ old.child => new.child
Mine(j) == L!OwnsLane(Root, j.token)
Gone(c) == row[c].status \in {"absent", "released"}

\* What it read of the Calls it has not dealt with still holds.
Informed(j) == \A c \in j.todo : Knew(j.knows[c], said[c]) /\ Saw(j.rows[c], row[c])
Chosen(j) ==
  /\ j.doing \in {"abort", "expire", "account", "apply"} =>
       \A c \in j.todo : j.rows[c].status # "absent"
  /\ j.doing \in {"account", "apply"} =>
       \A c \in j.todo : j.knows[c].joined # None \/ j.rows[c].status # "reserved"
  /\ j.doing \in {"admit", "link"} => \A c \in j.todo : said[c].requested
  /\ j.doing = "orphan" => \A c \in j.todo : row[c].status # "absent"
  /\ j.doing = "run" => \A c \in j.todo \ {j.c} : j.knows[c].joined = None
\* Nobody joined them under a claim that is still the last to have attached.
Unjoined(j) ==
  j.doing \in {"run", "abort", "expire"} /\ fence = j.epoch =>
    \A c \in j.todo : j.knows[c].joined = None => said[c].joined = None
\* While it owns the parent, nobody decides how the parent ends, or reserves anew.
Undecided(j) == j.doing = "run" /\ Mine(j) => sub[Root].reserved = None
Swept(j) == j.doing = "account" /\ Mine(j) /\ j.wait = {} => \A c \in Call \ j.todo : Gone(c)
\* The Calls that are neither left nor waited for are joined.
Through(j) ==
  /\ j.doing = "run" => \A c \in calls : said[c].joined # None \/ c \in j.todo \cup j.wait
  /\ j.doing = "account" /\ j.outcome = "completed" => \A c \in calls : said[c].joined # None
Carried(j) == Informed(j) /\ Chosen(j) /\ Unjoined(j) /\ Undecided(j) /\ Swept(j) /\ Through(j)

Begun(c) == L!Present(c) /\ sub[c].state # "admitted"
Settled(c) == sub[c].state = "settled"
\* What has to be so for the next write to be right.
Due(j) ==
  LET c == j.c IN
  /\ j.at = "request" => row[c].status # "absent"
  /\ j.at = "admit" => said[c].requested
  /\ j.at = "ready" => L!Present(c)
  /\ j.at = "start" => Begun(c)
  /\ j.doing = "link" /\ j.at \in {"acquire", "claimed"} => Begun(c)
  /\ j.at = "link" => said[c].started
  /\ j.at = "lookup" /\ j.doing = "expire" => said[c].started
  /\ j.at = "link" /\ j.doing = "expire" /\ j.money # None =>
       Settled(c) /\ j.money = "conservative"
  /\ j.at = "join" => Settled(c) /\ j.money \in {"actual", "conservative"}
  /\ j.at \in Going \ {"freeze", "free"} /\ j.doing \in {"run", "abort", "expire"} =>
       j.knows[c].joined = None
  /\ j.at = "freeze" => j.money # None /\ (j.money = "zero" \/ said[c].joined = j.money)
  /\ j.at = "free" => row[c].status \in Closed
  /\ j.at \in {"freeze", "free"} /\ j.doing = "run" => said[c].joined # None
\* Between the scans and at their end.
Poised(j) ==
  /\ j.at = "inspect" => \A c \in Call : Knew(j.knows[c], said[c])
  /\ j.at \in {"claimed", "read", "consult"} /\ j.doing = "run" =>
       j.rows = [c \in Call |-> NoRow]
  /\ j.at = "consult" /\ j.doing = "run" /\ Mine(j) => sub[Root].reserved = None
  /\ j.at = "consult" /\ j.doing # "run" =>
       \A c \in Call : /\ Saw(j.rows[c], row[c])
                       /\ Mine(j) /\ j.rows[c].status = "absent" => row[c].status = "absent"
  /\ j.at = "settle" /\ j.doing = "account" /\ Mine(j) => \A c \in Call : Gone(c)
  /\ j.at \in {"read", "consult", "settle"} /\ j.doing = "account" /\ j.outcome = "completed" =>
       \A c \in calls : said[c].joined # None
JobFits(j) == Shape(j) /\ (Walks(j) => Carried(j)) /\ (Walks(j) => Due(j)) /\ Poised(j)

Apart ==
  /\ \A p \in Process : job[p].token <= minted /\ job[p].epoch <= epoch[Root]
  /\ \A p, q \in Process : p # q =>
       /\ job[p].token # 0 => job[p].token # job[q].token
       /\ job[p].epoch # 0 => job[p].epoch # job[q].epoch
RowFits(c) ==
  /\ row[c].status \in {"absent", "reserved"} <=> row[c].accounting = None
  /\ row[c].status = "absent" => ~row[c].child
LedgerFits ==
  /\ LP!TypeOK
  /\ \A s \in Submission :
       /\ sub[s].reserved # None <=> sub[s].state \in {"terminalizing", "settled"}
       /\ sub[s].reserved # None => sub[s].reserved.ends = None
  /\ sub[Root].state \in {"input-applied", "suspended", "terminalizing", "settled"}
  /\ \A c \in Call : sub[c].state \in {"absent", "admitted", "ready", "terminalizing", "settled"}
  /\ adm[Root].thread = Root
  /\ sub[Root].waiting.on \subseteq Call
Typed ==
  /\ row \in [Call -> Reservation]
  /\ fence \in Nat
  /\ said \in [Call -> Records]
  /\ expired \in {"no", "due", "recorded"}
  /\ child \in [Call -> {"running", "announce", "finalize", "repeat", "done"}]
  /\ job \in [Process -> Job]
  /\ calls \subseteq Call
  /\ trouble \in Nat
IInv ==
  /\ Typed /\ LedgerFits /\ LinksAreTrue /\ AccountingIsCanonical /\ OwesNoChild
  /\ \A c \in Call : RowFits(c)
  /\ Apart
  /\ \A p \in Process : JobFits(job[p])

-----------------------------------------------------------------------------
(***************************************************************************)
(* The constants.                                                           *)
(***************************************************************************)
LEMMA Calls ==
  /\ Call \subseteq Nat /\ Root \notin Call /\ None \notin Call /\ None \notin Submission
  /\ None \notin Outcome /\ None \notin Accounting /\ Root \in Submission
     /\ Call \subseteq Submission
  /\ MaxEpoch \in Nat
<1>1. Len(Trouble) \in Nat
  BY ChildConstants
<1>. QED
  BY <1>1, ChildConstants DEF Call, Root, Submission, Outcome, Accounting

LEMMA LedgerConstants == LP!ConstantsAssumption
<1>1. {"none"} \subseteq LP!Origins /\ Outcome \subseteq LP!Outcomes /\ Submission # {}
  BY Calls DEF LP!Origins, LP!Outcomes, Outcome
<1>2. [t \in Submission |-> MaxEpoch] \in [Submission -> Nat]
  BY Calls
<1>3. None \notin Submission \cup Submission \cup {} \cup Outcome \cup LP!Terminal
  BY Calls, ChildConstants DEF Outcome, LP!Terminal
<1>4. None \notin [outcome : Outcome, ends : LP!Terminal \cup {None}]
  <2>1. LP!Terminal \cup {None} = {"completed", "failed", "cancelled", None}
    BY DEF LP!Terminal
  <2>. QED
    BY <2>1, ChildConstants DEF Outcome
<1>. QED
  BY <1>1, <1>2, <1>3, <1>4 DEF LP!ConstantsAssumption

LEMMA LeastNat ==
  ASSUME NEW T, T \subseteq Nat, T # {}
  PROVE  \E x \in T : \A y \in T : x <= y
<1>. DEFINE R == OpToRel(<, Nat)
<1>1. IsWellFoundedOn(R, Nat)
  BY NatLessThanWellFounded
<1>2. \A x, y \in Nat : <<y, x>> \in R <=> y < x
  BY DEF OpToRel
<1>. HIDE DEF R
<1>3. PICK x \in T : \A y \in T : ~ (<<y, x>> \in R)
  BY <1>1, WFMin
<1>4. ASSUME NEW y \in T PROVE x <= y
  <2>1. x \in Nat /\ y \in Nat
    OBVIOUS
  <2>2. ~(<<y, x>> \in R)
    BY <1>3
  <2>. QED
    BY <1>2, <2>1, <2>2
<1>. QED
  BY <1>4

\* What is gone through first is one of what is to be gone through.
LEMMA FirstOf ==
  ASSUME NEW T \in SUBSET Call, T # {}
  PROVE  (CHOOSE c \in T : \A d \in T : c <= d) \in T
<1>1. \E x \in T : \A y \in T : x <= y
  BY LeastNat, Calls
<1>. QED
  BY <1>1

-----------------------------------------------------------------------------
(***************************************************************************)
(* The calls of the ledger.                                                 *)
(***************************************************************************)
LEMMA SameLedger ==
  /\ L!TypeOK <=> LP!TypeOK
  /\ L!Fresh = LP!Fresh /\ L!Absent = LP!Absent /\ L!NotAdmitted = LP!NotAdmitted
  /\ \A s : (L!Present(s) <=> LP!Present(s)) /\ (L!Active(s) <=> LP!Active(s))
            /\ (L!Owned(s) <=> LP!Owned(s)) /\ (L!Announced(s) <=> LP!Announced(s))
  /\ \A s, k : L!OwnsLane(s, k) <=> LP!OwnsLane(s, k)
<1>1. L!TypeOK <=> LP!TypeOK
  BY DEF L!TypeOK, LP!TypeOK, L!Admission, LP!Admission, L!Row, LP!Row, L!Origins, LP!Origins,
     L!SubmissionState, LP!SubmissionState, L!BeforeTerminalizing, LP!BeforeTerminalizing,
     L!BeforeInputApplied, LP!BeforeInputApplied, L!Reservation, LP!Reservation, L!Waiting,
     LP!Waiting, L!Terminal, LP!Terminal
<1>2. L!Fresh = LP!Fresh /\ L!Absent = LP!Absent /\ L!NotAdmitted = LP!NotAdmitted
  BY DEF L!Fresh, LP!Fresh, L!Absent, LP!Absent, L!NotAdmitted, LP!NotAdmitted, L!NotWaiting,
     LP!NotWaiting
<1>3. ASSUME NEW s
      PROVE  (L!Present(s) <=> LP!Present(s)) /\ (L!Active(s) <=> LP!Active(s))
             /\ (L!Owned(s) <=> LP!Owned(s)) /\ (L!Announced(s) <=> LP!Announced(s))
  BY DEF L!Present, LP!Present, L!Active, LP!Active, L!Owned, LP!Owned, L!Announced, LP!Announced
<1>4. ASSUME NEW s, NEW k PROVE L!OwnsLane(s, k) <=> LP!OwnsLane(s, k)
  BY DEF L!OwnsLane, LP!OwnsLane, L!Owned, LP!Owned
<1>. QED
  BY <1>1, <1>2, <1>3, <1>4

LEMMA SameCalls ==
  ASSUME NEW s, NEW k, NEW o
  PROVE  /\ L!Claim(s) <=> LP!Claim(s)
         /\ L!Admit(s, s, s, None, "none") <=> LP!Admit(s, s, s, None, "none")
         /\ L!MarkReady(s) <=> LP!MarkReady(s)
         /\ L!ReleaseOwnership(s, k) <=> LP!ReleaseOwnership(s, k)
         /\ L!ReserveSettlement(s, k, o, None) <=> LP!ReserveSettlement(s, k, o, None)
         /\ L!FinalizeSettlement(s) <=> LP!FinalizeSettlement(s)
         /\ L!RecordChildSettled(s, k) <=> LP!RecordChildSettled(s, k)
         /\ L!RequestAbort(s) <=> LP!RequestAbort(s)
         /\ L!LeaseExpires(s) <=> LP!LeaseExpires(s)
<1>0. /\ \A r, t : (L!OwnsLane(r, t) <=> LP!OwnsLane(r, t))
      /\ \A r : (L!Owned(r) <=> LP!Owned(r)) /\ (L!Active(r) <=> LP!Active(r))
                /\ (L!Present(r) <=> LP!Present(r)) /\ (L!Announced(r) <=> LP!Announced(r))
      /\ L!Fresh = LP!Fresh
  BY SameLedger
<1>1. L!Claim(s) <=> LP!Claim(s)
  BY <1>0 DEF L!Claim, LP!Claim, L!LaneIdle, LP!LaneIdle, L!Grant, LP!Grant, L!BlockedHeadStates,
     LP!BlockedHeadStates, L!InLane, LP!InLane, L!IsHead, LP!IsHead, L!Candidate, LP!Candidate,
     L!Parked, LP!Parked, L!Earlier, LP!Earlier, L!SameLane, LP!SameLane
<1>2. L!Admit(s, s, s, None, "none") <=> LP!Admit(s, s, s, None, "none")
  BY <1>0 DEF L!Admit, LP!Admit, L!InLane, LP!InLane
<1>3. L!MarkReady(s) <=> LP!MarkReady(s)
  BY DEF L!MarkReady, LP!MarkReady
<1>4. L!ReleaseOwnership(s, k) <=> LP!ReleaseOwnership(s, k)
  BY <1>0 DEF L!ReleaseOwnership, LP!ReleaseOwnership
<1>5. L!ReserveSettlement(s, k, o, None) <=> LP!ReserveSettlement(s, k, o, None)
  BY <1>0 DEF L!ReserveSettlement, LP!ReserveSettlement, L!JoinedSettlement, LP!JoinedSettlement,
     L!QueuedAbortSettlement, LP!QueuedAbortSettlement, L!BeforeTerminalizing,
     LP!BeforeTerminalizing, L!BeforeInputApplied, LP!BeforeInputApplied
<1>6. L!FinalizeSettlement(s) <=> LP!FinalizeSettlement(s)
  BY <1>0 DEF L!FinalizeSettlement, LP!FinalizeSettlement, L!Seals, LP!Seals, L!PendingNewer,
     LP!PendingNewer, L!SameLane, LP!SameLane, L!JoinedTo, LP!JoinedTo
<1>7. L!RecordChildSettled(s, k) <=> LP!RecordChildSettled(s, k)
  BY <1>0 DEF L!RecordChildSettled, LP!RecordChildSettled, L!NotWaiting, LP!NotWaiting
<1>8. L!RequestAbort(s) <=> LP!RequestAbort(s)
  BY <1>0 DEF L!RequestAbort, LP!RequestAbort
<1>9. L!LeaseExpires(s) <=> LP!LeaseExpires(s)
  BY DEF L!LeaseExpires, LP!LeaseExpires
<1>. QED
  BY <1>1, <1>2, <1>3, <1>4, <1>5, <1>6, <1>7, <1>8, <1>9

\* What any call keeps: a child only moves on, and only a new claim owns the parent anew.
Advances(old, new) ==
  /\ old # "absent" => new # "absent"
  /\ old \notin {"absent", "admitted"} => new \notin {"absent", "admitted"}
  /\ old = "settled" => new = "settled"
Steady ==
  /\ \A c \in Call : Advances(sub[c].state, sub'[c].state)
  /\ \A k \in 0..minted : L!OwnsLane(Root, k)' => L!OwnsLane(Root, k)
  /\ minted' \in Nat /\ minted <= minted' /\ epoch[Root] <= epoch'[Root]
NoEnd == sub'[Root].reserved = sub[Root].reserved
NoBirth == \A c \in Call : sub[c].state = "absent" => sub'[c].state = "absent"

LEMMA LedgerTypes ==
  ASSUME LedgerFits
  PROVE  /\ \A s \in Submission : /\ sub[s] \in LP!Row /\ sub[s].token \in Nat
                                  /\ sub[s].epoch \in Nat /\ sub[s].abort \in BOOLEAN
         /\ minted \in Nat /\ epoch[Root] \in Nat /\ adm[Root].thread = Root
         /\ \A s \in Submission : adm[s] \in LP!Admission
  BY Calls DEF LedgerFits, LP!TypeOK, LP!Row

Whole(r) ==
  /\ r.reserved # None <=> r.state \in {"terminalizing", "settled"}
  /\ r.reserved # None => r.reserved.ends = None
LEMMA RootStep ==
  ASSUME LedgerFits, LP!TypeOK', NEW r, sub'[Root] = r,
         \A q \in Submission \ {Root} : sub'[q] = sub[q], adm' = adm,
         minted' \in Nat, minted <= minted', epoch[Root] <= epoch'[Root],
         Whole(r), r.state \in {"input-applied", "suspended", "terminalizing", "settled"},
         r.waiting.on \subseteq Call,
         \/ r.token = minted + 1 \/ r.token = 0
         \/ r.token = sub[Root].token /\ r.epoch = sub[Root].epoch /\ epoch' = epoch
  PROVE  LedgerFits' /\ Steady /\ NoBirth
<1>1. LedgerFits'
  <2>1. \A s \in Submission : s = Root \/ (s # Root /\ sub'[s] = sub[s])
    OBVIOUS
  <2>2. \A s \in Submission : Whole(sub[s])
    BY DEF LedgerFits, Whole
  <2>3. (\A s \in Submission : Whole(sub[s]))'
    BY <2>1, <2>2 DEF Whole
  <2>4. \A c \in Call : sub'[c].state = sub[c].state
    BY Calls
  <2>. QED
    BY <2>3, <2>4 DEF LedgerFits, Whole
<1>2. \A c \in Call : sub'[c] = sub[c]
  BY Calls
<1>3. ASSUME NEW k \in 0..minted, L!OwnsLane(Root, k)' PROVE L!OwnsLane(Root, k)
  BY <1>3, LedgerTypes DEF L!OwnsLane, L!Owned
<1>. QED
  BY <1>1, <1>2, <1>3 DEF Steady, NoBirth, Advances

LEMMA ChildStep ==
  ASSUME LedgerFits, LP!TypeOK', NEW c \in Call, NEW r, sub'[c] = r,
         \A q \in Submission \ {c} : sub'[q] = sub[q], adm'[Root] = adm[Root],
         minted' = minted, epoch' = epoch,
         Whole(r), r.state \in {"absent", "admitted", "ready", "terminalizing", "settled"},
         Advances(sub[c].state, r.state)
  PROVE  LedgerFits' /\ Steady /\ NoEnd /\ sub'[Root] = sub[Root]
<1>1. sub'[Root] = sub[Root]
  BY Calls
<1>2. LedgerFits'
  BY <1>1, Calls DEF LedgerFits, Whole, Submission
<1>3. ASSUME NEW k \in 0..minted, L!OwnsLane(Root, k)' PROVE L!OwnsLane(Root, k)
  BY <1>1, <1>3, LedgerTypes DEF L!OwnsLane, L!Owned
<1>4. \A d \in Call : Advances(sub[d].state, sub'[d].state)
  BY Calls DEF Advances
<1>. QED
  BY <1>1, <1>2, <1>3, <1>4, LedgerTypes DEF Steady, NoEnd

Calm == LedgerFits' /\ Steady /\ NoEnd /\ NoBirth
\* It does not put the parent to sleep.
Dozes ==
  sub'[Root].state = "suspended" =>
    sub[Root].state = "suspended" /\ sub'[Root].waiting = sub[Root].waiting

LEMMA ClaimEffect ==
  ASSUME LedgerFits, L!Claim(Root)
  PROVE  Calm /\ Dozes /\ minted' = minted + 1 /\ epoch'[Root] = epoch[Root] + 1
<1>1. LP!Claim(Root) /\ LP!Grant(Root)
  BY SameCalls DEF LP!Claim
<1>2. LP!TypeOK'
  BY <1>1, LP!NextTypeOK, LedgerConstants, Calls DEF LP!Next, LP!Ownership, LedgerFits
<1>3. LP!TypeOK /\ adm[Root].thread = Root /\ Root \in Submission
  BY Calls DEF LedgerFits
<1>4. /\ sub'[Root].state = sub[Root].state /\ sub'[Root].token = minted + 1
      /\ sub'[Root].reserved = sub[Root].reserved /\ sub'[Root].waiting = sub[Root].waiting
      /\ epoch'[Root] = epoch[Root] + 1 /\ minted' = minted + 1 /\ adm' = adm
      /\ \A r \in Submission \ {Root} : sub'[r] = sub[r]
  BY <1>1, <1>3, LP!GrantEffect, LedgerConstants DEF LedgerFits
<1>5. PICK r : r = sub'[Root]
  OBVIOUS
<1>6. Whole(r) /\ r.state \in {"input-applied", "suspended", "terminalizing", "settled"}
  BY <1>4, <1>5, Calls DEF LedgerFits, Whole
<1>7. minted' \in Nat /\ minted <= minted' /\ epoch[Root] <= epoch'[Root]
  BY <1>4, LedgerTypes
<1>8. LedgerFits' /\ Steady /\ NoBirth
  BY <1>2, <1>4, <1>5, <1>6, <1>7, RootStep DEF LedgerFits
<1>. QED
  BY <1>4, <1>8 DEF Calm, NoEnd, Dozes

LEMMA AdmitEffect ==
  ASSUME LedgerFits, NEW c \in Call, L!Admit(c, c, c, None, "none")
  PROVE  /\ LedgerFits' /\ Steady /\ NoEnd /\ Dozes
         /\ sub'[c].state = "admitted" /\ UNCHANGED <<epoch, minted>>
         /\ \A d \in Call \ {c} : sub'[d] = sub[d]
<1>1. LP!Admit(c, c, c, None, "none") /\ c \in Submission
  BY SameCalls, Calls
<1>2. LP!TypeOK'
  BY <1>1, LP!NextTypeOK, LedgerConstants DEF LP!Next, LP!Admissions, LedgerFits
<1>3. /\ sub' = [sub EXCEPT ![c] = LP!Fresh] /\ sub[c].state = "absent"
      /\ UNCHANGED <<epoch, minted>> /\ adm'[Root] = adm[Root]
  BY <1>1, Calls DEF LP!Admit, LP!Present, LedgerFits, LP!TypeOK
<1>4. sub'[c] = LP!Fresh /\ \A q \in Submission \ {c} : sub'[q] = sub[q]
  BY <1>1, <1>3 DEF LedgerFits, LP!TypeOK
<1>5. LP!Fresh.state = "admitted" /\ LP!Fresh.reserved = None
  BY DEF LP!Fresh
<1>. HIDE DEF LP!Fresh
<1>6. PICK r : r = LP!Fresh
  OBVIOUS
<1>7. LedgerFits' /\ Steady /\ NoEnd
  BY <1>2, <1>3, <1>4, <1>5, <1>6, ChildStep DEF Whole, Advances
<1>. QED
  BY <1>3, <1>4, <1>5, <1>7, Calls DEF Dozes

LEMMA ReadyEffect ==
  ASSUME LedgerFits, NEW c \in Call, L!MarkReady(c)
  PROVE  Calm /\ Dozes /\ UNCHANGED <<epoch, minted>> /\ sub'[c].state = "ready"
<1>1. LP!MarkReady(c) /\ c \in Submission
  BY SameCalls, Calls
<1>2. LP!TypeOK'
  BY <1>1, LP!NextTypeOK, LedgerConstants DEF LP!Next, LP!Admissions, LedgerFits
<1>3. PICK r : r = [sub[c] EXCEPT !.state = "ready"]
  OBVIOUS
<1>4. /\ sub' = [sub EXCEPT ![c] = r] /\ sub[c].state = "admitted"
      /\ UNCHANGED <<adm, epoch, minted>>
  BY <1>1, <1>3 DEF LP!MarkReady
<1>5. sub'[c] = r /\ \A q \in Submission \ {c} : sub'[q] = sub[q]
  BY <1>1, <1>4 DEF LedgerFits, LP!TypeOK
<1>6. r.state = "ready" /\ r.reserved = sub[c].reserved
  BY <1>1, <1>3, LedgerTypes DEF LP!Row
<1>7. Whole(r) /\ Advances(sub[c].state, r.state)
  BY <1>1, <1>4, <1>6 DEF Whole, Advances, LedgerFits
<1>8. LedgerFits' /\ Steady /\ NoEnd
  BY <1>2, <1>4, <1>5, <1>6, <1>7, ChildStep
<1>9. NoBirth
  BY <1>4, <1>5, Calls DEF NoBirth
<1>. QED
  BY <1>4, <1>5, <1>6, <1>8, <1>9, Calls DEF Calm, Dozes

\* A call that leaves a row as far as it counts here.
SameRow(s) ==
  /\ sub'[s].state = sub[s].state /\ sub'[s].reserved = sub[s].reserved
  /\ sub'[s].waiting = sub[s].waiting
  /\ sub'[s].token = sub[s].token /\ sub'[s].epoch = sub[s].epoch
  /\ \A q \in Submission \ {s} : sub'[q] = sub[q]
  /\ UNCHANGED <<adm, epoch, minted>>
LEMMA SameRowEffect ==
  ASSUME LedgerFits, LP!TypeOK', NEW s \in Submission, SameRow(s)
  PROVE  Calm /\ Dozes
<1>1. Whole(sub'[s]) /\ Whole(sub[s])
  BY DEF SameRow, LedgerFits, Whole
<1>2. CASE s = Root
  <2>1. LedgerFits' /\ Steady /\ NoBirth
    BY <1>1, <1>2, RootStep, LedgerTypes DEF SameRow, LedgerFits
  <2>. QED
    BY <1>2, <2>1 DEF Calm, NoEnd, SameRow, Dozes
<1>3. CASE s \in Call
  <2>1. LedgerFits' /\ Steady /\ NoEnd
    BY <1>1, <1>3, ChildStep DEF SameRow, LedgerFits, Advances
  <2>2. NoBirth
    BY <1>3, Calls DEF NoBirth, SameRow
  <2>. QED
    BY <1>3, <2>1, <2>2, Calls DEF Calm, SameRow, Dozes
<1>. QED
  BY <1>2, <1>3 DEF Submission

LEMMA AbortEffect ==
  ASSUME LedgerFits, NEW s \in Submission, L!RequestAbort(s)
  PROVE  Calm /\ Dozes /\ UNCHANGED <<epoch, minted>>
<1>1. LP!RequestAbort(s)
  BY SameCalls
<1>2. LP!TypeOK'
  BY <1>1, LP!NextTypeOK, LedgerConstants DEF LP!Next, LP!Settling, LedgerFits
<1>3. PICK r : r = [sub[s] EXCEPT !.abort = TRUE]
  OBVIOUS
<1>4. sub' = [sub EXCEPT ![s] = r] /\ UNCHANGED <<adm, epoch, minted>>
  BY <1>1, <1>3 DEF LP!RequestAbort
<1>5. sub'[s] = r /\ \A q \in Submission \ {s} : sub'[q] = sub[q]
  BY <1>1, <1>4 DEF LedgerFits, LP!TypeOK
<1>6. /\ r.state = sub[s].state /\ r.reserved = sub[s].reserved /\ r.waiting = sub[s].waiting
      /\ r.token = sub[s].token /\ r.epoch = sub[s].epoch
  BY <1>3, LedgerTypes DEF LP!Row
<1>. QED
  BY <1>2, <1>4, <1>5, <1>6, SameRowEffect DEF SameRow

LEMMA ExpiryEffect ==
  ASSUME LedgerFits, L!LeaseExpires(Root)
  PROVE  Calm /\ Dozes /\ UNCHANGED <<epoch, minted>>
<1>1. LP!LeaseExpires(Root) /\ Root \in Submission
  BY SameCalls, Calls
<1>2. LP!TypeOK'
  BY <1>1, LP!NextTypeOK, LedgerConstants DEF LP!Next, LP!Ownership, LedgerFits
<1>3. PICK r : r = [sub[Root] EXCEPT !.live = FALSE]
  OBVIOUS
<1>4. sub' = [sub EXCEPT ![Root] = r] /\ UNCHANGED <<adm, epoch, minted>>
  BY <1>1, <1>3 DEF LP!LeaseExpires
<1>5. sub'[Root] = r /\ \A q \in Submission \ {Root} : sub'[q] = sub[q]
  BY <1>1, <1>4 DEF LedgerFits, LP!TypeOK
<1>6. /\ r.state = sub[Root].state /\ r.reserved = sub[Root].reserved
      /\ r.waiting = sub[Root].waiting
      /\ r.token = sub[Root].token /\ r.epoch = sub[Root].epoch
  BY <1>1, <1>3, LedgerTypes DEF LP!Row
<1>. QED
  BY <1>1, <1>2, <1>4, <1>5, <1>6, SameRowEffect DEF SameRow

LEMMA ReleaseEffect ==
  ASSUME LedgerFits, NEW k \in 0..minted, L!ReleaseOwnership(Root, k)
  PROVE  Calm /\ Dozes /\ UNCHANGED <<epoch, minted>>
<1>1. LP!ReleaseOwnership(Root, k) /\ Root \in Submission
  BY SameCalls, Calls
<1>2. LP!TypeOK'
  BY <1>1, LP!NextTypeOK, LedgerConstants DEF LP!Next, LP!Ownership, LedgerFits
<1>3. PICK r : r = [sub[Root] EXCEPT !.token = 0, !.epoch = 0, !.live = FALSE]
  OBVIOUS
<1>4. sub' = [sub EXCEPT ![Root] = r] /\ UNCHANGED <<adm, epoch, minted>>
  BY <1>1, <1>3 DEF LP!ReleaseOwnership
<1>5. sub'[Root] = r /\ \A q \in Submission \ {Root} : sub'[q] = sub[q]
  BY <1>1, <1>4 DEF LedgerFits, LP!TypeOK
<1>6. /\ r.state = sub[Root].state /\ r.reserved = sub[Root].reserved
      /\ r.waiting = sub[Root].waiting /\ r.token = 0
  BY <1>1, <1>3, LedgerTypes DEF LP!Row
<1>7. Whole(r)
  BY <1>1, <1>6 DEF Whole, LedgerFits
<1>8. LedgerFits' /\ Steady /\ NoBirth
  BY <1>2, <1>4, <1>5, <1>6, <1>7, RootStep, LedgerTypes DEF LedgerFits
<1>. QED
  BY <1>4, <1>5, <1>6, <1>8 DEF Calm, NoEnd, Dozes

LEMMA WakeEffect ==
  ASSUME LedgerFits, NEW c \in Call, L!RecordChildSettled(Root, c)
  PROVE  Calm /\ Dozes /\ UNCHANGED <<epoch, minted>>
<1>1. LP!RecordChildSettled(Root, c) /\ Root \in Submission /\ c \in Submission
  BY SameCalls, Calls
<1>2. LP!TypeOK'
  BY <1>1, LP!NextTypeOK, LedgerConstants DEF LP!Next, LP!Pausing, LedgerFits
<1>3. PICK r : r = [sub[Root] EXCEPT !.state = "input-applied", !.waiting = LP!NotWaiting]
  OBVIOUS
<1>4. /\ sub' = [sub EXCEPT ![Root] = r] /\ UNCHANGED <<adm, epoch, minted>>
      /\ sub[Root].state = "suspended"
  BY <1>1, <1>3 DEF LP!RecordChildSettled
<1>5. sub'[Root] = r /\ \A q \in Submission \ {Root} : sub'[q] = sub[q]
  BY <1>1, <1>4 DEF LedgerFits, LP!TypeOK
<1>6. /\ r.state = "input-applied" /\ r.reserved = sub[Root].reserved
      /\ r.waiting = LP!NotWaiting /\ r.token = sub[Root].token /\ r.epoch = sub[Root].epoch
  BY <1>1, <1>3, LedgerTypes DEF LP!Row
<1>7. Whole(r) /\ r.waiting.on \subseteq Call
  BY <1>1, <1>4, <1>6 DEF Whole, LedgerFits, LP!NotWaiting
<1>8. LedgerFits' /\ Steady /\ NoBirth
  BY <1>2, <1>4, <1>5, <1>6, <1>7, RootStep, LedgerTypes
<1>. QED
  BY <1>4, <1>5, <1>6, <1>8 DEF Calm, NoEnd, Dozes

LEMMA SuspendEffect ==
  ASSUME LedgerFits, NEW k, NEW on \in SUBSET Call, L!Suspend(Root, k, [kind |-> "child",
         on |-> on])
  PROVE  Calm /\ UNCHANGED <<epoch, minted>>
<1>. DEFINE reason == [kind |-> "child", on |-> on]
<1>0. LP!TypeOK /\ Root \in Submission /\ sub[Root] \in LP!Row
  BY LedgerTypes, Calls DEF LedgerFits
<1>1. reason \in LP!Waiting /\ reason.on = on
  BY Calls DEF LP!Waiting
<1>2. L!Suspend(Root, k, reason)
  OBVIOUS
<1>. HIDE DEF reason
<1>3. PICK r : r = [sub[Root] EXCEPT !.state = "suspended", !.waiting = reason,
                                     !.token = 0, !.epoch = 0, !.live = FALSE]
  BY Zenon
<1>4. r \in LP!Row
  BY ONLY <1>0, <1>1, <1>3, LP!RowUpdates, LedgerConstants
<1>5. /\ sub' = [sub EXCEPT ![Root] = r] /\ UNCHANGED <<adm, next, epoch, stopped, minted>>
      /\ sub[Root].reserved = None
  BY <1>2, <1>3 DEF L!Suspend
<1>6. sub'[Root] = r /\ \A q \in Submission \ {Root} : sub'[q] = sub[q]
  BY <1>0, <1>5 DEF LP!TypeOK
<1>7. LP!TypeOK'
  BY <1>0, <1>4, <1>5, LP!PutRow, LedgerConstants
<1>8. /\ r.state = "suspended" /\ r.reserved = sub[Root].reserved
      /\ r.waiting = reason /\ r.token = 0
  BY <1>0, <1>3 DEF LP!Row
<1>9. Whole(r) /\ r.waiting.on \subseteq Call
  BY <1>1, <1>5, <1>8 DEF Whole
<1>10. LedgerFits' /\ Steady /\ NoBirth
  BY <1>5, <1>6, <1>7, <1>8, <1>9, RootStep, LedgerTypes
<1>. QED
  BY <1>5, <1>6, <1>8, <1>10 DEF Calm, NoEnd

LEMMA Resolution ==
  ASSUME NEW o \in Outcome
  PROVE  /\ [outcome |-> o, ends |-> None] \in LP!Reservation
         /\ [outcome |-> o, ends |-> None] # None
         /\ [outcome |-> o, ends |-> None].outcome = o /\ [outcome |-> o, ends |-> None].ends = None
<1>1. [outcome |-> o, ends |-> None] \in LP!Reservation
  BY DEF LP!Reservation
<1>2. None \notin LP!Reservation
  BY LedgerConstants DEF LP!ConstantsAssumption, LP!Reservation
<1>. QED
  BY <1>1, <1>2

LEMMA EndEffect ==
  ASSUME LedgerFits, NEW k \in 0..minted, NEW o \in Outcome, L!ReserveSettlement(Root, k, o, None)
  PROVE  /\ LedgerFits' /\ Dozes /\ Steady /\ NoBirth /\ UNCHANGED <<epoch, minted>>
         /\ L!OwnsLane(Root, k)
         /\ sub[Root].reserved = None
         /\ sub'[Root].reserved # None /\ sub'[Root].reserved.outcome = o
<1>0. LP!TypeOK /\ Root \in Submission /\ sub[Root] \in LP!Row
  BY LedgerTypes, Calls DEF LedgerFits
<1>. DEFINE re == [outcome |-> o, ends |-> None]
<1>1. re \in LP!Reservation /\ re # None /\ re.outcome = o /\ re.ends = None
  BY Resolution
<1>2. L!ReserveSettlement(Root, k, o, None)
  OBVIOUS
<1>3. PICK r : r = [sub[Root] EXCEPT !.reserved = re,
                      !.state = IF @ \in L!BeforeTerminalizing THEN "terminalizing" ELSE @]
  OBVIOUS
<1>4. /\ sub' = [sub EXCEPT ![Root] = r] /\ UNCHANGED <<adm, next, epoch, stopped, minted>>
      /\ sub[Root].reserved = None
  BY <1>2, <1>3 DEF L!ReserveSettlement
<1>. HIDE DEF re
<1>5. sub[Root].state \in {"input-applied", "suspended"}
  BY <1>0, <1>4 DEF LedgerFits
<1>6. r = [sub[Root] EXCEPT !.reserved = re, !.state = "terminalizing"]
  BY <1>3, <1>5 DEF L!BeforeTerminalizing, L!BeforeInputApplied
<1>7. r \in LP!Row
  <2>1. "terminalizing" \in LP!SubmissionState \cup {"absent"}
    BY DEF LP!SubmissionState
  <2>. QED
    BY <1>0, <1>1, <1>6, <2>1, LP!RowUpdates, LedgerConstants
<1>8. sub'[Root] = r /\ \A q \in Submission \ {Root} : sub'[q] = sub[q]
  BY <1>0, <1>4 DEF LP!TypeOK
<1>9. LP!TypeOK'
  BY <1>0, <1>4, <1>7, LP!PutRow, LedgerConstants
<1>10. /\ r.state = "terminalizing" /\ r.reserved = re /\ r.waiting = sub[Root].waiting
       /\ r.token = sub[Root].token /\ r.epoch = sub[Root].epoch
  BY <1>0, <1>6 DEF LP!Row
<1>11. LedgerFits' /\ Steady /\ NoBirth
  BY <1>1, <1>4, <1>8, <1>9, <1>10, RootStep, LedgerTypes DEF Whole, LedgerFits
<1>12. L!OwnsLane(Root, k)
  BY <1>2, <1>5 DEF L!ReserveSettlement, L!JoinedSettlement, L!QueuedAbortSettlement
<1>. QED
  BY <1>1, <1>4, <1>8, <1>10, <1>11, <1>12 DEF Dozes

LEMMA FinalEffect ==
  ASSUME LedgerFits, NEW s \in Submission, L!FinalizeSettlement(s)
  PROVE  Calm /\ Dozes /\ UNCHANGED <<epoch, minted>>
<1>0. LP!TypeOK /\ sub[s] \in LP!Row
  BY LedgerTypes DEF LedgerFits
<1>1. LP!FinalizeSettlement(s)
  BY SameCalls
<1>2. LP!TypeOK'
  BY <1>1, LP!NextTypeOK, LedgerConstants DEF LP!Next, LP!Settling, LedgerFits
<1>3. PICK r : r = [sub[s] EXCEPT !.state = "settled", !.outcome = sub[s].reserved.outcome,
                                  !.token = 0, !.epoch = 0, !.live = FALSE]
  OBVIOUS
<1>4. sub[s].reserved # None /\ sub[s].state # "settled" /\ UNCHANGED <<adm, epoch, minted>>
  BY <1>1 DEF LP!FinalizeSettlement
<1>5. ~LP!Seals(s)
  BY <1>4 DEF LP!Seals, LedgerFits
<1>6. sub' = [q \in Submission |-> IF q = s THEN r ELSE sub[q]]
  BY <1>1, <1>3, <1>5 DEF LP!FinalizeSettlement
<1>7. sub'[s] = r /\ \A q \in Submission \ {s} : sub'[q] = sub[q]
  BY <1>6
<1>8. /\ r.state = "settled" /\ r.reserved = sub[s].reserved /\ r.waiting = sub[s].waiting
      /\ r.token = 0
  BY <1>0, <1>3 DEF LP!Row
<1>9. Whole(r)
  BY <1>4, <1>8 DEF Whole, LedgerFits
<1>10. CASE s = Root
  <2>1. LedgerFits' /\ Steady /\ NoBirth
    BY <1>2, <1>4, <1>7, <1>8, <1>9, <1>10, RootStep, LedgerTypes DEF LedgerFits
  <2>. QED
    BY <1>4, <1>7, <1>8, <1>10, <2>1 DEF Calm, NoEnd, Dozes
<1>11. CASE s \in Call
  <2>1. Advances(sub[s].state, r.state)
    BY <1>8 DEF Advances
  <2>2. LedgerFits' /\ Steady /\ NoEnd
    BY <1>2, <1>4, <1>7, <1>8, <1>9, <1>11, <2>1, ChildStep
  <2>3. NoBirth
    BY <1>4, <1>7, <1>11, Calls DEF NoBirth, LedgerFits
  <2>. QED
    BY <1>4, <1>7, <1>11, <2>2, <2>3, Calls DEF Calm, Dozes
<1>. QED
  BY <1>10, <1>11 DEF Submission

LEMMA DecideEffect ==
  ASSUME LedgerFits, NEW c \in Call, Decide(c)
  PROVE  Calm /\ Dozes /\ UNCHANGED <<epoch, minted>>
<1>0. LP!TypeOK /\ c \in Submission /\ sub[c] \in LP!Row
  BY LedgerTypes, Calls DEF LedgerFits
<1>1. PICK o \in Outcome : o = IF sub[c].abort THEN "aborted" ELSE "completed"
  BY DEF Outcome
<1>. DEFINE re == [outcome |-> o, ends |-> None]
<1>2. re \in LP!Reservation /\ re # None /\ re.outcome = o /\ re.ends = None
  BY Resolution
<1>3. PICK r : r = [sub[c] EXCEPT !.reserved = re, !.state = "terminalizing"]
  OBVIOUS
<1>4. /\ sub' = [sub EXCEPT ![c] = r] /\ UNCHANGED <<adm, next, epoch, stopped, minted>>
      /\ sub[c].state = "ready"
  <2>1. sub' = [sub EXCEPT ![c].state = "terminalizing", ![c].reserved = re]
    BY <1>1 DEF Decide
  <2>. HIDE DEF re
  <2>2. sub' = [sub EXCEPT ![c] = [sub[c] EXCEPT !.state = "terminalizing", !.reserved = re]]
    BY <2>1
  <2>3. [sub[c] EXCEPT !.state = "terminalizing", !.reserved = re] = r
    BY <1>0, <1>3 DEF LP!Row
  <2>. QED
    BY <2>2, <2>3 DEF Decide
<1>. HIDE DEF re
<1>5. r \in LP!Row
  <2>1. "terminalizing" \in LP!SubmissionState \cup {"absent"}
    BY DEF LP!SubmissionState
  <2>. QED
    BY <1>0, <1>2, <1>3, <2>1, LP!RowUpdates, LedgerConstants
<1>6. sub'[c] = r /\ \A q \in Submission \ {c} : sub'[q] = sub[q]
  BY <1>0, <1>4 DEF LP!TypeOK
<1>7. LP!TypeOK'
  BY <1>0, <1>4, <1>5, LP!PutRow, LedgerConstants
<1>8. r.state = "terminalizing" /\ r.reserved = re
  BY <1>0, <1>3 DEF LP!Row
<1>9. Whole(r) /\ Advances(sub[c].state, r.state)
  BY <1>2, <1>4, <1>8 DEF Whole, Advances
<1>10. LedgerFits' /\ Steady /\ NoEnd
  BY <1>4, <1>6, <1>7, <1>8, <1>9, ChildStep
<1>11. NoBirth
  BY <1>4, <1>6, Calls DEF NoBirth
<1>. QED
  BY <1>4, <1>6, <1>10, <1>11, Calls DEF Calm, Dozes

-----------------------------------------------------------------------------
(***************************************************************************)
(* Jobs as records.                                                         *)
(***************************************************************************)
Same(v, j) ==
  /\ v.doing = j.doing /\ v.c = j.c /\ v.todo = j.todo /\ v.wait = j.wait
  /\ v.rows = j.rows /\ v.knows = j.knows
  /\ v.token = j.token /\ v.epoch = j.epoch /\ v.outcome = j.outcome

LEMMA Blank ==
  /\ Nothing \in Records /\ NoRow \in Reservation /\ Idle \in Job
  /\ Nothing.joined = None /\ ~Nothing.requested /\ ~Nothing.started
  /\ NoRow.status = "absent" /\ ~NoRow.child /\ NoRow.accounting = None
  /\ Idle.at = "idle" /\ Idle.doing = "run" /\ Idle.c = None /\ Idle.todo = {} /\ Idle.wait = {}
  /\ Idle.token = 0 /\ Idle.epoch = 0 /\ Idle.outcome = None /\ Idle.money = None
  /\ Idle.rows = [c \in Call |-> NoRow] /\ Idle.knows = [c \in Call |-> Nothing]
<1>1. Nothing \in Records /\ NoRow \in Reservation
  BY DEF Nothing, Records, NoRow, Reservation
<1>2. /\ Nothing.joined = None /\ ~Nothing.requested /\ ~Nothing.started
      /\ NoRow.status = "absent" /\ ~NoRow.child /\ NoRow.accounting = None
  BY DEF Nothing, NoRow
<1>. HIDE DEF Nothing, NoRow
<1>3. Idle \in Job
  BY <1>1 DEF Idle, Job, Position, Purpose
<1>. QED
  BY <1>1, <1>2, <1>3 DEF Idle

LEMMA JobTypes ==
  ASSUME NEW j \in Job
  PROVE  /\ j.at \in Position /\ j.doing \in Purpose /\ j.c \in Call \cup {None}
         /\ j.todo \in SUBSET Call /\ j.wait \in SUBSET Call
         /\ j.rows \in [Call -> Reservation] /\ j.knows \in [Call -> Records]
         /\ j.token \in Nat /\ j.epoch \in Nat /\ j.outcome \in Outcome \cup {None}
         /\ j.money \in Accounting \cup {None}
  BY DEF Job

LEMMA Step1 ==
  ASSUME NEW j \in Job, NEW x \in Position, NEW v, v = [j EXCEPT !.at = x]
  PROVE  v \in Job /\ v.at = x /\ v.money = j.money /\ Same(v, j)
<1>1. v \in Job
  BY DEF Job
<1>2. v.at = x /\ v.money = j.money /\ Same(v, j)
  BY DEF Job, Same
<1>. QED
  BY <1>1, <1>2

\* The job is over.
LEMMA IdleFits == JobFits(Idle)
<1>1. Shape(Idle)
  BY Blank DEF Shape, Staged, Ends, Claims, Walks, Going
<1>2. ~Walks(Idle) /\ Poised(Idle)
  BY Blank DEF Walks, Going, Poised
<1>. QED
  BY <1>1, <1>2 DEF JobFits

LEMMA DoneFits ==
  ASSUME NEW j \in Job
  PROVE  /\ JobFits(Done(j)) /\ (Done(j)).epoch = 0
         /\ (Done(j)).token \in {0, j.token} /\ (Done(j)).at \in {"idle", "release"}
<1>1. CASE j.token = 0
  BY <1>1, Blank, IdleFits DEF Done
<1>2. CASE j.token # 0
  <2>1. PICK v : v = [Idle EXCEPT !.at = "release", !.token = j.token]
    OBVIOUS
  <2>2. /\ v \in Job /\ v.at = "release" /\ v.token = j.token /\ v.epoch = 0 /\ v.doing = "run"
    BY <2>1, Blank, JobTypes DEF Job, Position
  <2>3. Shape(v)
    BY <2>2 DEF Shape, Staged, Ends, Claims, Walks, Going
  <2>4. ~Walks(v) /\ Poised(v)
    BY <2>2 DEF Walks, Going, Poised
  <2>. QED
    BY <1>2, <2>1, <2>2, <2>3, <2>4 DEF Done, JobFits
<1>. QED
  BY <1>1, <1>2

\* A scan begins.
LEMMA ScanFits ==
  ASSUME NEW j \in Job, NEW doing \in {"run", "abort", "expire", "account"},
         NEW o \in Outcome \cup {None}, j.token # 0, j.epoch # 0,
         doing = "abort" => o = "aborted", doing = "expire" => o \in {"failed", None},
         doing = "account" => o \in {"completed", "failed", None},
         doing = "account" /\ o = "completed" => \A c \in calls : said[c].joined # None,
         NEW v,
         \/ v = Scan(j, doing, o)
         \/ v = [Scan(j, doing, o) EXCEPT !.at = "exhaust"] /\ doing = "expire"
  PROVE  JobFits(v) /\ v.token = j.token /\ v.epoch = j.epoch
<1>1. /\ v \in Job /\ v.doing = doing /\ v.outcome = o /\ v.token = j.token /\ v.epoch = j.epoch
      /\ v.at = "read" \/ (v.at = "exhaust" /\ doing = "expire")
      /\ v.rows = [c \in Call |-> NoRow]
  <2>1. PICK w : w = Scan(j, doing, o)
    OBVIOUS
  <2>2. w \in Job
    BY <2>1, Blank, JobTypes, ZenonT(60) DEF Scan, Job, Position, Purpose
  <2>3. /\ w.at = "read" /\ w.doing = doing /\ w.outcome = o /\ w.token = j.token
        /\ w.epoch = j.epoch /\ w.rows = [c \in Call |-> NoRow]
    BY <2>1, Blank DEF Scan, Job
  <2>4. CASE v = w
    BY <2>2, <2>3, <2>4
  <2>5. CASE v = [w EXCEPT !.at = "exhaust"] /\ doing = "expire"
    <3>1. v \in Job /\ v.at = "exhaust" /\ Same(v, w)
      BY <2>2, <2>5 DEF Job, Position, Same
    <3>. QED
      BY <2>3, <2>5, <3>1 DEF Same
  <2>. QED
    BY <2>1, <2>4, <2>5
<1>2. Shape(v)
  BY <1>1 DEF Shape, Staged, Ends, Claims, Walks, Going
<1>3. ~Walks(v) /\ Poised(v)
  BY <1>1 DEF Walks, Going, Poised
<1>. QED
  BY <1>1, <1>2, <1>3 DEF JobFits

-----------------------------------------------------------------------------
(***************************************************************************)
(* Going through the Calls: whatever comes next fits what is known.          *)
(***************************************************************************)
Bonds ==
  /\ row \in [Call -> Reservation] /\ said \in [Call -> Records] /\ calls \subseteq Call
  /\ LinksAreTrue /\ AccountingIsCanonical
  /\ \A c \in Call : RowFits(c)
SetsOff(i) ==
  /\ i \in Job /\ Ends(i) /\ Carried(i)
  /\ i.doing \in {"run", "abort", "expire", "account", "admit", "link", "apply", "propagate",
                  "nudge", "orphan"}
  /\ i.doing \in {"run", "abort", "expire", "account"} => i.token # 0 /\ i.epoch # 0
  /\ i.doing = "run" => \A c \in i.todo : i.knows[c].joined = None

Opens(i, c, x, m) ==
  /\ x \in Going \ {"request", "ready", "start", "link", "join", "free"}
  /\ m \in Accounting \cup {None}
  /\ i.doing = "run" => x \in {"reserve", "admit"}
  /\ i.doing = "abort" => x \in {"admit", "lookup", "freeze"}
  /\ i.doing = "expire" => x \in {"resolve", "lookup", "freeze"}
  /\ i.doing \in {"account", "apply", "orphan"} => x = "freeze"
  /\ i.doing \in {"admit", "link"} => x = "admit"
  /\ i.doing \in {"propagate", "nudge"} => x = "bid"
  /\ x = "admit" => said[c].requested
  /\ x = "lookup" /\ i.doing = "expire" => said[c].started
  /\ x # "freeze" /\ i.doing \in {"run", "abort", "expire"} => i.knows[c].joined = None
  /\ x = "freeze" => m # None /\ (m = "zero" \/ said[c].joined = m)

LEMMA OpeningOpens ==
  ASSUME Bonds, NEW i, SetsOff(i), NEW c \in i.todo
  PROVE  \E x, m : Opening(i, c) = To(x, m) /\ Opens(i, c, x, m)
<1>0. c \in Call /\ i.knows[c] \in Records /\ i.rows[c] \in Reservation
  BY JobTypes DEF SetsOff
<1>1. PICK k : k = i.knows[c]
  OBVIOUS
<1>2. PICK r : r = i.rows[c]
  OBVIOUS
<1>3. Knew(k, said[c]) /\ Saw(r, row[c]) /\ k \in Records /\ r \in Reservation
  BY <1>0, <1>1, <1>2 DEF SetsOff, Carried, Informed
<1>4. /\ row[c].child => said[c].started
      /\ said[c].started => said[c].requested
      /\ row[c].accounting \notin {None, "zero"} => said[c].joined = row[c].accounting
      /\ row[c].status \in Closed => row[c].accounting # None
      /\ row[c] \in Reservation /\ said[c] \in Records
  BY <1>0 DEF Bonds, Typed, LinksAreTrue, AccountingIsCanonical, RowFits, Closed
<1>5. CASE i.doing = "run"
  <2>1. k.joined = None
    BY <1>1, <1>5 DEF SetsOff
  <2>2. CASE k.requested
    <3>1. Opening(i, c) = To("admit", None)
      BY <1>1, <1>5, <2>2 DEF Opening
    <3>. QED
      BY <1>1, <1>3, <1>5, <2>1, <2>2, <3>1 DEF Opens, Going, Knew
  <2>3. CASE ~k.requested
    <3>1. Opening(i, c) = To("reserve", None)
      BY <1>1, <1>5, <2>3 DEF Opening
    <3>. QED
      BY <1>1, <1>3, <1>5, <2>1, <3>1 DEF Opens, Going
  <2>. QED
    BY <2>2, <2>3
<1>6. CASE i.doing \in {"admit", "link"}
  <2>1. Opening(i, c) = To("admit", None)
    BY <1>6 DEF Opening
  <2>2. said[c].requested
    BY <1>6 DEF SetsOff, Carried, Chosen
  <2>. QED
    BY <1>6, <2>1, <2>2 DEF Opens, Going
<1>7. CASE i.doing \in {"propagate", "nudge"}
  <2>1. Opening(i, c) = To("bid", None)
    BY <1>7 DEF Opening
  <2>. QED
    BY <1>7, <2>1 DEF Opens, Going
<1>8. CASE i.doing = "orphan"
  <2>1. Opening(i, c) = To("freeze", "zero")
    BY <1>8 DEF Opening
  <2>. QED
    BY <1>8, <2>1, Calls DEF Opens, Going, Accounting
<1>9. CASE i.doing \in {"abort", "expire", "account", "apply"}
  <2>1. CASE k.joined # None
    <3>1. Opening(i, c) = To("freeze", k.joined)
      BY <1>1, <1>9, <2>1 DEF Opening
    <3>2. said[c].joined = k.joined /\ k.joined \in Accounting
      BY <1>3, <2>1 DEF Knew, Records
    <3>. QED
      BY <1>9, <2>1, <3>1, <3>2 DEF Opens, Going
  <2>2. CASE k.joined = None /\ r.status # "reserved"
    <3>1. Opening(i, c) = To("freeze", r.accounting)
      BY <1>1, <1>2, <1>9, <2>2 DEF Opening
    <3>2. r.status # "absent"
      BY <1>2, <1>9 DEF SetsOff, Carried, Chosen
    <3>3. r.status \in Closed
      BY <1>3, <2>2, <3>2 DEF Reservation, Closed
    <3>4. r.accounting # None /\ (r.accounting = "zero" \/ said[c].joined = r.accounting)
      BY <1>3, <1>4, <3>3 DEF Saw
    <3>5. r.accounting \in Accounting
      BY <1>3, <3>4 DEF Reservation
    <3>. QED
      BY <1>9, <3>1, <3>4, <3>5 DEF Opens, Going
  <2>3. CASE k.joined = None /\ r.status = "reserved"
    <3>0. i.doing \in {"abort", "expire"}
      BY <1>0, <1>1, <1>2, <1>9, <2>3 DEF SetsOff, Carried, Chosen
    <3>1. CASE ~k.started /\ ~r.child /\ ~k.requested
      <4>1. Opening(i, c) = To("freeze", "zero")
        BY <1>1, <1>2, <1>9, <2>3, <3>1 DEF Opening
      <4>. QED
        BY <3>0, <4>1, Calls DEF Opens, Going, Accounting
    <3>2. CASE ~(~k.started /\ ~r.child /\ ~k.requested) /\ (k.started \/ (r.child
               /\ i.doing = "abort"))
      <4>1. Opening(i, c) = To("lookup", None)
        BY <1>1, <1>2, <1>9, <2>3, <3>2 DEF Opening
      <4>2. i.doing = "expire" => said[c].started
        BY <1>3, <3>2 DEF Knew
      <4>. QED
        BY <1>1, <2>3, <3>0, <4>1, <4>2 DEF Opens, Going
    <3>3. CASE ~(~k.started /\ ~r.child /\ ~k.requested) /\ ~(k.started \/ (r.child
               /\ i.doing = "abort"))
      <4>1. Opening(i, c) = To(IF i.doing = "expire" THEN "resolve" ELSE "admit", None)
        BY <1>1, <1>2, <1>9, <2>3, <3>3 DEF Opening
      <4>2. said[c].requested
        BY <1>3, <1>4, <3>3 DEF Knew, Saw
      <4>. QED
        BY <1>1, <2>3, <3>0, <4>1, <4>2 DEF Opens, Going
    <3>. QED
      BY <3>1, <3>2, <3>3
  <2>. QED
    BY <2>1, <2>2, <2>3
<1>. QED
  BY <1>5, <1>6, <1>7, <1>8, <1>9 DEF SetsOff

LEMMA WalkOn ==
  ASSUME Bonds, NEW i, SetsOff(i), i.todo # {}
  PROVE  JobFits(Walk(i)) /\ (Walk(i)).token = i.token /\ (Walk(i)).epoch = i.epoch
<1>0. i \in Job /\ i.todo \in SUBSET Call
  BY JobTypes DEF SetsOff
<1>1. PICK c \in i.todo : c = CHOOSE d \in i.todo : \A e \in i.todo : d <= e
  BY <1>0, FirstOf
<1>2. PICK x, m : Opening(i, c) = To(x, m) /\ Opens(i, c, x, m)
  BY OpeningOpens
<1>3. PICK v : v = [i EXCEPT !.c = c, !.at = x, !.money = m]
  OBVIOUS
<1>4. Walk(i) = v
  <2>1. Opening(i, c).at = x /\ Opening(i, c).money = m
    BY <1>2 DEF To
  <2>2. Walk(i) = [i EXCEPT !.c = c, !.at = Opening(i, c).at, !.money = Opening(i, c).money]
    BY <1>1 DEF Walk
  <2>. QED
    BY <1>3, <2>1, <2>2
<1>5. x \in Position /\ m \in Accounting \cup {None} /\ c \in Call
  BY <1>0, <1>2 DEF Opens, Going, Position
<1>6. /\ v \in Job /\ v.at = x /\ v.money = m /\ v.c = c
      /\ v.doing = i.doing /\ v.todo = i.todo /\ v.wait = i.wait
      /\ v.rows = i.rows /\ v.knows = i.knows
      /\ v.token = i.token /\ v.epoch = i.epoch /\ v.outcome = i.outcome
  <2>1. i \in Job /\ v = [i EXCEPT !.c = c, !.at = x, !.money = m]
    BY <1>0, <1>3
  <2>2. c \in Call /\ x \in Position /\ m \in Accounting \cup {None}
    BY <1>5
  <2>3. v \in Job
    BY <2>1, <2>2 DEF Job
  <2>. QED
    BY <2>1, <2>2, <2>3 DEF Job
<1>7. Shape(v)
  BY <1>2, <1>6 DEF Shape, Staged, Ends, Claims, Walks, Going, Opens, SetsOff
<1>8. Carried(v)
  <2>1. Informed(v) /\ Unjoined(v) /\ Undecided(v) /\ Swept(v) /\ Through(v)
    BY <1>6 DEF SetsOff, Carried, Informed, Unjoined, Undecided, Swept, Through, Mine
  <2>2. Chosen(v)
    BY <1>6 DEF SetsOff, Carried, Chosen
  <2>. QED
    BY <2>1, <2>2 DEF Carried
<1>9. Due(v)
  BY <1>2, <1>6 DEF Due, Opens, Going, SetsOff
<1>10. Poised(v)
  BY <1>2, <1>6 DEF Poised, Opens, Going
<1>. QED
  BY <1>4, <1>6, <1>7, <1>8, <1>9, <1>10 DEF JobFits

Inherits(v, j) == v.token \in {0, j.token} /\ v.epoch \in {0, j.epoch}

LEMMA OverFits ==
  ASSUME NEW i, SetsOff(i), i.todo = {}
  PROVE  JobFits(Over(i)) /\ Inherits(Over(i), i)
<1>0. i \in Job /\ i.outcome \in Outcome \cup {None} /\ Ends(i) /\ Carried(i)
  BY JobTypes DEF SetsOff
<1>1. CASE i.doing = "run" /\ i.wait = {}
  <2>1. Over(i) = Scan(i, "account", "completed")
    BY <1>1 DEF Over
  <2>2. \A c \in calls : said[c].joined # None
    BY <1>0, <1>1 DEF Carried, Through
  <2>3. i.token # 0 /\ i.epoch # 0
    BY <1>1 DEF SetsOff
  <2>4. "completed" \in Outcome
    BY DEF Outcome
  <2>5. PICK v : v = Scan(i, "account", "completed")
    OBVIOUS
  <2>6. JobFits(v) /\ v = Scan(i, "account", "completed") /\ v.token = i.token /\ v.epoch = i.epoch
    BY <1>0, <2>2, <2>3, <2>4, <2>5, ScanFits
  <2>. QED
    BY <2>1, <2>6 DEF Inherits
<1>2. CASE i.doing = "expire"
  <2>1. Over(i) = Scan(i, "account", i.outcome)
    BY <1>2 DEF Over
  <2>2. i.outcome \in {"failed", None} /\ None # "completed"
    BY <1>0, <1>2, Calls DEF Ends, Outcome
  <2>3. i.token # 0 /\ i.epoch # 0
    BY <1>2 DEF SetsOff
  <2>4. PICK o \in Outcome \cup {None} : o = i.outcome
    BY <1>0
  <2>5. PICK v : v = Scan(i, "account", o)
    OBVIOUS
  <2>6. JobFits(v) /\ v = Scan(i, "account", o) /\ v.token = i.token /\ v.epoch = i.epoch
    BY <1>0, <2>2, <2>3, <2>4, <2>5, ScanFits
  <2>. QED
    BY <2>1, <2>4, <2>6 DEF Inherits
<1>3. CASE \/ i.doing = "abort" /\ i.wait = {}
           \/ i.doing = "account" /\ i.wait = {} /\ i.outcome # None
  <2>1. PICK v : v = [i EXCEPT !.at = "settle"]
    OBVIOUS
  <2>2. Over(i) = v
    BY <1>3, <2>1 DEF Over
  <2>3. v \in Job /\ v.at = "settle" /\ Same(v, i)
    BY <1>0, <2>1, Step1 DEF Position
  <2>4. v.outcome # None
    BY <1>0, <1>3, <2>3, Calls DEF Same, Ends, Outcome
  <2>5. Shape(v)
    BY <1>0, <1>3, <2>3, <2>4 DEF Shape, Staged, Ends, Claims, Walks, Going, Same, SetsOff
  <2>6. ~Walks(v)
    BY <2>3 DEF Walks, Going
  <2>7. Poised(v)
    BY <1>0, <1>3, <2>3 DEF Poised, Same, Carried, Swept, Through, Mine
  <2>. QED
    BY <2>2, <2>3, <2>5, <2>6, <2>7 DEF JobFits, Inherits, Same
<1>4. CASE i.doing \in {"run", "abort"} /\ i.wait # {}
  <2>1. PICK v : v = [i EXCEPT !.at = "suspend"]
    OBVIOUS
  <2>2. Over(i) = v
    BY <1>4, <2>1 DEF Over
  <2>3. v \in Job /\ v.at = "suspend" /\ Same(v, i)
    BY <1>0, <2>1, Step1 DEF Position
  <2>4. Shape(v)
    BY <1>0, <1>4, <2>3 DEF Shape, Staged, Ends, Claims, Walks, Going, Same, SetsOff
  <2>5. ~Walks(v) /\ Poised(v)
    BY <1>4, <2>3 DEF Walks, Going, Poised, Same
  <2>. QED
    BY <2>2, <2>3, <2>4, <2>5 DEF JobFits, Inherits, Same
<1>5. CASE i.doing = "propagate"
  <2>1. PICK v : v = [i EXCEPT !.at = "acquire"]
    OBVIOUS
  <2>2. Over(i) = v
    BY <1>5, <2>1 DEF Over
  <2>3. v \in Job /\ v.at = "acquire" /\ Same(v, i)
    BY <1>0, <2>1, Step1 DEF Position
  <2>4. Shape(v)
    BY <1>0, <1>5, <2>3 DEF Shape, Staged, Ends, Claims, Walks, Going, Same
  <2>5. ~Walks(v) /\ Poised(v)
    BY <1>5, <2>3 DEF Walks, Going, Poised, Same
  <2>. QED
    BY <2>2, <2>3, <2>4, <2>5 DEF JobFits, Inherits, Same
<1>6. CASE \/ i.doing = "account" /\ (i.wait # {} \/ i.outcome = None)
           \/ i.doing \in {"admit", "link", "apply", "nudge", "orphan"}
  <2>1. Over(i) = Done(i)
    BY <1>6 DEF Over
  <2>. QED
    BY <1>0, <2>1, DoneFits DEF Inherits
<1>7. i.doing \in {"run", "abort", "expire", "account", "admit", "link", "apply", "propagate",
                   "nudge", "orphan"}
  BY DEF SetsOff
<1>. QED
  BY <1>1, <1>2, <1>3, <1>4, <1>5, <1>6, <1>7

LEMMA WalkFits ==
  ASSUME Bonds, NEW i, SetsOff(i)
  PROVE  JobFits(Walk(i)) /\ Inherits(Walk(i), i)
<1>1. CASE i.todo = {}
  BY <1>1, OverFits DEF Walk
<1>2. CASE i.todo # {}
  BY <1>2, WalkOn DEF Inherits
<1>. QED
  BY <1>1, <1>2

-----------------------------------------------------------------------------
(***************************************************************************)
(* A Call is dealt with.                                                    *)
(***************************************************************************)
LEMMA PastFields ==
  ASSUME NEW j \in Job, NEW c \in Call, j.c = c, NEW v, v = Past(j)
  PROVE  /\ v \in Job /\ v.c = None /\ v.todo = j.todo \ {c} /\ v.wait = j.wait
         /\ v.doing = j.doing /\ v.token = j.token /\ v.epoch = j.epoch /\ v.outcome = j.outcome
         /\ \A d \in Call \ {c} : v.rows[d] = j.rows[d] /\ v.knows[d] = j.knows[d]
<1>1. PICK rs : rs = [j.rows EXCEPT ![c] = NoRow]
  OBVIOUS
<1>2. PICK ks : ks = [j.knows EXCEPT ![c] = Nothing]
  OBVIOUS
<1>3. PICK td : td = j.todo \ {c}
  OBVIOUS
<1>4. v = [j EXCEPT !.todo = td, !.c = None, !.money = None, !.rows = rs, !.knows = ks]
  BY <1>1, <1>2, <1>3 DEF Past
<1>5. rs \in [Call -> Reservation] /\ ks \in [Call -> Records] /\ td \in SUBSET Call
  BY <1>1, <1>2, <1>3, JobTypes, Blank
<1>6. v \in Job
  BY <1>4, <1>5 DEF Job
<1>7. /\ v.c = None /\ v.todo = td /\ v.wait = j.wait
      /\ v.doing = j.doing /\ v.token = j.token /\ v.epoch = j.epoch /\ v.outcome = j.outcome
      /\ v.rows = rs /\ v.knows = ks
  BY <1>4 DEF Job
<1>8. \A d \in Call \ {c} : rs[d] = j.rows[d] /\ ks[d] = j.knows[d]
  BY <1>1, <1>2, JobTypes
<1>. QED
  BY <1>3, <1>6, <1>7, <1>8

\* What has to be so of a Call for it to be left behind.
Behind(j) ==
  LET c == j.c IN
  /\ j.doing = "run" => said[c].joined # None
  /\ j.doing = "account" => Gone(c)
LEMMA PastSetsOff ==
  ASSUME NEW j, Shape(j), Walks(j), Carried(j), NEW i, NEW w \in {j.wait, j.wait \cup {j.c}},
         i = [Past(j) EXCEPT !.wait = w],
         w # j.wait \/ Behind(j) \/ (j.doing = "run" /\ j.c \in w),
         w # j.wait => j.doing \in {"run", "abort"},
         j.doing \in {"run", "abort", "expire", "account", "admit", "link", "apply", "propagate",
                      "nudge", "orphan"},
         j.doing \in {"run", "abort", "expire", "account"} => j.token # 0 /\ j.epoch # 0
  PROVE  SetsOff(i) /\ i.token = j.token /\ i.epoch = j.epoch
<1>0. j \in Job /\ j.c \in j.todo /\ j.c \in Call /\ j.todo \subseteq Call
  BY JobTypes DEF Shape
<1>1. PICK c \in Call : c = j.c
  BY <1>0
<1>2. PICK v : v = Past(j)
  OBVIOUS
<1>3. /\ v \in Job /\ v.c = None /\ v.todo = j.todo \ {c} /\ v.wait = j.wait
      /\ v.doing = j.doing /\ v.token = j.token /\ v.epoch = j.epoch /\ v.outcome = j.outcome
      /\ \A d \in Call \ {c} : v.rows[d] = j.rows[d] /\ v.knows[d] = j.knows[d]
  BY <1>0, <1>1, <1>2, PastFields
<1>4. i = [v EXCEPT !.wait = w] /\ w \in SUBSET Call
  BY <1>0, <1>2, JobTypes
<1>5. /\ i \in Job /\ i.c = None /\ i.todo = j.todo \ {c} /\ i.wait = w
      /\ i.doing = j.doing /\ i.token = j.token /\ i.epoch = j.epoch /\ i.outcome = j.outcome
      /\ \A d \in i.todo : i.rows[d] = j.rows[d] /\ i.knows[d] = j.knows[d]
  <2>1. i \in Job
    BY <1>3, <1>4 DEF Job
  <2>2. /\ i.c = v.c /\ i.todo = v.todo /\ i.wait = w /\ i.rows = v.rows /\ i.knows = v.knows
        /\ i.doing = v.doing /\ i.token = v.token /\ i.epoch = v.epoch /\ i.outcome = v.outcome
    BY <1>3, <1>4 DEF Job
  <2>. QED
    BY <1>0, <1>3, <2>1, <2>2
<1>6. Informed(i)
  BY <1>5 DEF Carried, Informed
<1>7. Chosen(i)
  BY <1>1, <1>5 DEF Carried, Chosen
<1>8. Unjoined(i)
  BY <1>5 DEF Carried, Unjoined
<1>9. Undecided(i)
  BY <1>5 DEF Carried, Undecided, Mine
<1>10. Swept(i)
  <2>. SUFFICES ASSUME i.doing = "account", Mine(i), i.wait = {}
                PROVE \A d \in Call \ i.todo : Gone(d)
    BY DEF Swept
  <2>1. w = j.wait /\ Gone(c) /\ \A d \in Call \ j.todo : Gone(d)
    BY <1>1, <1>5 DEF Carried, Swept, Mine, Behind
  <2>. QED
    BY <1>5, <2>1
<1>11. Through(i)
  <2>1. ASSUME i.doing = "run", NEW d \in calls
        PROVE said[d].joined # None \/ d \in i.todo \cup i.wait
    <3>1. said[d].joined # None \/ d \in j.todo \cup j.wait
      BY <1>5, <2>1 DEF Carried, Through
    <3>2. said[c].joined # None \/ c \in w
      BY <1>1, <1>5, <2>1 DEF Behind
    <3>. QED
      BY <1>5, <3>1, <3>2
  <2>2. i.doing = "account" /\ i.outcome = "completed" => \A d \in calls : said[d].joined # None
    BY <1>5 DEF Carried, Through
  <2>. QED
    BY <2>1, <2>2 DEF Through
<1>12. i.doing = "run" => \A d \in i.todo : i.knows[d].joined = None
  BY <1>1, <1>5 DEF Carried, Chosen
<1>13. Ends(i)
  BY <1>5 DEF Ends, Shape
<1>. QED
  BY <1>5, <1>6, <1>7, <1>8, <1>9, <1>10, <1>11, <1>12, <1>13 DEF SetsOff, Carried

LEMMA WalksFor ==
  ASSUME NEW j, Shape(j), j.at \in Going
  PROVE  /\ j.doing \in {"run", "abort", "expire", "account", "admit", "link", "apply",
                         "propagate", "nudge", "orphan"}
         /\ j.doing \in {"run", "abort", "expire", "account"} => j.token # 0 /\ j.epoch # 0
         /\ Walks(j) /\ j.c \in j.todo /\ j.c \in Call /\ j.todo \subseteq Call /\ j \in Job
<1>1. j \in Job /\ j.doing \in Purpose /\ j.todo \subseteq Call
  BY JobTypes DEF Shape
<1>2. j.doing \notin {"wait", "wake", "close"}
  BY DEF Shape, Staged, Going
<1>3. j.doing \in {"run", "abort", "expire", "account"} => j.token # 0 /\ j.epoch # 0
  BY DEF Shape, Claims, Going
<1>4. Walks(j) /\ j.c \in j.todo
  BY DEF Walks, Shape
<1>. QED
  BY <1>1, <1>2, <1>3, <1>4 DEF Purpose

LEMMA OnwardFits ==
  ASSUME Bonds, NEW j, JobFits(j), j.at \in Going, Behind(j)
  PROVE  JobFits(Onward(j)) /\ Inherits(Onward(j), j)
<1>1. Shape(j) /\ Walks(j) /\ Carried(j) /\ j \in Job /\ j.c \in Call
  BY WalksFor DEF JobFits
<1>2. PICK i : i = Past(j)
  OBVIOUS
<1>3. i \in Job /\ i.wait = j.wait
  BY <1>1, <1>2, PastFields
<1>4. i = [i EXCEPT !.wait = j.wait]
  BY <1>3 DEF Job
<1>5. SetsOff(i) /\ i.token = j.token /\ i.epoch = j.epoch
  BY <1>1, <1>2, <1>4, WalksFor, PastSetsOff
<1>6. JobFits(Walk(i)) /\ Inherits(Walk(i), i)
  BY <1>5, WalkFits
<1>. QED
  BY <1>2, <1>5, <1>6 DEF Onward, Inherits

LEMMA WaitingFits ==
  ASSUME Bonds, NEW j, JobFits(j), j.at \in Going, j.doing \in {"run", "abort"}
  PROVE  JobFits(Waiting(j)) /\ Inherits(Waiting(j), j)
<1>1. Shape(j) /\ Walks(j) /\ Carried(j) /\ j \in Job /\ j.c \in Call
  BY WalksFor DEF JobFits
<1>2. PICK v : v = Past(j)
  OBVIOUS
<1>3. v \in Job /\ v.wait = j.wait
  BY <1>1, <1>2, PastFields
<1>4. PICK w : w = j.wait \cup {j.c}
  OBVIOUS
<1>5. PICK i : i = [v EXCEPT !.wait = w]
  OBVIOUS
<1>6. Waiting(j) = Walk(i)
  BY <1>2, <1>3, <1>4, <1>5 DEF Waiting
<1>7. SetsOff(i) /\ i.token = j.token /\ i.epoch = j.epoch
  <2>1. w # j.wait \/ Behind(j) \/ (j.doing = "run" /\ j.c \in w)
    BY <1>4 DEF Behind
  <2>. QED
    BY <1>1, <1>2, <1>4, <1>5, <2>1, WalksFor, PastSetsOff
<1>8. JobFits(Walk(i)) /\ Inherits(Walk(i), i)
  BY <1>7, WalkFits
<1>. QED
  BY <1>6, <1>7, <1>8 DEF Inherits

-----------------------------------------------------------------------------
(***************************************************************************)
(* What fits goes on fitting while others act.                               *)
(***************************************************************************)
Around(v) ==
  /\ calls' = calls
  /\ \A c \in Call : /\ Knew(said[c], said'[c]) /\ Saw(row[c], row'[c])
                     /\ Advances(sub[c].state, sub'[c].state)
  /\ v.at \notin {"claimed", "suspend"} /\ L!OwnsLane(Root, v.token)' =>
       /\ L!OwnsLane(Root, v.token)
       /\ v.doing = "run" => sub'[Root].reserved = sub[Root].reserved
       /\ v.doing # "run" => \A c \in Call : row[c].status = "absent" => row'[c].status = "absent"
  /\ fence' = v.epoch => fence = v.epoch /\ \A c \in Call : said'[c].joined = said[c].joined

LEMMA Transitive ==
  /\ \A a, b, c : Knew(a, b) /\ Knew(b, c) => Knew(a, c)
  /\ \A a, b, c : Saw(a, b) /\ Saw(b, c) => Saw(a, c)
BY DEF Knew, Saw

LEMMA StaysCarried ==
  ASSUME Typed, NEW v \in Job, Walks(v), Carried(v), Around(v)
  PROVE  Carried(v)'
<1>1. v.todo \subseteq Call /\ calls \subseteq Call
  BY JobTypes DEF Typed
<1>2. \A c \in Call : Knew(said[c], said'[c]) /\ Saw(row[c], row'[c])
  BY DEF Around
<1>3. Informed(v)'
  <2>1. ASSUME NEW c \in v.todo PROVE Knew(v.knows[c], said'[c]) /\ Saw(v.rows[c], row'[c])
    <3>1. Knew(v.knows[c], said[c]) /\ Saw(v.rows[c], row[c])
      BY DEF Carried, Informed
    <3>2. Knew(said[c], said'[c]) /\ Saw(row[c], row'[c])
      BY <1>1, <1>2
    <3>. QED
      BY <3>1, <3>2, Transitive
  <2>. QED
    BY <2>1 DEF Informed
<1>4. Chosen(v)'
  BY <1>1, <1>2 DEF Carried, Chosen, Knew, Saw
<1>5. Unjoined(v)'
  BY <1>1 DEF Carried, Unjoined, Around
<1>6. Undecided(v)'
  BY DEF Carried, Undecided, Around, Mine, Walks, Going
<1>7. Swept(v)'
  BY <1>2 DEF Carried, Swept, Around, Mine, Gone, Saw, Walks, Going
<1>8. Through(v)'
  BY <1>1, <1>2 DEF Carried, Through, Around, Knew
<1>. QED
  BY <1>3, <1>4, <1>5, <1>6, <1>7, <1>8 DEF Carried

LEMMA StaysDue ==
  ASSUME NEW v, v.c \in Call, Due(v), Around(v), Walks(v), v.at # "join"
  PROVE  Due(v)'
<1>1. PICK c \in Call : c = v.c
  OBVIOUS
<1>2. /\ Knew(said[c], said'[c]) /\ Saw(row[c], row'[c])
      /\ Advances(sub[c].state, sub'[c].state)
  BY DEF Around
<1>. QED
  BY <1>1, <1>2 DEF Due, Knew, Saw, Advances, Begun, Settled, L!Present, Closed
LEMMA StaysDueJoin ==
  ASSUME NEW v, v.c \in Call, Due(v), Around(v), Walks(v), v.at = "join"
  PROVE  Due(v)'
  BY DEF Due, Around, Advances, Settled, Going
LEMMA StaysPoised ==
  ASSUME Typed, NEW v \in Job, Poised(v), Around(v)
  PROVE  Poised(v)'
<1>1. calls \subseteq Call /\ \A c \in Call : Knew(said[c], said'[c]) /\ Saw(row[c], row'[c])
  BY DEF Typed, Around
<1>2. ASSUME v.at = "inspect", NEW c \in Call PROVE Knew(v.knows[c], said'[c])
  BY <1>1, <1>2, Transitive DEF Poised
<1>3. v.at = "consult" /\ v.doing = "run" /\ Mine(v)' => sub'[Root].reserved = None
  BY DEF Poised, Around, Mine
<1>4. ASSUME v.at = "consult", v.doing # "run", NEW c \in Call
      PROVE  /\ Saw(v.rows[c], row'[c])
             /\ Mine(v)' /\ v.rows[c].status = "absent" => row'[c].status = "absent"
  <2>1. Saw(v.rows[c], row'[c])
    BY <1>1, <1>4, Transitive DEF Poised
  <2>2. Mine(v)' /\ v.rows[c].status = "absent" => row'[c].status = "absent"
    BY <1>4 DEF Poised, Around, Mine
  <2>. QED
    BY <2>1, <2>2
<1>5. v.at = "settle" /\ v.doing = "account" /\ Mine(v)' => \A c \in Call : Gone(c)'
  BY <1>1 DEF Poised, Around, Mine, Gone, Saw
<1>6. v.at \in {"read", "consult", "settle"} /\ v.doing = "account" /\ v.outcome = "completed" =>
        \A c \in calls' : said'[c].joined # None
  BY <1>1 DEF Poised, Around, Knew
<1>. QED
  BY <1>2, <1>3, <1>4, <1>5, <1>6 DEF Poised

LEMMA StaysFit ==
  ASSUME Typed, NEW v, JobFits(v), Around(v)
  PROVE  JobFits(v)'
<1>1. Shape(v)' /\ v \in Job
  BY DEF JobFits, Shape
<1>2. Poised(v)'
  BY <1>1, StaysPoised DEF JobFits
<1>3. CASE Walks(v)
  <2>1. v.c \in Call
    BY <1>1, <1>3, JobTypes DEF JobFits, Shape
  <2>2. Due(v)'
    BY <1>3, <2>1, StaysDue, StaysDueJoin DEF JobFits
  <2>3. Carried(v)'
    BY <1>1, <1>3, StaysCarried DEF JobFits
  <2>. QED
    BY <1>1, <1>2, <2>2, <2>3 DEF JobFits
<1>4. CASE ~Walks(v)
  BY <1>1, <1>2, <1>4 DEF JobFits, Walks
<1>. QED
  BY <1>3, <1>4

\* What a step may change, taken with the claim of token k and epoch e (0: without one).
Acts(k, e) ==
  /\ calls' = calls
  /\ \A c \in Call : /\ Knew(said[c], said'[c]) /\ Saw(row[c], row'[c])
                     /\ Advances(sub[c].state, sub'[c].state)
  /\ \A t \in 0..minted : L!OwnsLane(Root, t)' => L!OwnsLane(Root, t)
  /\ \/ NoEnd /\ \A c \in Call : row[c].status = "absent" => row'[c].status = "absent"
     \/ k # 0 /\ L!OwnsLane(Root, k)
  /\ \/ fence' = fence /\ \A c \in Call : said'[c].joined = said[c].joined
     \/ e # 0 /\ fence' = e

LEMMA ActsAround ==
  ASSUME NEW v, v.token \in 0..minted, NEW k, NEW e, Acts(k, e),
         v.token = 0 \/ v.token # k, v.epoch = 0 \/ v.epoch # e
  PROVE  Around(v)
<1>1. /\ calls' = calls
      /\ \A c \in Call : /\ Knew(said[c], said'[c]) /\ Saw(row[c], row'[c])
                         /\ Advances(sub[c].state, sub'[c].state)
  BY DEF Acts
<1>2. ASSUME L!OwnsLane(Root, v.token)'
      PROVE  /\ L!OwnsLane(Root, v.token) /\ NoEnd
             /\ \A c \in Call : row[c].status = "absent" => row'[c].status = "absent"
  <2>1. L!OwnsLane(Root, v.token)
    BY <1>2 DEF Acts
  <2>2. v.token # 0 /\ ~L!OwnsLane(Root, k)
    BY <2>1 DEF L!OwnsLane, L!Owned
  <2>. QED
    BY <2>1, <2>2 DEF Acts
<1>3. fence' = v.epoch => fence = v.epoch /\ \A c \in Call : said'[c].joined = said[c].joined
  BY DEF Acts
<1>. QED
  BY <1>1, <1>2, <1>3 DEF Around, NoEnd

LEMMA OthersFit ==
  ASSUME IInv, NEW p \in Process, Acts(job[p].token, job[p].epoch),
         NEW q \in Process \ {p}, job'[q] = job[q]
  PROVE  JobFits(job[q])'
<1>1. PICK v : v = job[q]
  OBVIOUS
<1>2. JobFits(v) /\ v \in Job /\ v.token \in 0..minted
  BY <1>1, JobTypes, LedgerTypes DEF IInv, Apart, Typed
<1>3. (v.token = 0 \/ v.token # job[p].token) /\ (v.epoch = 0 \/ v.epoch # job[p].epoch)
  BY <1>1 DEF IInv, Apart
<1>4. Around(v)
  BY <1>2, <1>3, ActsAround
<1>5. JobFits(v)'
  BY <1>2, <1>4, StaysFit DEF IInv
<1>6. job'[q] = v
  BY <1>1
<1>. QED
  BY <1>5, <1>6

LEMMA ApartStays ==
  ASSUME Apart, NEW p \in Process, NEW v, job' = [job EXCEPT ![p] = v], job \in [Process -> Job],
         Inherits(v, job[p]), minted \in Nat, minted' \in Nat, minted <= minted',
         epoch[Root] \in Nat, epoch'[Root] \in Nat, epoch[Root] <= epoch'[Root]
  PROVE  Apart'
<1>1. job'[p] = v /\ \A q \in Process \ {p} : job'[q] = job[q]
  OBVIOUS
<1>2. \A q \in Process : job'[q].token \in {0, job[q].token} /\ job'[q].epoch \in {0, job[q].epoch}
  BY <1>1 DEF Inherits
<1>3. \A q \in Process : job[q].token \in Nat /\ job[q].epoch \in Nat
  BY JobTypes
<1>4. ASSUME NEW q \in Process PROVE job'[q].token <= minted' /\ job'[q].epoch <= epoch'[Root]
  BY <1>2, <1>3 DEF Apart
<1>5. ASSUME NEW q \in Process, NEW r \in Process, q # r
      PROVE  /\ job'[q].token # 0 => job'[q].token # job'[r].token
             /\ job'[q].epoch # 0 => job'[q].epoch # job'[r].epoch
  BY <1>2, <1>5 DEF Apart
<1>. QED
  BY <1>4, <1>5 DEF Apart

LEMMA ApartClaimed ==
  ASSUME Apart, NEW p \in Process, NEW v, job' = [job EXCEPT ![p] = v], job \in [Process -> Job],
         v.token = minted + 1, v.epoch = epoch[Root] + 1,
         minted \in Nat, epoch[Root] \in Nat, minted' = minted + 1, epoch'[Root] = epoch[Root] + 1
  PROVE  Apart'
<1>1. job'[p] = v /\ \A q \in Process \ {p} : job'[q] = job[q]
  OBVIOUS
<1>2. \A q \in Process \ {p} :
        /\ job[q].token \in Nat /\ job[q].token < v.token
        /\ job[q].epoch \in Nat /\ job[q].epoch < v.epoch
  BY JobTypes DEF Apart
<1>3. ASSUME NEW q \in Process PROVE job'[q].token <= minted' /\ job'[q].epoch <= epoch'[Root]
  BY <1>1, <1>2
<1>4. ASSUME NEW q \in Process, NEW r \in Process, q # r
      PROVE  /\ job'[q].token # 0 => job'[q].token # job'[r].token
             /\ job'[q].epoch # 0 => job'[q].epoch # job'[r].epoch
  <2>1. CASE q = p
    BY <1>1, <1>2, <1>4, <2>1
  <2>2. CASE r = p
    BY <1>1, <1>2, <1>4, <2>2
  <2>3. CASE q # p /\ r # p
    BY <1>1, <1>4, <2>3 DEF Apart
  <2>. QED
    BY <2>1, <2>2, <2>3
<1>. QED
  BY <1>3, <1>4 DEF Apart

\* The stores without the jobs, typed and bound to each other.
Stores ==
  /\ row \in [Call -> Reservation] /\ fence \in Nat /\ said \in [Call -> Records]
  /\ expired \in {"no", "due", "recorded"}
  /\ child \in [Call -> {"running", "announce", "finalize", "repeat", "done"}]
  /\ calls \subseteq Call /\ trouble \in Nat
  /\ LedgerFits /\ LinksAreTrue /\ AccountingIsCanonical /\ OwesNoChild
  /\ \A c \in Call : RowFits(c)

LEMMA Conclude ==
  ASSUME IInv, Stores', NEW p \in Process, NEW v, job' = [job EXCEPT ![p] = v], JobFits(v)',
         Acts(job[p].token, job[p].epoch), Apart'
  PROVE  IInv'
<1>1. job \in [Process -> Job]
  BY DEF IInv, Typed
<1>2. job'[p] = v /\ \A q \in Process \ {p} : job'[q] = job[q]
  BY <1>1
<1>3. JobFits(job[p])'
  BY <1>2
<1>4. ASSUME NEW q \in Process \ {p} PROVE JobFits(job[q])'
  BY <1>2, OthersFit
<1>5. \A q \in Process : JobFits(job[q])'
  BY <1>3, <1>4
<1>6. v \in Job
  BY DEF JobFits, Shape
<1>. QED
  BY <1>1, <1>5, <1>6 DEF IInv, Stores, Typed

-----------------------------------------------------------------------------
(***************************************************************************)
(* The stores, by the kind of step.                                         *)
(***************************************************************************)
OthersTyped ==
  /\ expired \in {"no", "due", "recorded"}
  /\ child \in [Call -> {"running", "announce", "finalize", "repeat", "done"}]
  /\ trouble \in Nat
LEMMA Reflexive == (\A a : Knew(a, a)) /\ (\A a : Saw(a, a)) /\ (\A a : Advances(a, a))
BY DEF Knew, Saw, Advances

LEMMA LedgerLinks ==
  ASSUME Stores, LedgerFits', Steady, UNCHANGED <<row, said, calls>>,
         \A c \in Call : sub[c].state = "absent" /\ sub'[c].state # "absent" => said[c].requested
  PROVE  LinksAreTrue' /\ AccountingIsCanonical'
<1>1. ASSUME NEW c \in Call
      PROVE  /\ said[c].requested => row[c].status # "absent"
             /\ L!Present(c)' => said[c].requested
             /\ said[c].started => L!Present(c)' /\ sub'[c].state # "admitted"
             /\ row[c].child => said[c].started
             /\ said[c].joined # None => sub'[c].state = "settled"
  BY DEF Stores, LinksAreTrue, Steady, Advances, L!Present
<1>2. LinksAreTrue'
  BY <1>1 DEF LinksAreTrue
<1>. QED
  BY <1>2 DEF Stores, AccountingIsCanonical

LEMMA StoresCalm ==
  ASSUME Stores, Calm, UNCHANGED <<row, fence, said, calls>>, OthersTyped', NEW k, NEW e
  PROVE  Stores' /\ Acts(k, e)
<1>1. LinksAreTrue' /\ AccountingIsCanonical'
  BY LedgerLinks DEF Calm, NoBirth
<1>2. OwesNoChild'
  BY DEF Stores, OwesNoChild, Calm, NoEnd
<1>3. \A c \in Call : RowFits(c)'
  BY DEF Stores, RowFits
<1>4. Acts(k, e)
  BY Reflexive DEF Acts, Calm, Steady
<1>. QED
  BY <1>1, <1>2, <1>3, <1>4 DEF Stores, Calm, OthersTyped

LEMMA StoresAdmit ==
  ASSUME Stores, LedgerFits', Steady, NoEnd, UNCHANGED <<row, fence, said, calls>>, OthersTyped',
         NEW c \in Call, \A d \in Call \ {c} : sub'[d] = sub[d], said[c].requested, NEW k, NEW e
  PROVE  Stores' /\ Acts(k, e)
<1>1. LinksAreTrue' /\ AccountingIsCanonical'
  BY LedgerLinks
<1>2. OwesNoChild'
  BY DEF Stores, OwesNoChild, NoEnd
<1>3. \A d \in Call : RowFits(d)'
  BY DEF Stores, RowFits
<1>4. Acts(k, e)
  BY Reflexive DEF Acts, Steady
<1>. QED
  BY <1>1, <1>2, <1>3, <1>4 DEF Stores, OthersTyped

LEMMA StoresEnd ==
  ASSUME Stores, LedgerFits', Steady, NoBirth, UNCHANGED <<row, fence, said, calls>>, OthersTyped',
         NEW o, NEW k, k # 0, L!OwnsLane(Root, k), sub'[Root].reserved.outcome = o,
         o # "aborted" => \A c \in Call : Gone(c),
         o = "completed" => \A c \in calls : said[c].joined # None, NEW e
  PROVE  Stores' /\ Acts(k, e)
<1>1. LinksAreTrue' /\ AccountingIsCanonical'
  BY LedgerLinks DEF NoBirth
<1>2. OwesNoChild'
  BY DEF OwesNoChild, Gone
<1>3. \A d \in Call : RowFits(d)'
  BY DEF Stores, RowFits
<1>4. Acts(k, e)
  BY Reflexive DEF Acts, Steady
<1>. QED
  BY <1>1, <1>2, <1>3, <1>4 DEF Stores, OthersTyped

LEMMA QuietLedger ==
  ASSUME LedgerFits, UNCHANGED ledger
  PROVE  Calm
<1>1. LedgerFits'
  BY DEF LedgerFits, ledger, LP!TypeOK
<1>. QED
  BY <1>1, LedgerTypes DEF Calm, Steady, NoEnd, NoBirth, Advances, ledger, L!OwnsLane, L!Owned

LEMMA StoresSaid ==
  ASSUME Stores, UNCHANGED <<ledger, row, fence, calls>>, OthersTyped',
         NEW c \in Call, NEW s \in Records, said' = [said EXCEPT ![c] = s],
         Knew(said[c], s), s.requested => row[c].status # "absent", s.started => Begun(c),
         s.joined # None => Settled(c),
         NEW k, NEW e, e # 0, fence = e
  PROVE  Stores' /\ Acts(k, e)
<1>0. Calm
  BY QuietLedger DEF Stores
<1>1. said'[c] = s /\ (\A d \in Call \ {c} : said'[d] = said[d]) /\ said' \in [Call -> Records]
  BY DEF Stores
<1>2. \A d \in Call : Knew(said[d], said'[d])
  BY <1>1, Reflexive
<1>3. sub' = sub /\ row' = row
  BY DEF ledger
<1>4. ASSUME NEW d \in Call
      PROVE  /\ said'[d].requested => row[d].status # "absent"
             /\ L!Present(d) => said'[d].requested
             /\ said'[d].started => L!Present(d) /\ sub[d].state # "admitted"
             /\ row[d].child => said'[d].started
             /\ said'[d].joined # None => sub[d].state = "settled"
             /\ row[d].accounting \notin {None, "zero"} => said'[d].joined = row[d].accounting
  <2>1. CASE d = c
    <3>1. /\ L!Present(d) => said[d].requested
          /\ row[d].child => said[d].started
          /\ row[d].accounting \notin {None, "zero"} => said[d].joined = row[d].accounting
      BY DEF Stores, LinksAreTrue, AccountingIsCanonical
    <3>. QED
      BY <1>1, <2>1, <3>1 DEF Knew, Begun, Settled
  <2>2. CASE d # c
    BY <1>1, <2>2 DEF Stores, LinksAreTrue, AccountingIsCanonical
  <2>. QED
    BY <2>1, <2>2
<1>5. LinksAreTrue'
  BY <1>3, <1>4 DEF LinksAreTrue, L!Present
<1>6. AccountingIsCanonical'
  BY <1>3, <1>4 DEF AccountingIsCanonical
<1>7. OwesNoChild'
  <2>1. calls' = calls /\ calls \subseteq Call
    BY DEF Stores
  <2>. QED
    BY <1>2, <1>3, <2>1 DEF Stores, OwesNoChild, Knew
<1>8. \A d \in Call : RowFits(d)'
  BY <1>3 DEF Stores, RowFits
<1>9. Acts(k, e)
  BY <1>0, <1>2, <1>3, Reflexive DEF Acts, Calm, Steady
<1>. QED
  BY <1>0, <1>1, <1>5, <1>6, <1>7, <1>8, <1>9 DEF Stores, Calm, OthersTyped

LEMMA StoresRow ==
  ASSUME Stores, UNCHANGED <<ledger, said, fence, calls>>, OthersTyped',
         NEW c \in Call, NEW r \in Reservation, row' = [row EXCEPT ![c] = r],
         Saw(row[c], r),
         r.status \in {"absent", "reserved"} <=> r.accounting = None,
         r.status # "absent",
         r.child => said[c].started,
         r.accounting \notin {None, "zero"} => said[c].joined = r.accounting,
         NEW k, NEW e,
         \/ row[c].status # "absent" /\ (Gone(c) => r.status = "released")
         \/ k # 0 /\ L!OwnsLane(Root, k) /\ sub[Root].reserved = None
  PROVE  Stores' /\ Acts(k, e)
<1>0. Calm
  BY QuietLedger DEF Stores
<1>1. row'[c] = r /\ (\A d \in Call \ {c} : row'[d] = row[d]) /\ row' \in [Call -> Reservation]
  BY DEF Stores
<1>2. \A d \in Call : Saw(row[d], row'[d])
  BY <1>1, Reflexive
<1>3. sub' = sub /\ said' = said
  BY DEF ledger
<1>4. ASSUME NEW d \in Call
      PROVE  /\ said[d].requested => row'[d].status # "absent"
             /\ row'[d].child => said[d].started
             /\ row'[d].accounting \notin {None, "zero"} => said[d].joined = row'[d].accounting
             /\ RowFits(d)'
  <2>1. CASE d = c
    BY <1>1, <2>1 DEF RowFits
  <2>2. CASE d # c
    BY <1>1, <2>2 DEF Stores, LinksAreTrue, AccountingIsCanonical, RowFits
  <2>. QED
    BY <2>1, <2>2
<1>5. LinksAreTrue'
  BY <1>3, <1>4 DEF LinksAreTrue, L!Present, Stores
<1>6. AccountingIsCanonical'
  BY <1>3, <1>4 DEF AccountingIsCanonical
<1>7. OwesNoChild'
  <2>1. CASE sub[Root].reserved = None
    BY <1>3, <2>1 DEF OwesNoChild
  <2>2. CASE row[c].status # "absent" /\ (Gone(c) => r.status = "released")
    <3>1. \A d \in Call : Gone(d) => row'[d].status \in {"absent", "released"}
      BY <1>1, <2>2 DEF Gone
    <3>. QED
      BY <1>3, <3>1 DEF Stores, OwesNoChild, Gone
  <2>. QED
    BY <2>1, <2>2
<1>8. Acts(k, e)
  <2>1. \/ \A d \in Call : row[d].status = "absent" => row'[d].status = "absent"
        \/ k # 0 /\ L!OwnsLane(Root, k)
    BY <1>1
  <2>. QED
    BY <1>0, <1>2, <1>3, <2>1, Reflexive DEF Acts, Calm, Steady
<1>. QED
  BY <1>0, <1>1, <1>4, <1>5, <1>6, <1>7, <1>8 DEF Stores, Calm, OthersTyped

LEMMA StoresAttach ==
  ASSUME Stores, UNCHANGED <<ledger, row, said, calls>>, OthersTyped', NEW k, NEW e, e # 0,
         e \in Nat,
         fence' = e
  PROVE  Stores' /\ Acts(k, e)
<1>0. Calm
  BY QuietLedger DEF Stores
<1>1. LinksAreTrue' /\ AccountingIsCanonical'
  BY <1>0, LedgerLinks DEF Calm, NoBirth
<1>2. OwesNoChild'
  BY <1>0 DEF Stores, OwesNoChild, Calm, NoEnd
<1>3. \A c \in Call : RowFits(c)'
  BY DEF Stores, RowFits
<1>4. Acts(k, e)
  BY <1>0, Reflexive DEF Acts, Calm, Steady
<1>. QED
  BY <1>0, <1>1, <1>2, <1>3, <1>4 DEF Stores, Calm, OthersTyped

-----------------------------------------------------------------------------
(***************************************************************************)
(* Steps of a process that change no store, or only the ledger.              *)
(***************************************************************************)
LEMMA HasStores ==
  ASSUME IInv
  PROVE  /\ Stores /\ Typed /\ Bonds /\ LedgerFits /\ Apart /\ OthersTyped
         /\ job \in [Process -> Job] /\ minted \in Nat /\ epoch[Root] \in Nat
         /\ \A p \in Process : JobFits(job[p])
  BY LedgerTypes DEF IInv, Stores, Typed, Bonds, OthersTyped

LEMMA CalmStep ==
  ASSUME IInv, Calm, UNCHANGED <<row, fence, said, calls>>, OthersTyped', NEW p \in Process,
         NEW v, job' = [job EXCEPT ![p] = v], JobFits(v), Inherits(v, job[p])
  PROVE  IInv'
<1>1. Stores' /\ Acts(job[p].token, job[p].epoch) /\ Acts(0, 0)
  BY HasStores, StoresCalm
<1>2. v.token \in 0..minted
  <2>1. job[p].token \in 0..minted
    BY HasStores, JobTypes DEF Apart
  <2>. QED
    BY <2>1, HasStores DEF Inherits
<1>3. Around(v)
  BY <1>1, <1>2, ActsAround
<1>4. JobFits(v)'
  BY <1>3, HasStores, StaysFit
<1>5. Apart'
  <2>1. minted' \in Nat /\ minted <= minted' /\ epoch[Root] <= epoch'[Root]
    BY DEF Calm, Steady
  <2>2. epoch'[Root] \in Nat
    BY Calls DEF Calm, LedgerFits, LP!TypeOK
  <2>. QED
    BY <2>1, <2>2, HasStores, ApartStays
<1>. QED
  BY <1>1, <1>4, <1>5, Conclude

LEMMA QuietStep ==
  ASSUME IInv, NEW p \in Process, NEW v, Only(p, v), JobFits(v), Inherits(v, job[p])
  PROVE  IInv'
<1>1. /\ UNCHANGED ledger /\ UNCHANGED <<row, fence, said, calls>>
      /\ OthersTyped' /\ job' = [job EXCEPT ![p] = v]
  BY HasStores DEF Only, Set, canon, outside, OthersTyped
<1>. QED
  BY <1>1, HasStores, QuietLedger, CalmStep

LEMMA QuitStep ==
  ASSUME IInv, NEW p \in Process, Quit(p)
  PROVE  IInv'
<1>1. PICK v : v = Done(job[p])
  OBVIOUS
<1>2. job[p] \in Job
  BY HasStores
<1>3. JobFits(v) /\ Inherits(v, job[p])
  BY <1>1, <1>2, DoneFits DEF Inherits
<1>. QED
  BY <1>1, <1>3, QuietStep DEF Quit

LEMMA ToldStep ==
  ASSUME IInv, NEW p \in Process, NEW v, Set(p, v), UNCHANGED <<row, canon, outside>>, Calm,
         JobFits(v), Inherits(v, job[p])
  PROVE  IInv'
<1>1. /\ UNCHANGED <<row, fence, said, calls>>
      /\ OthersTyped' /\ job' = [job EXCEPT ![p] = v]
  BY HasStores DEF Set, canon, outside, OthersTyped
<1>. QED
  BY <1>1, CalmStep

LEMMA EnvStep ==
  ASSUME IInv, Calm, UNCHANGED <<row, fence, said, calls, job>>, OthersTyped'
  PROVE  IInv'
<1>1. Stores' /\ Acts(0, 0)
  BY HasStores, StoresCalm
<1>2. ASSUME NEW q \in Process PROVE JobFits(job[q])'
  <2>1. PICK v : v = job[q]
    OBVIOUS
  <2>2. v.token \in 0..minted /\ JobFits(v)
    BY <2>1, HasStores, JobTypes DEF Apart
  <2>3. Around(v)
    BY <1>1, <2>2, ActsAround
  <2>4. JobFits(v)'
    BY <2>2, <2>3, HasStores, StaysFit
  <2>. QED
    BY <2>1, <2>4
<1>3. Apart'
  <2>1. minted' \in Nat /\ minted <= minted' /\ epoch[Root] <= epoch'[Root]
    BY DEF Calm, Steady
  <2>2. epoch'[Root] \in Nat
    BY Calls DEF Calm, LedgerFits, LP!TypeOK
  <2>3. \A q \in Process : job[q].token \in Nat /\ job[q].epoch \in Nat
    BY HasStores, JobTypes
  <2>. QED
    BY <2>1, <2>2, <2>3, HasStores DEF Apart
<1>. QED
  BY <1>1, <1>2, <1>3, HasStores DEF IInv, Stores, Typed

\* The next position of the same Call.
LEMMA NextPosition ==
  ASSUME NEW j, JobFits(j), j.at \in Going, NEW v, v \in Job, Same(v, j), v.at \in Going,
         Staged(v), v.doing # "link" \/ v.at \notin {"start", "link"} \/ (v.epoch # 0
         /\ v.token # 0)
  PROVE  /\ Shape(v) /\ Carried(v) /\ Poised(v) /\ Walks(v)
         /\ Due(v) => JobFits(v)
         /\ Inherits(v, j)
<1>0. Shape(j) /\ Walks(j) /\ Carried(j)
  BY WalksFor DEF JobFits
<1>1. Shape(v)
  BY <1>0 DEF Shape, Staged, Ends, Claims, Walks, Going, Same
<1>2. Carried(v)
  <2>1. Informed(v) /\ Unjoined(v) /\ Undecided(v) /\ Swept(v) /\ Through(v)
    BY <1>0 DEF Carried, Informed, Unjoined, Undecided, Swept, Through, Mine, Same
  <2>2. Chosen(v)
    BY <1>0 DEF Carried, Chosen, Same
  <2>. QED
    BY <2>1, <2>2 DEF Carried
<1>3. Poised(v) /\ Walks(v)
  BY DEF Poised, Walks, Going
<1>. QED
  BY <1>1, <1>2, <1>3 DEF JobFits, Inherits, Same

LEMMA GoesOn ==
  ASSUME IInv, NEW p \in Process, NEW v, v.at \in Going, Shape(v), Carried(v), Around(v), Due(v)',
         job' = [job EXCEPT ![p] = v], Inherits(v, job[p]), minted' = minted, epoch' = epoch,
         Stores', Acts(job[p].token, job[p].epoch)
  PROVE  IInv'
<1>1. v \in Job /\ Walks(v)
  BY WalksFor
<1>2. Carried(v)' /\ Shape(v)'
  BY <1>1, HasStores, StaysCarried DEF Shape
<1>3. Poised(v)'
  BY DEF Poised, Going
<1>4. JobFits(v)'
  BY <1>2, <1>3 DEF JobFits
<1>6. Apart'
  <2>1. /\ minted \in Nat /\ minted' \in Nat /\ minted <= minted'
        /\ epoch[Root] \in Nat /\ epoch'[Root] \in Nat /\ epoch[Root] <= epoch'[Root]
    BY HasStores
  <2>. QED
    BY <2>1, HasStores, ApartStays
<1>. QED
  BY <1>4, <1>6, Conclude

\* A step of a process that takes no claim and disturbs nobody.
Writes(p, v) ==
  /\ Stores' /\ Acts(0, 0) /\ Acts(job[p].token, job[p].epoch)
  /\ minted' = minted /\ epoch' = epoch /\ job' = [job EXCEPT ![p] = v]

LEMMA WriteStep ==
  ASSUME IInv, NEW p \in Process, NEW v, job' = [job EXCEPT ![p] = v], Inherits(v, job[p]),
         minted' = minted, epoch' = epoch, Stores', Acts(job[p].token, job[p].epoch), JobFits(v)'
  PROVE  IInv'
<1>2. Apart'
  <2>1. /\ minted \in Nat /\ minted' \in Nat /\ minted <= minted'
        /\ epoch[Root] \in Nat /\ epoch'[Root] \in Nat /\ epoch[Root] <= epoch'[Root]
    BY HasStores
  <2>. QED
    BY <2>1, HasStores, ApartStays
<1>. QED
  BY <1>2, Conclude

LEMMA OnlyWrites ==
  ASSUME IInv, NEW p \in Process, NEW v, Only(p, v)
  PROVE  Writes(p, v) /\ row' = row /\ said' = said /\ UNCHANGED ledger
<1>1. /\ UNCHANGED ledger /\ UNCHANGED <<row, fence, said, calls>>
      /\ OthersTyped' /\ job' = [job EXCEPT ![p] = v]
  BY HasStores DEF Only, Set, canon, outside, OthersTyped
<1>2. Calm
  BY <1>1, HasStores, QuietLedger
<1>3. \A k, e : Stores' /\ Acts(k, e)
  BY <1>1, <1>2, HasStores, StoresCalm
<1>. QED
  BY <1>1, <1>3 DEF Writes, ledger

\* A process itself sees nothing else change when it writes.
LEMMA OwnAround ==
  ASSUME IInv, NEW p \in Process, NEW j, j.token = job[p].token, Acts(0, 0)
  PROVE  Around(j)
<1>1. job[p].token \in 0..minted
  BY HasStores, JobTypes DEF Apart
<1>2. j.token \in 0..minted
  BY <1>1
<1>. QED
  BY <1>2, ActsAround

LEMMA WritePosition ==
  ASSUME IInv, NEW p \in Process, NEW j, j = job[p], j.at \in Going, NEW v, Writes(p, v),
         v \in Job, Same(v, j), v.at \in Going, Staged(v),
         v.doing # "link" \/ v.at \notin {"start", "link"} \/ (v.epoch # 0 /\ v.token # 0),
         Due(v)'
  PROVE  IInv'
<1>1. JobFits(j)
  BY HasStores
<1>2. Shape(v) /\ Carried(v) /\ Inherits(v, j)
  BY <1>1, NextPosition
<1>3. Around(v)
  BY OwnAround DEF Writes, Same
<1>. QED
  BY <1>2, <1>3, GoesOn DEF Writes

OnwardAlways ==
  \A j, v : v = Onward(j) /\ Bonds /\ JobFits(j) /\ j.at \in Going /\ Behind(j) =>
              JobFits(v) /\ Inherits(v, j)
LEMMA OnwardNow == OnwardAlways
  BY OnwardFits DEF OnwardAlways
LEMMA OnwardLater == OnwardAlways'
  BY OnwardNow, PTL

LEMMA WriteOnward ==
  ASSUME IInv, NEW p \in Process, NEW j, j = job[p], j.at \in Going, NEW v, v = Onward(j),
         Writes(p, v), Behind(j)'
  PROVE  IInv'
<1>1. JobFits(j)
  BY HasStores
<1>2. Around(j)
  BY OwnAround DEF Writes
<1>3. JobFits(j)'
  BY <1>1, <1>2, HasStores, StaysFit
<1>4. Bonds'
  BY DEF Writes, Stores, Bonds
<1>5. JobFits(v)' /\ Inherits(v, j)
  BY <1>3, <1>4, OnwardLater DEF OnwardAlways
<1>. QED
  BY <1>5, WriteStep DEF Writes

LEMMA WriteDone ==
  ASSUME IInv, NEW p \in Process, NEW v, v = Done(job[p]), Writes(p, v)
  PROVE  IInv'
<1>1. job[p] \in Job
  BY HasStores
<1>2. JobFits(v) /\ Inherits(v, job[p])
  BY <1>1, DoneFits DEF Inherits
<1>3. Around(v)
  <2>1. v.token \in 0..minted
    <3>1. job[p].token \in 0..minted
      BY HasStores, JobTypes DEF Apart
    <3>. QED
      BY <3>1, <1>2, HasStores DEF Inherits
  <2>. QED
    BY <2>1, ActsAround DEF Writes
<1>4. JobFits(v)'
  BY <1>2, <1>3, HasStores, StaysFit
<1>. QED
  BY <1>2, <1>4, WriteStep DEF Writes

-----------------------------------------------------------------------------
(***************************************************************************)
(* The operations on a reservation row.                                     *)
(***************************************************************************)
\* What is known of a process that deals with a Call.
LEMMA Dealing ==
  ASSUME IInv, NEW p \in Process, NEW j, j = job[p], j.at \in Going
  PROVE  /\ JobFits(j) /\ Shape(j) /\ Walks(j) /\ Carried(j) /\ Due(j) /\ j \in Job
         /\ j.c \in j.todo /\ j.c \in Call /\ RowFits(j.c) /\ row[j.c] \in Reservation
         /\ said[j.c] \in Records
         /\ j.doing \in {"run", "abort", "expire", "account"} => j.token # 0 /\ j.epoch # 0
<1>1. JobFits(j)
  BY HasStores
<1>2. Shape(j) /\ Walks(j) /\ j.c \in j.todo /\ j.c \in Call /\ j \in Job
  BY <1>1, WalksFor DEF JobFits
<1>3. Carried(j) /\ Due(j)
  BY <1>1, <1>2 DEF JobFits
<1>4. RowFits(j.c) /\ row[j.c] \in Reservation /\ said[j.c] \in Records
  BY <1>2, HasStores DEF IInv, Typed
<1>5. j.doing \in {"run", "abort", "expire", "account"} => j.token # 0 /\ j.epoch # 0
  BY <1>2, WalksFor
<1>. QED
  BY <1>1, <1>2, <1>3, <1>4, <1>5

\* A Call that is joined, or was read with a row, has a row.
LEMMA HasRow ==
  ASSUME IInv, NEW c \in Call, said[c].joined # None \/ said[c].requested
  PROVE  row[c].status # "absent"
<1>1. LinksAreTrue
  BY DEF IInv
<1>2. said[c].joined # None => L!Present(c)
  BY <1>1, SameLedger DEF LinksAreTrue, LP!Present
<1>. QED
  BY <1>1, <1>2 DEF LinksAreTrue

\* A present row is written.
LEMMA WritesRow ==
  ASSUME IInv, NEW p \in Process, NEW v, NEW c \in Call, NEW r \in Reservation,
         row' = [row EXCEPT ![c] = r], Set(p, v), UNCHANGED <<ledger, canon, outside>>,
         row[c].status # "absent", Saw(row[c], r), Gone(c) => r.status = "released",
         r.status \in {"absent", "reserved"} <=> r.accounting = None,
         r.status # "absent",
         r.child => said[c].started,
         r.accounting \notin {None, "zero"} => said[c].joined = r.accounting
  PROVE  Writes(p, v) /\ said' = said /\ row'[c] = r /\ UNCHANGED ledger
<1>1. /\ UNCHANGED ledger /\ UNCHANGED <<said, fence, calls>>
      /\ OthersTyped' /\ job' = [job EXCEPT ![p] = v]
  BY HasStores DEF Set, canon, outside, OthersTyped
<1>2. \A k, e : Stores' /\ Acts(k, e)
  <2>. TAKE k, e
  <2>. QED
    BY <1>1, HasStores, StoresRow
<1>3. row'[c] = r
  BY HasStores DEF Stores
<1>. QED
  BY <1>1, <1>2, <1>3 DEF Writes, ledger

LEMMA LinkStep ==
  ASSUME IInv, NEW p \in Process, Link(p)
  PROVE  IInv'
<1>. PICK j : j = job[p]
  OBVIOUS
<1>. PICK v : v = AfterLink(j)
  OBVIOUS
<1>1. j.at = "link" /\ j.at \in Going
  BY DEF Link, Going
<1>2. /\ JobFits(j) /\ Shape(j) /\ Walks(j) /\ Carried(j) /\ Due(j) /\ j \in Job
      /\ j.c \in Call /\ RowFits(j.c) /\ row[j.c] \in Reservation
  BY <1>1, Dealing
<1>3. ASSUME Writes(p, v), said' = said, UNCHANGED ledger PROVE IInv'
  <2>1. CASE j.doing = "run"
    <3>1. v = [j EXCEPT !.at = "lookup"] /\ "lookup" \in Position
      BY <2>1 DEF AfterLink, Position
    <3>2. v \in Job /\ v.at = "lookup" /\ v.money = j.money /\ Same(v, j)
      BY <1>2, <3>1, Step1
    <3>3. Staged(v) /\ v.doing = "run" /\ v.at \in Going
      BY <2>1, <3>2 DEF Staged, Same, Going
    <3>4. Due(v)'
      BY <1>1, <1>2, <3>2, <3>3 DEF Due, Same, Going
    <3>. QED
      BY <1>1, <1>3, <3>2, <3>3, <3>4, WritePosition
  <2>2. CASE j.doing = "expire" /\ j.money # None
    <3>1. v = [j EXCEPT !.at = "join"] /\ "join" \in Position
      BY <2>2 DEF AfterLink, Position
    <3>2. v \in Job /\ v.at = "join" /\ v.money = j.money /\ Same(v, j)
      BY <1>2, <3>1, Step1
    <3>3. Staged(v) /\ v.doing = "expire" /\ v.at \in Going
      BY <2>2, <3>2 DEF Staged, Same, Going
    <3>4. Due(v)'
      <4>1. Settled(v.c)' /\ v.money = "conservative"
        BY <1>1, <1>2, <1>3, <2>2, <3>2 DEF Due, Same, Settled, ledger
      <4>2. v.knows[v.c].joined = None
        BY <1>1, <1>2, <2>2, <3>2 DEF Due, Same, Going
      <4>. QED
        BY <3>2, <3>3, <4>1, <4>2 DEF Due
    <3>. QED
      BY <1>1, <1>3, <3>2, <3>3, <3>4, WritePosition
  <2>3. CASE j.doing # "run" /\ ~(j.doing = "expire" /\ j.money # None)
    <3>1. v = Onward(j)
      BY <2>3 DEF AfterLink
    <3>2. j.doing # "account"
      BY <1>1, <1>2 DEF Shape, Staged
    <3>3. Behind(j)'
      BY <2>3, <3>2 DEF Behind
    <3>. QED
      BY <1>1, <1>3, <3>1, <3>3, WriteOnward
  <2>. QED
    BY <2>1, <2>2, <2>3
<1>4. CASE /\ ~row[j.c].child /\ row[j.c].status = "reserved"
           /\ row' = [row EXCEPT ![j.c].child = TRUE]
           /\ Set(p, AfterLink(j))
           /\ UNCHANGED <<ledger, canon, outside>>
  <2>. PICK r : r = [row[j.c] EXCEPT !.child = TRUE]
    OBVIOUS
  <2>1. r \in Reservation /\ r.child /\ r.status = row[j.c].status
        /\ r.accounting = row[j.c].accounting
    BY <1>2 DEF Reservation
  <2>2. row' = [row EXCEPT ![j.c] = r]
    BY <1>4
  <2>3. said[j.c].started
    BY <1>1, <1>2 DEF Due
  <2>4. r.accounting = None
    BY <1>2, <1>4, <2>1 DEF RowFits
  <2>5. Saw(row[j.c], r) /\ ~Gone(j.c)
    BY <1>4, <2>1 DEF Saw, Gone, Closed
  <2>. QED
    <3>1. r.status \in {"absent", "reserved"} <=> r.accounting = None
      BY <1>4, <2>1, <2>4
    <3>2. r.status # "absent" /\ row[j.c].status # "absent"
      BY <1>4, <2>1
    <3>3. Writes(p, v) /\ said' = said /\ UNCHANGED ledger
      BY <1>2, <1>4, <2>1, <2>2, <2>3, <2>4, <2>5, <3>1, <3>2, WritesRow
    <3>. QED
      BY <1>3, <3>3
<1>5. CASE Only(p, AfterLink(j))
  BY <1>3, <1>5, OnlyWrites
<1>6. CASE Quit(p)
  BY <1>6, QuitStep
<1>. QED
  BY <1>4, <1>5, <1>6 DEF Link

LEMMA FreezeStep ==
  ASSUME IInv, NEW p \in Process, Freeze(p)
  PROVE  IInv'
<1>. PICK j : j = job[p]
  OBVIOUS
<1>. PICK v : v = [j EXCEPT !.at = "free"]
  OBVIOUS
<1>1. j.at = "freeze" /\ j.at \in Going /\ "free" \in Position
  BY DEF Freeze, Going, Position
<1>2. /\ JobFits(j) /\ Shape(j) /\ Walks(j) /\ Carried(j) /\ Due(j) /\ j \in Job
      /\ j.c \in Call /\ RowFits(j.c) /\ row[j.c] \in Reservation /\ j.c \in j.todo
  BY <1>1, Dealing
<1>3. v \in Job /\ v.at = "free" /\ v.money = j.money /\ Same(v, j)
  BY <1>1, <1>2, Step1
<1>4. Staged(v) /\ v.at \in Going
  BY <1>1, <1>2, <1>3 DEF Shape, Staged, Same, Going
<1>5. j.money # None /\ (j.money = "zero" \/ said[j.c].joined = j.money)
  BY <1>1, <1>2 DEF Due
<1>6. ASSUME Writes(p, v), said' = said, row'[j.c].status \in Closed PROVE IInv'
  <2>1. Due(v)'
    BY <1>1, <1>2, <1>3, <1>6 DEF Due, Same, Going
  <2>. QED
    BY <1>1, <1>3, <1>4, <1>6, <2>1, WritePosition
<1>7. CASE /\ row[j.c].status = "reserved"
           /\ row' = [row EXCEPT ![j.c].status = "releasePending", ![j.c].accounting = j.money]
           /\ Set(p, v)
           /\ UNCHANGED <<ledger, canon, outside>>
  <2>. PICK r : r = [row[j.c] EXCEPT !.status = "releasePending", !.accounting = j.money]
    OBVIOUS
  <2>0. j.money \in Accounting
    BY <1>2, <1>5, JobTypes
  <2>1. r \in Reservation /\ r.child = row[j.c].child /\ r.status = "releasePending"
        /\ r.accounting = j.money
    BY <1>2, <2>0 DEF Reservation
  <2>2. row' = [row EXCEPT ![j.c] = r]
    <3>1. row \in [Call -> Reservation]
      BY HasStores DEF Stores
    <3>. QED
      BY <1>2, <1>7, <3>1
  <2>3. r.child => said[j.c].started
    BY <1>2, <2>1 DEF IInv, LinksAreTrue
  <2>4. r.accounting # None /\ r.accounting \in {"zero", said[j.c].joined}
    BY <1>5, <2>1
  <2>5. Saw(row[j.c], r) /\ ~Gone(j.c)
    BY <1>7, <2>1 DEF Saw, Gone, Closed
  <2>6. Writes(p, v) /\ said' = said /\ row'[j.c] = r
    <3>1. r.status \in {"absent", "reserved"} <=> r.accounting = None
      BY <2>1, <2>4
    <3>2. r.status # "absent" /\ row[j.c].status # "absent"
      BY <1>7, <2>1
    <3>3. r.accounting \notin {None, "zero"} => said[j.c].joined = r.accounting
      BY <2>4
    <3>4. Set(p, v) /\ UNCHANGED <<ledger, canon, outside>> /\ j.c \in Call /\ r \in Reservation
      BY <1>2, <1>7, <2>1
    <3>5. Writes(p, v) /\ said' = said
      BY <2>2, <2>3, <2>5, <3>1, <3>2, <3>3, <3>4, WritesRow
    <3>6. row'[j.c] = r
      BY <1>2, <2>2, HasStores DEF Stores
    <3>. QED
      BY <3>5, <3>6
  <2>. QED
    BY <1>6, <2>1, <2>6 DEF Closed
<1>8. CASE row[j.c].status # "reserved" /\ Only(p, v)
  <2>1. row[j.c].status # "absent"
    <3>1. CASE j.doing = "run"
      BY <1>1, <1>2, <3>1, HasRow DEF Due
    <3>2. CASE j.doing # "run"
      <4>1. j.doing \in {"abort", "expire", "account", "apply", "orphan"}
        BY <1>1, <1>2, <3>2, WalksFor DEF Shape, Staged
      <4>2. CASE j.doing = "orphan"
        BY <1>2, <4>2 DEF Carried, Chosen
      <4>3. CASE j.doing # "orphan"
        <5>1. j.rows[j.c].status # "absent"
          BY <1>2, <4>1, <4>3 DEF Carried, Chosen
        <5>2. Saw(j.rows[j.c], row[j.c])
          BY <1>2 DEF Carried, Informed
        <5>. QED
          BY <5>1, <5>2 DEF Saw
      <4>. QED
        BY <4>2, <4>3
    <3>. QED
      BY <3>1, <3>2
  <2>2. row[j.c].status \in Closed
    BY <1>2, <1>8, <2>1 DEF Reservation, Closed
  <2>. QED
    BY <1>6, <1>8, <2>2, OnlyWrites
<1>9. CASE Quit(p)
  BY <1>9, QuitStep
<1>. QED
  BY <1>7, <1>8, <1>9 DEF Freeze

LEMMA FreeStep ==
  ASSUME IInv, NEW p \in Process, Free(p)
  PROVE  IInv'
<1>. PICK j : j = job[p]
  OBVIOUS
<1>. PICK v : v = IF Hidden(j) THEN Done(j) ELSE Onward(j)
  OBVIOUS
<1>1. j.at = "free" /\ j.at \in Going
  BY DEF Free, Going
<1>2. /\ JobFits(j) /\ Shape(j) /\ Walks(j) /\ Carried(j) /\ Due(j) /\ j \in Job
      /\ j.c \in Call /\ RowFits(j.c) /\ row[j.c] \in Reservation /\ j.c \in j.todo
  BY <1>1, Dealing
<1>3. ASSUME Writes(p, v), said' = said, row'[j.c].status = "released" PROVE IInv'
  <2>1. CASE Hidden(j)
    BY <1>3, <2>1, WriteDone
  <2>2. CASE ~Hidden(j)
    <3>1. Behind(j)'
      BY <1>1, <1>2, <1>3 DEF Behind, Gone, Due
    <3>. QED
      BY <1>1, <1>3, <2>2, <3>1, WriteOnward
  <2>. QED
    BY <2>1, <2>2
<1>4. CASE /\ row[j.c].status = "releasePending"
           /\ row' = [row EXCEPT ![j.c].status = "released"]
           /\ Set(p, v) /\ UNCHANGED <<ledger, canon, outside>>
  <2>. PICK r : r = [row[j.c] EXCEPT !.status = "released"]
    OBVIOUS
  <2>1. r \in Reservation /\ r.child = row[j.c].child /\ r.status = "released"
        /\ r.accounting = row[j.c].accounting
    BY <1>2 DEF Reservation
  <2>2. row' = [row EXCEPT ![j.c] = r]
    BY <1>4
  <2>3. r.child => said[j.c].started
    BY <1>2, <2>1 DEF IInv, LinksAreTrue
  <2>4. r.accounting # None
    BY <1>2, <1>4, <2>1 DEF RowFits
  <2>5. r.accounting \notin {None, "zero"} => said[j.c].joined = r.accounting
    BY <1>2, <2>1 DEF IInv, AccountingIsCanonical
  <2>6. Saw(row[j.c], r)
    BY <1>4, <2>1 DEF Saw, Closed
  <2>7. Writes(p, v) /\ said' = said /\ row'[j.c] = r
    <3>1. r.status \in {"absent", "reserved"} <=> r.accounting = None
      BY <2>1, <2>4
    <3>2. r.status # "absent" /\ row[j.c].status # "absent"
      BY <1>4, <2>1
    <3>3. Gone(j.c) => r.status = "released"
      BY <2>1
    <3>4. Set(p, v) /\ UNCHANGED <<ledger, canon, outside>> /\ j.c \in Call /\ r \in Reservation
      BY <1>2, <1>4, <2>1
    <3>5. Writes(p, v) /\ said' = said
      BY <2>2, <2>3, <2>5, <2>6, <3>1, <3>2, <3>3, <3>4, WritesRow, ZenonT(60)
    <3>6. row'[j.c] = r
      BY <1>2, <2>2, HasStores DEF Stores
    <3>. QED
      BY <3>5, <3>6
  <2>. QED
    BY <1>3, <2>1, <2>7
<1>5. CASE row[j.c].status = "released" /\ Only(p, v)
  BY <1>3, <1>5, OnlyWrites
<1>. QED
  BY <1>4, <1>5 DEF Free

LEMMA ReserveStep ==
  ASSUME IInv, NEW p \in Process, Reserve(p)
  PROVE  IInv'
<1>. PICK j : j = job[p]
  OBVIOUS
<1>. PICK v : v = [j EXCEPT !.at = "request"]
  OBVIOUS
<1>1. j.at = "reserve" /\ j.at \in Going /\ "request" \in Position
  BY DEF Reserve, Going, Position
<1>2. /\ JobFits(j) /\ Shape(j) /\ Walks(j) /\ Carried(j) /\ Due(j) /\ j \in Job
      /\ j.c \in Call /\ RowFits(j.c) /\ row[j.c] \in Reservation /\ j.c \in j.todo
      /\ j.doing \in {"run", "abort", "expire", "account"} => j.token # 0 /\ j.epoch # 0
  BY <1>1, Dealing
<1>3. v \in Job /\ v.at = "request" /\ v.money = j.money /\ Same(v, j)
  BY <1>1, <1>2, Step1
<1>4. j.doing = "run"
  BY <1>1, <1>2, WalksFor DEF Shape, Staged
<1>5. Staged(v) /\ v.at \in Going
  BY <1>3, <1>4 DEF Staged, Same, Going
<1>6. v.knows[v.c].joined = None
  BY <1>1, <1>2, <1>3, <1>4 DEF Due, Same, Going
<1>7. CASE /\ row[j.c].status = "absent" /\ Owns(p)
           /\ row' = [row EXCEPT ![j.c].status = "reserved"]
           /\ Set(p, v)
           /\ UNCHANGED <<ledger, canon, outside>>
  <2>. PICK r : r = [row[j.c] EXCEPT !.status = "reserved"]
    OBVIOUS
  <2>1. r \in Reservation /\ r.child = row[j.c].child /\ r.status = "reserved"
        /\ r.accounting = row[j.c].accounting
    BY <1>2 DEF Reservation
  <2>2. row' = [row EXCEPT ![j.c] = r] /\ row'[j.c] = r
    BY <1>2, <1>7, HasStores DEF Stores
  <2>3. ~r.child /\ r.accounting = None
    BY <1>2, <1>7, <2>1 DEF RowFits
  <2>4. Saw(row[j.c], r)
    BY <1>7, <2>1, <2>3 DEF Saw, Closed
  <2>5. L!OwnsLane(Root, j.token) /\ j.token # 0 /\ sub[Root].reserved = None
    BY <1>2, <1>4, <1>7 DEF Owns, Mine, Carried, Undecided
  <2>6. /\ UNCHANGED ledger /\ UNCHANGED <<said, fence, calls>>
        /\ OthersTyped' /\ job' = [job EXCEPT ![p] = v]
    BY <1>7, HasStores DEF Set, canon, outside, OthersTyped
  <2>7. Stores' /\ Acts(j.token, j.epoch)
    <3>1. r.status \in {"absent", "reserved"} <=> r.accounting = None
      BY <2>1, <2>3
    <3>2. r.status # "absent"
      BY <2>1
    <3>. QED
      BY <1>2, <2>1, <2>2, <2>3, <2>4, <2>5, <2>6, <3>1, <3>2, HasStores, StoresRow
  <2>8. Around(v)
    <3>1. v.token \in 0..minted
      BY <1>2, <1>3, HasStores, JobTypes DEF Apart, Same
    <3>2. sub' = sub /\ v.doing = "run"
      BY <1>3, <1>4, <2>6 DEF ledger, Same
    <3>. QED
      BY <2>6, <2>7, <3>1, <3>2 DEF Acts, Around
  <2>9. Shape(v) /\ Carried(v) /\ Inherits(v, j)
    BY <1>1, <1>2, <1>3, <1>4, <1>5, NextPosition, ZenonT(60) DEF Same
  <2>10. Due(v)'
    BY <1>3, <1>4, <1>6, <2>1, <2>2 DEF Due, Same
  <2>. QED
    BY <1>3, <1>5, <2>6, <2>7, <2>8, <2>9, <2>10, GoesOn, ZenonT(60) DEF ledger
<1>8. CASE row[j.c].status # "absent" /\ Only(p, v)
  <2>1. Writes(p, v) /\ row' = row
    BY <1>8, OnlyWrites
  <2>2. Due(v)'
    BY <1>3, <1>4, <1>6, <1>8, <2>1 DEF Due, Same
  <2>. QED
    BY <1>1, <1>3, <1>4, <1>5, <2>1, <2>2, WritePosition, ZenonT(60) DEF Same
<1>9. CASE Quit(p)
  BY <1>9, QuitStep
<1>. QED
  BY <1>7, <1>8, <1>9 DEF Reserve

-----------------------------------------------------------------------------
(***************************************************************************)
(* The appends of an Attempt.                                               *)
(***************************************************************************)
\* The same job at position x, which now knows k of the Call c.
Learned(v, j, c, k, x) ==
  /\ v \in Job /\ v.at = x /\ v.money = j.money
  /\ v.doing = j.doing /\ v.c = j.c /\ v.todo = j.todo /\ v.wait = j.wait
  /\ v.rows = j.rows /\ v.token = j.token /\ v.epoch = j.epoch /\ v.outcome = j.outcome
  /\ v.knows[c] = k /\ \A d \in Call \ {c} : v.knows[d] = j.knows[d]
LEMMA LearnedFields ==
  ASSUME NEW j \in Job, NEW c \in Call, NEW k \in Records, NEW x \in Position, NEW v,
         v = [j EXCEPT !.at = x, !.knows = [j.knows EXCEPT ![c] = k]]
  PROVE  Learned(v, j, c, k, x)
<1>1. [j.knows EXCEPT ![c] = k] \in [Call -> Records]
  BY JobTypes
<1>2. v \in Job
  BY <1>1 DEF Job
<1>3. v.knows = [j.knows EXCEPT ![c] = k] /\ j.knows \in [Call -> Records]
  BY JobTypes DEF Job
<1>. QED
  BY <1>2, <1>3 DEF Job, Learned

LEMMA LearnStep ==
  ASSUME IInv, NEW p \in Process, NEW j, j = job[p], j.at \in {"request", "start", "join"},
         NEW s \in Records, NEW k \in Records, NEW x \in Going, NEW v,
         v = [j EXCEPT !.at = x, !.knows = [j.knows EXCEPT ![j.c] = k]],
         said' = [said EXCEPT ![j.c] = s], fence = j.epoch, Set(p, v),
         UNCHANGED <<ledger, row, fence, calls>>, OthersTyped',
         Knew(said[j.c], s), Knew(k, s),
         s.requested => row[j.c].status # "absent", s.started => Begun(j.c),
         s.joined # None => Settled(j.c),
         k.joined # None \/ (k.joined = j.knows[j.c].joined /\ s.joined = said[j.c].joined),
         Staged(v), Due(v)'
  PROVE  IInv'
<1>1. j.at \in Going /\ x \in Position
  BY DEF Going, Position
<1>2. /\ JobFits(j) /\ Shape(j) /\ Walks(j) /\ Carried(j) /\ Due(j) /\ j \in Job
      /\ j.c \in Call /\ j.c \in j.todo /\ j.todo \subseteq Call
  BY <1>1, Dealing, WalksFor
<1>3. j.doing \in {"run", "abort", "expire", "link"} /\ Claims(j) /\ j.token # 0 /\ j.epoch # 0
  BY <1>1, <1>2, WalksFor DEF Shape, Staged, Claims
<1>4a. Learned(v, j, j.c, k, x)
  BY <1>1, <1>2, LearnedFields
<1>4. /\ v \in Job /\ v.at = x /\ v.money = j.money
      /\ v.doing = j.doing /\ v.c = j.c /\ v.todo = j.todo /\ v.wait = j.wait
      /\ v.rows = j.rows /\ v.token = j.token /\ v.epoch = j.epoch /\ v.outcome = j.outcome
      /\ v.knows[j.c] = k /\ \A d \in Call \ {j.c} : v.knows[d] = j.knows[d]
  BY <1>4a DEF Learned
<1>5. Stores' /\ Acts(j.token, j.epoch)
  BY <1>2, <1>3, HasStores, StoresSaid
<1>6. Shape(v)
  BY <1>2, <1>3, <1>4 DEF Shape, Ends, Walks, Going, Claims
<1>7. said'[j.c] = s /\ \A d \in Call \ {j.c} : said'[d] = said[d]
  BY <1>2, HasStores DEF Stores
<1>8. /\ UNCHANGED <<ledger, row, fence, calls>> /\ job' = [job EXCEPT ![p] = v]
      /\ sub' = sub /\ minted' = minted /\ epoch' = epoch
  BY DEF Set, ledger
<1>9. Carried(v)'
  <2>1. Informed(v)'
    BY <1>2, <1>4, <1>7, <1>8 DEF Carried, Informed
  <2>2. Chosen(v)'
    BY <1>2, <1>3, <1>4, <1>7, <1>8 DEF Carried, Chosen, Knew
  <2>3. Unjoined(v)'
    BY <1>2, <1>4, <1>7, <1>8 DEF Carried, Unjoined
  <2>4. Undecided(v)' /\ Swept(v)'
    <3>1. L!OwnsLane(Root, v.token)' => L!OwnsLane(Root, j.token)
      <4>1. j.token \in 0..minted
        BY <1>2, HasStores, JobTypes DEF Apart
      <4>. QED
        BY <1>4, <1>5, <4>1 DEF Acts
    <3>. QED
      BY <1>2, <1>3, <1>4, <1>8, <3>1 DEF Carried, Undecided, Swept, Mine
  <2>5. Through(v)'
    BY <1>2, <1>3, <1>4, <1>7, <1>8, HasStores DEF Carried, Through, Knew, Stores
  <2>. QED
    BY <2>1, <2>2, <2>3, <2>4, <2>5 DEF Carried
<1>10. JobFits(v)'
  <2>1. Poised(v)'
    BY <1>4 DEF Poised, Going
  <2>2. Shape(v)'
    BY <1>6
  <2>. QED
    BY <1>9, <2>1, <2>2 DEF JobFits
<1>11. Inherits(v, j)
  BY <1>4 DEF Inherits
<1>. QED
  BY <1>5, <1>8, <1>10, <1>11, WriteStep

LEMMA RequestStep ==
  ASSUME IInv, NEW p \in Process, Request(p)
  PROVE  IInv'
<1>. PICK j : j = job[p]
  OBVIOUS
<1>1. j.at = "request" /\ j.at \in Going /\ "admit" \in Going
  BY DEF Request, Going
<1>2. /\ Shape(j) /\ Carried(j) /\ Due(j) /\ j \in Job /\ j.c \in Call /\ j.c \in j.todo
      /\ said[j.c] \in Records /\ j.knows[j.c] \in Records
  BY <1>1, Dealing, JobTypes
<1>3. j.doing = "run"
  BY <1>1, <1>2, WalksFor DEF Shape, Staged
<1>. PICK s : s = [said[j.c] EXCEPT !.requested = TRUE]
  OBVIOUS
<1>. PICK k : k = [j.knows[j.c] EXCEPT !.requested = TRUE]
  OBVIOUS
<1>. PICK v : v = [j EXCEPT !.at = "admit", !.knows = [j.knows EXCEPT ![j.c] = k]]
  OBVIOUS
<1>4. /\ s \in Records /\ s.requested /\ s.started = said[j.c].started
         /\ s.joined = said[j.c].joined
      /\ k \in Records /\ k.requested /\ k.started = j.knows[j.c].started
      /\ k.joined = j.knows[j.c].joined
  BY <1>2 DEF Records
<1>5. CASE Quit(p)
  BY <1>5, QuitStep
<1>6. CASE ~Quit(p)
  <2>1. fence = j.epoch /\ said' = [said EXCEPT ![j.c].requested = TRUE] /\ expired' = expired
        /\ Set(p, [j EXCEPT !.at = "admit", !.knows[j.c].requested = TRUE])
        /\ UNCHANGED <<ledger, row, fence, outside>>
    BY <1>6 DEF Request, Appends
  <2>2. said' = [said EXCEPT ![j.c] = s] /\ Set(p, v)
    BY <2>1
  <2>3. UNCHANGED <<ledger, row, fence, calls>> /\ OthersTyped'
    BY <2>1, HasStores DEF outside, OthersTyped
  <2>4. Knew(said[j.c], s) /\ Knew(k, s)
    BY <1>2, <1>4 DEF Knew, Carried, Informed
  <2>5. row[j.c].status # "absent" /\ (s.started => Begun(j.c)) /\ (s.joined # None => Settled(j.c))
    BY <1>1, <1>2, <1>4 DEF Due, IInv, LinksAreTrue, Begun, Settled
  <2>6. v.at = "admit" /\ v.doing = "run" /\ v.c = j.c /\ v.knows[j.c] = k
    <3>1. "admit" \in Position
      BY Zenon DEF Position
    <3>2. Learned(v, j, j.c, k, "admit")
      BY <1>2, <1>4, <3>1, LearnedFields
    <3>. QED
      BY <1>3, <3>2 DEF Learned
  <2>7. Staged(v)
    BY <2>6 DEF Staged
  <2>8. Due(v)'
    <3>1. j.knows[j.c].joined = None
      BY <1>1, <1>2, <1>3 DEF Due, Going
    <3>2. said'[j.c].requested
      BY <1>2, <1>4, <2>2, HasStores DEF Stores
    <3>. QED
      BY <1>4, <2>6, <3>1, <3>2 DEF Due
  <2>. QED
    BY <1>1, <1>4, <2>1, <2>2, <2>3, <2>4, <2>5, <2>7, <2>8, LearnStep, ZenonT(60)
<1>. QED
  BY <1>5, <1>6

LEMMA StartStep ==
  ASSUME IInv, NEW p \in Process, Start(p)
  PROVE  IInv'
<1>. PICK j : j = job[p]
  OBVIOUS
<1>. PICK x : x = IF j.doing = "expire" THEN "lookup" ELSE "link"
  OBVIOUS
<1>1. j.at = "start" /\ j.at \in Going /\ x \in Going
  BY DEF Start, Going
<1>2. /\ Shape(j) /\ Carried(j) /\ Due(j) /\ j \in Job /\ j.c \in Call /\ j.c \in j.todo
      /\ said[j.c] \in Records /\ j.knows[j.c] \in Records
  BY <1>1, Dealing, JobTypes
<1>3. j.doing \in {"run", "expire", "link"}
  BY <1>1, <1>2, WalksFor DEF Shape, Staged
<1>. PICK s : s = [said[j.c] EXCEPT !.started = TRUE]
  OBVIOUS
<1>. PICK k : k = [j.knows[j.c] EXCEPT !.started = TRUE]
  OBVIOUS
<1>. PICK v : v = [j EXCEPT !.at = x, !.knows = [j.knows EXCEPT ![j.c] = k]]
  OBVIOUS
<1>4. /\ s \in Records /\ s.started /\ s.requested = said[j.c].requested
         /\ s.joined = said[j.c].joined
      /\ k \in Records /\ k.started /\ k.requested = j.knows[j.c].requested
      /\ k.joined = j.knows[j.c].joined
  BY <1>2 DEF Records
<1>5. CASE Quit(p)
  BY <1>5, QuitStep
<1>6. CASE ~Quit(p)
  <2>1. fence = j.epoch /\ said' = [said EXCEPT ![j.c].started = TRUE] /\ expired' = expired
        /\ Set(p, [j EXCEPT !.at = IF j.doing = "expire" THEN "lookup" ELSE "link",
                            !.knows[j.c].started = TRUE])
        /\ UNCHANGED <<ledger, row, fence, outside>>
    BY <1>6 DEF Start, Appends
  <2>2. said' = [said EXCEPT ![j.c] = s] /\ Set(p, v)
    BY <2>1
  <2>3. UNCHANGED <<ledger, row, fence, calls>> /\ OthersTyped'
    BY <2>1, HasStores DEF outside, OthersTyped
  <2>4. Knew(said[j.c], s) /\ Knew(k, s)
    BY <1>2, <1>4 DEF Knew, Carried, Informed
  <2>5. (s.requested => row[j.c].status # "absent") /\ Begun(j.c) /\ (s.joined # None
        => Settled(j.c))
    BY <1>1, <1>2, <1>4 DEF Due, IInv, LinksAreTrue, Begun, Settled
  <2>6. v.at = x /\ v.doing = j.doing /\ v.c = j.c /\ v.knows[j.c] = k
    <3>1. x \in Position
      BY Zenon DEF Position
    <3>2. Learned(v, j, j.c, k, x)
      BY <1>2, <1>4, <3>1, LearnedFields
    <3>. QED
      BY <1>3, <3>2 DEF Learned
  <2>7. Staged(v)
    BY <1>3, <2>6 DEF Staged
  <2>8. Due(v)'
    <3>1. j.doing \in {"run", "expire"} => j.knows[j.c].joined = None
      BY <1>1, <1>2, <1>3 DEF Due, Going
    <3>2. said'[j.c].started
      BY <1>2, <1>4, <2>2, HasStores DEF Stores
    <3>. QED
      BY <1>3, <1>4, <2>6, <3>1, <3>2 DEF Due
  <2>. QED
    BY <1>1, <1>4, <2>1, <2>2, <2>3, <2>4, <2>5, <2>7, <2>8, LearnStep, ZenonT(60)
<1>. QED
  BY <1>5, <1>6

LEMMA JoinStep ==
  ASSUME IInv, NEW p \in Process, Join(p)
  PROVE  IInv'
<1>. PICK j : j = job[p]
  OBVIOUS
<1>1. j.at = "join" /\ j.at \in Going /\ "freeze" \in Going
  BY DEF Join, Going
<1>2. /\ Shape(j) /\ Carried(j) /\ Due(j) /\ j \in Job /\ j.c \in Call /\ j.c \in j.todo
      /\ said[j.c] \in Records /\ j.knows[j.c] \in Records
  BY <1>1, Dealing, JobTypes
<1>3. j.doing \in {"run", "expire", "abort"}
  BY <1>1, <1>2, WalksFor DEF Shape, Staged
<1>3a. Settled(j.c) /\ j.money \in {"actual", "conservative"} /\ j.knows[j.c].joined = None
  BY <1>1, <1>2, <1>3 DEF Due, Going
<1>3b. j.money \in Accounting /\ j.money # None
  BY <1>3a, Calls DEF Accounting
<1>. PICK s : s = [said[j.c] EXCEPT !.joined = j.money]
  OBVIOUS
<1>. PICK k : k = [j.knows[j.c] EXCEPT !.joined = j.money]
  OBVIOUS
<1>. PICK v : v = [j EXCEPT !.at = "freeze", !.knows = [j.knows EXCEPT ![j.c] = k]]
  OBVIOUS
<1>4. /\ s \in Records /\ s.started = said[j.c].started /\ s.requested = said[j.c].requested
      /\ s.joined = j.money
      /\ k \in Records /\ k.started = j.knows[j.c].started /\ k.requested = j.knows[j.c].requested
      /\ k.joined = j.money
  BY ONLY <1>2, <1>3b, s = [said[j.c] EXCEPT !.joined = j.money],
          k = [j.knows[j.c] EXCEPT !.joined = j.money] DEF Records
<1>5. CASE Quit(p)
  BY <1>5, QuitStep, Zenon
<1>6. CASE ~Quit(p)
  <2>1. fence = j.epoch
        /\ said' = [said EXCEPT ![j.c].joined = IF @ = None THEN j.money ELSE @]
        /\ expired' = expired
        /\ Set(p, [j EXCEPT !.at = "freeze", !.knows[j.c].joined = j.money])
        /\ UNCHANGED <<ledger, row, fence, outside>>
    BY <1>6 DEF Join, Appends
  <2>2. said[j.c].joined = None
    BY <1>2, <1>3, <1>3a, <2>1 DEF Carried, Unjoined
  <2>3. said' = [said EXCEPT ![j.c] = s]
    BY <2>1, <2>2
  <2>3a. Set(p, v)
    BY <2>1
  <2>3b. UNCHANGED <<ledger, row, fence, calls>> /\ OthersTyped'
    BY <2>1, HasStores DEF outside, OthersTyped
  <2>4. Knew(said[j.c], s) /\ Knew(k, s)
    BY <1>2, <1>4, <2>2 DEF Knew, Carried, Informed
  <2>5. (s.requested => row[j.c].status # "absent") /\ (s.started => Begun(j.c)) /\ Settled(j.c)
    BY <1>1, <1>2, <1>3a, <1>4 DEF IInv, LinksAreTrue, Begun
  <2>6. v.at = "freeze" /\ v.doing = j.doing /\ v.c = j.c /\ v.money = j.money
    <3>1. "freeze" \in Position
      BY Zenon DEF Position
    <3>2. Learned(v, j, j.c, k, "freeze")
      BY <1>2, <1>4, <3>1, LearnedFields
    <3>. QED
      BY <1>3, <3>2 DEF Learned
  <2>7. Staged(v)
    BY <1>3, <2>6 DEF Staged
  <2>8. Due(v)'
    <3>1. said'[j.c].joined = j.money
      BY <1>2, <1>4, <2>3, HasStores DEF Stores
    <3>. QED
      BY <1>3b, <2>6, <3>1 DEF Due
  <2>9. k.joined # None
    BY <1>3b, <1>4
  <2>. QED
    BY <1>1, <1>4, <2>1, <2>3, <2>3a, <2>3b, <2>4, <2>5, <2>7, <2>8, <2>9, LearnStep, ZenonT(60)
<1>. QED
  BY <1>5, <1>6

-----------------------------------------------------------------------------
(***************************************************************************)
(* Establishing a child, looking it up, and bidding it to end.              *)
(***************************************************************************)
LEMMA QuietPosition ==
  ASSUME IInv, NEW p \in Process, NEW j, j = job[p], j.at \in Going, NEW v, Only(p, v),
         v \in Job, Same(v, j), v.at \in Going, Staged(v),
         v.doing # "link" \/ v.at \notin {"start", "link"} \/ (v.epoch # 0 /\ v.token # 0),
         Due(v)
  PROVE  IInv'
<1>1. JobFits(j)
  BY HasStores
<1>2. JobFits(v) /\ Inherits(v, j)
  BY <1>1, NextPosition
<1>. QED
  BY <1>2, QuietStep

LEMMA ToldWrites ==
  ASSUME IInv, NEW p \in Process, NEW v, Set(p, v), UNCHANGED <<row, canon, outside>>, Calm,
         minted' = minted, epoch' = epoch
  PROVE  Writes(p, v) /\ said' = said
<1>1. /\ UNCHANGED <<row, fence, said, calls>>
      /\ OthersTyped' /\ job' = [job EXCEPT ![p] = v]
  BY HasStores DEF Set, canon, outside, OthersTyped
<1>2. \A k, e : Stores' /\ Acts(k, e)
  BY <1>1, HasStores, StoresCalm
<1>. QED
  BY <1>1, <1>2 DEF Writes

LEMMA ResolveStep ==
  ASSUME IInv, NEW p \in Process, Resolve(p)
  PROVE  IInv'
<1>. PICK j : j = job[p]
  OBVIOUS
<1>1. j.at = "resolve" /\ j.at \in Going
  BY DEF Resolve, Going
<1>2. Shape(j) /\ Due(j) /\ j \in Job
  BY <1>1, Dealing
<1>3. j.doing = "expire"
  BY <1>1, <1>2, WalksFor DEF Shape, Staged
<1>4. j.knows[j.c].joined = None
  BY <1>1, <1>2, <1>3 DEF Due, Going
<1>5. CASE L!Present(j.c) /\ Only(p, [j EXCEPT !.at = "ready"])
  <2>. PICK v : v = [j EXCEPT !.at = "ready"]
    OBVIOUS
  <2>1. v \in Job /\ v.at = "ready" /\ v.money = j.money /\ Same(v, j) /\ v.at \in Going
    BY <1>2, Step1 DEF Position, Going
  <2>2. Staged(v) /\ Due(v)
    BY <1>3, <1>4, <1>5, <2>1 DEF Staged, Due, Same
  <2>. QED
    BY <1>1, <1>5, <2>1, <2>2, QuietPosition
<1>6. CASE Quit(p)
  BY <1>6, QuitStep
<1>7. CASE Only(p, [j EXCEPT !.at = "freeze", !.money = "zero"])
  <2>. PICK v : v = [j EXCEPT !.at = "freeze", !.money = "zero"]
    OBVIOUS
  <2>1. v \in Job /\ v.at = "freeze" /\ v.money = "zero" /\ Same(v, j) /\ v.at \in Going
    <3>1. "freeze" \in Position /\ "zero" \in Accounting \cup {None}
      BY DEF Position, Accounting
    <3>2. v \in Job /\ v.at = "freeze" /\ v.money = "zero" /\ Same(v, j)
      BY <1>2, <3>1 DEF Job, Same
    <3>. QED
      BY <3>2 DEF Going
  <2>2. "zero" # None
    BY Calls DEF Accounting
  <2>3. Staged(v) /\ Due(v)
    BY <1>3, <2>1, <2>2 DEF Staged, Due, Same
  <2>. QED
    BY <1>1, <1>7, <2>1, <2>3, QuietPosition
<1>. QED
  BY <1>5, <1>6, <1>7 DEF Resolve

LEMMA AdmitStep ==
  ASSUME IInv, NEW p \in Process, Admit(p)
  PROVE  IInv'
<1>. PICK j : j = job[p]
  OBVIOUS
<1>. PICK v : v = [j EXCEPT !.at = "ready"]
  OBVIOUS
<1>1. j.at = "admit" /\ j.at \in Going
  BY DEF Admit, Going
<1>2. Shape(j) /\ Due(j) /\ j \in Job /\ j.c \in Call
  BY <1>1, Dealing
<1>3. v \in Job /\ v.at = "ready" /\ v.money = j.money /\ Same(v, j) /\ v.at \in Going
  BY <1>2, Step1 DEF Position, Going
<1>4. Staged(v)
  BY <1>1, <1>2, <1>3 DEF Shape, Staged, Same
<1>5. v.doing \in {"run", "abort", "expire"} => v.knows[v.c].joined = None
  BY <1>1, <1>2, <1>3 DEF Due, Going, Same
<1>6. said[j.c].requested
  BY <1>1, <1>2 DEF Due
<1>7. CASE Told(p, L!Admit(j.c, j.c, j.c, None, "none"), v)
  <2>1. /\ LedgerFits' /\ Steady /\ NoEnd
        /\ sub'[j.c].state = "admitted" /\ UNCHANGED <<epoch, minted>>
        /\ \A d \in Call \ {j.c} : sub'[d] = sub[d]
    BY <1>2, <1>7, HasStores, AdmitEffect DEF Told
  <2>2. /\ UNCHANGED <<row, fence, said, calls>>
        /\ OthersTyped' /\ job' = [job EXCEPT ![p] = v]
    BY <1>7, HasStores DEF Told, Set, canon, outside, OthersTyped
  <2>3. \A k, e : Stores' /\ Acts(k, e)
    BY <1>2, <1>6, <2>1, <2>2, HasStores, StoresAdmit
  <2>4. Writes(p, v)
    BY <2>1, <2>2, <2>3 DEF Writes
  <2>5. Due(v)'
    <3>1. L!Present(v.c)'
      <4>1. v.c = j.c
        BY <1>3 DEF Same
      <4>. QED
        BY <2>1, <4>1 DEF L!Present
    <3>. QED
      BY <1>3, <1>5, <3>1 DEF Due
  <2>. QED
    BY <1>1, <1>3, <1>4, <2>4, <2>5, WritePosition
<1>8. CASE L!Present(j.c) /\ Only(p, v)
  <2>1. Due(v)
    BY <1>3, <1>5, <1>8 DEF Due, Same
  <2>. QED
    BY <1>1, <1>3, <1>4, <1>8, <2>1, QuietPosition
<1>. QED
  BY <1>7, <1>8 DEF Admit

LEMMA ReadyStep ==
  ASSUME IInv, NEW p \in Process, Ready(p)
  PROVE  IInv'
<1>. PICK j : j = job[p]
  OBVIOUS
<1>. PICK v : v = AfterReady(j)
  OBVIOUS
<1>1. j.at = "ready" /\ j.at \in Going
  BY DEF Ready, Going
<1>2. /\ JobFits(j) /\ Shape(j) /\ Carried(j) /\ Due(j) /\ Walks(j) /\ j \in Job
      /\ j.c \in Call /\ j.c \in j.todo
  BY <1>1, Dealing
<1>3. j.doing \in {"run", "abort", "expire", "admit", "link"}
  BY <1>1, <1>2, WalksFor DEF Shape, Staged
<1>4. j.doing \in {"run", "abort", "expire"} => j.knows[j.c].joined = None
  BY <1>1, <1>2 DEF Due, Going
<1>5. ASSUME Writes(p, v), said' = said, Begun(j.c)' PROVE IInv'
  <2>1. CASE j.doing = "run" /\ j.knows[j.c].started
    <3>1. v = [j EXCEPT !.at = "link"]
      BY <2>1 DEF AfterReady
    <3>2. v \in Job /\ v.at = "link" /\ v.money = j.money /\ Same(v, j) /\ v.at \in Going
      BY <1>2, <3>1, Step1 DEF Position, Going
    <3>3. said[j.c].started
      BY <1>2, <2>1 DEF Carried, Informed, Knew
    <3>4. Staged(v) /\ v.doing = "run"
      BY <2>1, <3>2 DEF Staged, Same
    <3>5. Due(v)'
      BY <1>4, <1>5, <2>1, <3>2, <3>3 DEF Due, Same
    <3>. QED
      BY <1>1, <1>5, <3>2, <3>4, <3>5, WritePosition
  <2>2. CASE j.doing = "abort"
    <3>1. v = [j EXCEPT !.at = "lookup"]
      BY <2>2 DEF AfterReady
    <3>2. v \in Job /\ v.at = "lookup" /\ v.money = j.money /\ Same(v, j) /\ v.at \in Going
      BY <1>2, <3>1, Step1 DEF Position, Going
    <3>3. Staged(v) /\ v.doing = "abort"
      BY <2>2, <3>2 DEF Staged, Same
    <3>4. Due(v)'
      BY <1>4, <2>2, <3>2 DEF Due, Same
    <3>. QED
      BY <1>1, <1>5, <3>2, <3>3, <3>4, WritePosition
  <2>3. CASE j.doing = "admit"
    <3>1. v = Onward(j)
      BY <2>3 DEF AfterReady
    <3>2. Behind(j)'
      BY <2>3 DEF Behind
    <3>. QED
      BY <1>1, <1>5, <3>1, <3>2, WriteOnward
  <2>4. CASE j.doing = "link"
    <3>1. v = [j EXCEPT !.at = "acquire"]
      BY <2>4 DEF AfterReady
    <3>2. v \in Job /\ v.at = "acquire" /\ v.money = j.money /\ Same(v, j)
      BY <1>2, <3>1, Step1 DEF Position
    <3>3. v.doing = "link" /\ Walks(v) /\ v.c = j.c
      BY <2>4, <3>2 DEF Walks, Same
    <3>4. Shape(v)
      BY <1>2, <3>2, <3>3 DEF Shape, Staged, Ends, Claims, Same
    <3>5. Carried(v)
      <4>1. Informed(v) /\ Unjoined(v) /\ Undecided(v) /\ Swept(v) /\ Through(v)
        BY <1>2, <3>2 DEF Carried, Informed, Unjoined, Undecided, Swept, Through, Mine, Same
      <4>2. Chosen(v)
        BY <1>2, <3>2 DEF Carried, Chosen, Same
      <4>. QED
        BY <4>1, <4>2 DEF Carried
    <3>6. Around(v)
      BY <1>5, <3>2, OwnAround DEF Writes, Same
    <3>7. Carried(v)'
      BY <3>2, <3>3, <3>5, <3>6, HasStores, StaysCarried
    <3>8. Due(v)'
      BY <1>5, <3>2, <3>3 DEF Due, Going
    <3>9. Poised(v)' /\ Shape(v)'
      BY <3>2, <3>4 DEF Poised
    <3>10. JobFits(v)' /\ Inherits(v, j)
      BY <3>2, <3>7, <3>8, <3>9 DEF JobFits, Inherits, Same
    <3>. QED
      BY <1>5, <3>10, WriteStep DEF Writes
  <2>5. CASE ~(j.doing = "run" /\ j.knows[j.c].started) /\ j.doing \notin {"abort", "admit", "link"}
    <3>1. v = [j EXCEPT !.at = "start"]
      BY <2>5 DEF AfterReady
    <3>2. v \in Job /\ v.at = "start" /\ v.money = j.money /\ Same(v, j) /\ v.at \in Going
      BY <1>2, <3>1, Step1 DEF Position, Going
    <3>3. Staged(v) /\ v.doing # "link"
      BY <1>3, <2>5, <3>2 DEF Staged, Same
    <3>4. Due(v)'
      BY <1>3, <1>4, <1>5, <2>5, <3>2 DEF Due, Same
    <3>. QED
      BY <1>1, <1>5, <3>2, <3>3, <3>4, WritePosition
  <2>. QED
    BY <2>1, <2>2, <2>3, <2>4, <2>5
<1>6. CASE Told(p, L!MarkReady(j.c), v)
  <2>1. Calm /\ UNCHANGED <<epoch, minted>> /\ sub'[j.c].state = "ready"
    BY <1>2, <1>6, HasStores, ReadyEffect DEF Told
  <2>2. Writes(p, v) /\ said' = said
    BY <1>6, <2>1, ToldWrites DEF Told
  <2>3. Begun(j.c)'
    BY <2>1 DEF Begun, L!Present
  <2>. QED
    BY <1>5, <2>2, <2>3
<1>7. CASE sub[j.c].state # "admitted" /\ Only(p, v)
  <2>1. Writes(p, v) /\ said' = said /\ UNCHANGED ledger
    BY <1>7, OnlyWrites
  <2>2. Begun(j.c)
    BY <1>1, <1>2, <1>7 DEF Begun, Due
  <2>3. Begun(j.c)'
    BY <2>1, <2>2 DEF Begun, L!Present, ledger
  <2>. QED
    BY <1>5, <2>1, <2>3
<1>. QED
  BY <1>6, <1>7 DEF Ready

LEMMA LookupStep ==
  ASSUME IInv, NEW p \in Process, Lookup(p)
  PROVE  IInv'
<1>. PICK j : j = job[p]
  OBVIOUS
<1>. DEFINE settled == sub[j.c].state = "settled"
            open == L!Present(j.c) /\ ~settled
<1>1. j.at = "lookup" /\ j.at \in Going
  BY DEF Lookup, Going
<1>2. Shape(j) /\ Due(j) /\ j \in Job /\ JobFits(j)
  BY <1>1, Dealing
<1>3. j.doing \in {"run", "abort", "expire"}
  BY <1>1, <1>2, WalksFor DEF Shape, Staged
<1>4. j.knows[j.c].joined = None
  BY <1>1, <1>2, <1>3 DEF Due, Going
<1>4a. /\ {"join", "bid", "link"} \subseteq Position \cap Going
       /\ {"actual", "conservative", None} \subseteq Accounting \cup {None}
       /\ None \notin {"actual", "conservative"}
  BY Calls DEF Position, Going, Accounting
<1>4b. settled => L!Present(j.c)
  BY DEF L!Present
<1>4c. CASE ~L!Present(j.c)
  <2>1. Only(p, Done(j))
    BY <1>4b, <1>4c DEF Lookup
  <2>. QED
    BY <2>1, QuitStep DEF Quit
<1>5. CASE j.doing = "run" /\ settled
  <2>. PICK v : v = [j EXCEPT !.at = "join", !.money = "actual"]
    OBVIOUS
  <2>1. Only(p, v)
    BY <1>4b, <1>5 DEF Lookup
  <2>2. v \in Job /\ v.at = "join" /\ v.money = "actual" /\ Same(v, j)
    BY <1>2, <1>4a DEF Job, Same
  <2>3. Staged(v) /\ v.doing = "run" /\ v.at \in Going
    BY <1>4a, <1>5, <2>2 DEF Staged, Same
  <2>4. Due(v)
    BY <1>4, <1>5, <2>2 DEF Due, Same, Settled
  <2>. QED
    BY <1>1, <2>1, <2>2, <2>3, <2>4, QuietPosition
<1>6. CASE j.doing = "run" /\ open
  <2>. PICK v : v = Waiting(j)
    OBVIOUS
  <2>1. Only(p, v)
    BY <1>4b, <1>6 DEF Lookup
  <2>2. JobFits(v) /\ Inherits(v, j)
    BY <1>1, <1>2, <1>6, HasStores, WaitingFits
  <2>. QED
    BY <2>1, <2>2, QuietStep
<1>7. CASE j.doing = "abort" /\ settled
  <2>. PICK v : v = [j EXCEPT !.at = "join", !.money = "conservative"]
    OBVIOUS
  <2>1. Only(p, v)
    BY <1>4b, <1>7 DEF Lookup
  <2>2. v \in Job /\ v.at = "join" /\ v.money = "conservative" /\ Same(v, j)
    BY <1>2, <1>4a DEF Job, Same
  <2>3. Staged(v) /\ v.doing = "abort" /\ v.at \in Going
    BY <1>4a, <1>7, <2>2 DEF Staged, Same
  <2>4. Due(v)
    BY <1>4, <1>7, <2>2 DEF Due, Same, Settled
  <2>. QED
    BY <1>1, <2>1, <2>2, <2>3, <2>4, QuietPosition
<1>8. CASE j.doing = "abort" /\ open
  <2>. PICK v : v = [j EXCEPT !.at = "bid"]
    OBVIOUS
  <2>1. Only(p, v)
    BY <1>4b, <1>8 DEF Lookup
  <2>2. v \in Job /\ v.at = "bid" /\ Same(v, j)
    BY <1>2, <1>4a, Step1
  <2>3. Staged(v) /\ v.doing = "abort" /\ v.at \in Going
    BY <1>4a, <1>8, <2>2 DEF Staged, Same
  <2>4. Due(v)
    BY <1>4, <2>2, <2>3 DEF Due, Same
  <2>. QED
    BY <1>1, <2>1, <2>2, <2>3, <2>4, QuietPosition
<1>9. CASE j.doing = "expire" /\ L!Present(j.c)
  <2>. PICK m : m = IF settled THEN "conservative" ELSE None
    OBVIOUS
  <2>. PICK v : v = [j EXCEPT !.at = "link", !.money = m]
    OBVIOUS
  <2>1. Only(p, v)
    BY <1>4b, <1>9 DEF Lookup
  <2>2. v \in Job /\ v.at = "link" /\ v.money = m /\ Same(v, j)
    BY <1>2, <1>4a DEF Job, Same
  <2>3. Staged(v) /\ v.doing = "expire" /\ v.at \in Going
    BY <1>4a, <1>9, <2>2 DEF Staged, Same
  <2>4. said[j.c].started
    BY <1>1, <1>2, <1>9 DEF Due
  <2>5. Due(v)
    BY <1>4, <2>2, <2>3, <2>4 DEF Due, Same, Settled
  <2>. QED
    BY <1>1, <2>1, <2>2, <2>3, <2>5, QuietPosition
<1>. QED
  BY <1>3, <1>4c, <1>5, <1>6, <1>7, <1>8, <1>9

LEMMA BidStep ==
  ASSUME IInv, NEW p \in Process, Bid(p)
  PROVE  IInv'
<1>. PICK j : j = job[p]
  OBVIOUS
<1>. PICK v : v = IF j.doing = "abort" THEN Waiting(j) ELSE Onward(j)
  OBVIOUS
<1>1. j.at = "bid" /\ j.at \in Going
  BY DEF Bid, Going
<1>2. Shape(j) /\ JobFits(j) /\ j.c \in Call
  BY <1>1, Dealing
<1>3. j.doing \in {"abort", "propagate", "nudge"}
  BY <1>1, <1>2, WalksFor DEF Shape, Staged
<1>4. JobFits(v) /\ Inherits(v, j)
  <2>1. CASE j.doing = "abort"
    BY <1>1, <1>2, <2>1, HasStores, WaitingFits
  <2>2. CASE j.doing # "abort"
    <3>1. Behind(j)
      BY <1>3 DEF Behind
    <3>. QED
      BY <1>1, <1>2, <2>2, <3>1, HasStores, OnwardFits
  <2>. QED
    BY <2>1, <2>2
<1>5. CASE Told(p, L!RequestAbort(j.c), v)
  <2>1. Calm
    BY <1>2, <1>5, HasStores, Calls, AbortEffect DEF Told
  <2>. QED
    BY <1>4, <1>5, <2>1, ToldStep DEF Told
<1>6. CASE Only(p, v)
  BY <1>4, <1>6, QuietStep
<1>. QED
  BY <1>5, <1>6 DEF Bid

-----------------------------------------------------------------------------
(***************************************************************************)
(* An Attempt.                                                              *)
(***************************************************************************)
\* A claim: the process that takes it fits, and nobody else owns the parent.
LEMMA ClaimingStep ==
  ASSUME IInv, NEW p \in Process, NEW v, Told(p, L!Claim(Root), v),
         v.token = minted + 1, v.epoch = epoch[Root] + 1,
         Acts(0, 0) /\ Stores' /\ Calm => JobFits(v)'
  PROVE  IInv'
<1>1. Calm /\ minted' = minted + 1 /\ epoch'[Root] = epoch[Root] + 1
  BY HasStores, ClaimEffect DEF Told
<1>2. /\ UNCHANGED <<row, fence, said, calls>>
      /\ OthersTyped' /\ job' = [job EXCEPT ![p] = v]
  BY HasStores DEF Told, Set, canon, outside, OthersTyped
<1>3. \A k, e : Stores' /\ Acts(k, e)
  BY <1>1, <1>2, HasStores, StoresCalm
<1>4. JobFits(v)'
  BY <1>1, <1>3
<1>5. Apart'
  BY <1>1, <1>2, HasStores, ApartClaimed
<1>. QED
  BY <1>2, <1>3, <1>4, <1>5, Conclude

LEMMA ClaimStep ==
  ASSUME IInv, NEW p \in Process, Claim(p)
  PROVE  IInv'
<1>. PICK v : v = [Claimed(Idle) EXCEPT !.at = "claimed"]
  OBVIOUS
<1>1. minted \in Nat /\ epoch[Root] \in Nat
  BY HasStores
<1>2. /\ v \in Job /\ v.at = "claimed" /\ v.token = minted + 1 /\ v.epoch = epoch[Root] + 1
      /\ v.doing = "run" /\ v.todo = {} /\ v.outcome = None /\ v.rows = [c \in Call |-> NoRow]
  <2>1. "claimed" \in Position /\ minted + 1 \in Nat /\ epoch[Root] + 1 \in Nat
    BY <1>1 DEF Position
  <2>2. /\ v \in Job /\ v.at = "claimed" /\ v.token = minted + 1 /\ v.epoch = epoch[Root] + 1
        /\ v.doing = Idle.doing /\ v.todo = Idle.todo /\ v.outcome = Idle.outcome
        /\ v.rows = Idle.rows
    BY <2>1, Blank DEF Claimed, Job
  <2>. QED
    BY <2>2, Blank
<1>3. Shape(v) /\ ~Walks(v)
  BY <1>1, <1>2 DEF Shape, Staged, Ends, Claims, Walks, Going
<1>4. JobFits(v)'
  BY <1>2, <1>3 DEF JobFits, Poised
<1>. QED
  BY <1>2, <1>4, ClaimingStep DEF Claim

LEMMA AcquireStep ==
  ASSUME IInv, NEW p \in Process, Acquire(p)
  PROVE  IInv'
<1>. PICK j : j = job[p]
  OBVIOUS
<1>. PICK x : x = IF j.doing \in {"wait", "propagate"} THEN "suspend" ELSE "claimed"
  OBVIOUS
<1>. PICK v : v = [Claimed(j) EXCEPT !.at = x]
  OBVIOUS
<1>0. j.at = "acquire" /\ x \in Position
  BY DEF Acquire, Position
<1>1. minted \in Nat /\ epoch[Root] \in Nat /\ JobFits(j) /\ j \in Job
  BY HasStores
<1>2. /\ v \in Job /\ v.at = x /\ v.token = minted + 1 /\ v.epoch = epoch[Root] + 1
      /\ v.doing = j.doing /\ v.c = j.c /\ v.todo = j.todo /\ v.wait = j.wait
      /\ v.rows = j.rows /\ v.knows = j.knows /\ v.outcome = j.outcome /\ v.money = j.money
  <2>1. minted + 1 \in Nat /\ epoch[Root] + 1 \in Nat
    BY <1>1
  <2>. QED
    BY <1>0, <1>1, <2>1 DEF Claimed, Job
<1>3. j.doing \in {"expire", "link", "wait", "propagate", "close"}
  BY <1>0, <1>1, JobTypes DEF JobFits, Shape, Staged, Purpose
<1>4. Shape(v)
  BY <1>0, <1>1, <1>2, <1>3 DEF JobFits, Shape, Staged, Ends, Claims, Walks, Going
<1>5. Poised(v)'
  BY <1>0, <1>2, <1>3 DEF Poised
<1>6. ASSUME Acts(0, 0), Stores', Calm PROVE JobFits(v)'
  <2>1. CASE j.doing = "link"
    <3>1. Carried(j) /\ Due(j) /\ Walks(j) /\ Walks(v) /\ v.at = "claimed" /\ v.c \in Call
      BY <1>0, <1>1, <1>2, <2>1 DEF JobFits, Walks, Shape, Job
    <3>2. Around(j)
      BY <1>6, OwnAround
    <3>3. Carried(j)'
      BY <1>1, <3>1, <3>2, HasStores, StaysCarried
    <3>4. Carried(v)'
      <4>1. Informed(v)' /\ Unjoined(v)' /\ Undecided(v)' /\ Swept(v)' /\ Through(v)'
        BY <1>2, <2>1, <3>3 DEF Carried, Informed, Unjoined, Undecided, Swept, Through
      <4>2. Chosen(v)'
        BY <1>2, <2>1, <3>3 DEF Carried, Chosen
      <4>. QED
        BY <4>1, <4>2 DEF Carried
    <3>5. Due(v)'
      <4>1. Begun(j.c)
        BY <1>0, <2>1, <3>1 DEF Due
      <4>2. Begun(j.c)'
        BY <1>2, <1>6, <3>1, <4>1 DEF Begun, Acts, Advances, L!Present
      <4>. QED
        BY <1>2, <2>1, <3>1, <4>2 DEF Due, Going
    <3>. QED
      BY <1>4, <1>5, <3>4, <3>5 DEF JobFits
  <2>2. CASE j.doing # "link"
    <3>1. ~Walks(v)
      BY <1>2, <2>2 DEF Walks, Going
    <3>. QED
      BY <1>4, <1>5, <3>1 DEF JobFits, Walks
  <2>. QED
    BY <2>1, <2>2
<1>7. CASE Told(p, L!Claim(Root), v)
  BY <1>2, <1>6, <1>7, ClaimingStep
<1>8. CASE Only(p, Idle)
  <2>1. JobFits(Idle) /\ Inherits(Idle, j)
    BY IdleFits, Blank DEF Inherits
  <2>. QED
    BY <1>8, <2>1, QuietStep
<1>. QED
  BY <1>7, <1>8 DEF Acquire

LEMMA AttachStep ==
  ASSUME IInv, NEW p \in Process, Attach(p)
  PROVE  IInv'
<1>. PICK j : j = job[p]
  OBVIOUS
<1>. PICK x : x = AfterAttach(j)
  OBVIOUS
<1>. PICK v : v = [j EXCEPT !.at = x]
  OBVIOUS
<1>1. j.at = "claimed"
  BY DEF Attach
<1>2. JobFits(j) /\ Shape(j) /\ j \in Job /\ j.token # 0 /\ j.epoch # 0 /\ j.epoch \in Nat
  BY <1>1, HasStores, JobTypes DEF JobFits, Shape, Claims
<1>3. j.doing \in {"run", "expire", "link", "close"}
  BY <1>1, <1>2, JobTypes DEF Shape, Staged, Purpose
<1>4. x \in Position
  BY DEF AfterAttach, Position
<1>5. v \in Job /\ v.at = x /\ v.money = j.money /\ Same(v, j)
  BY <1>2, <1>4, Step1
<1>6. Shape(v)
  <2>1. Walks(v) => v.c \in v.todo
    BY <1>1, <1>2, <1>3, <1>5 DEF AfterAttach, Shape, Walks, Going, Same
  <2>2. v.at = "settle" => v.outcome # None
    BY <1>2, <1>3, <1>5, Calls DEF AfterAttach, Shape, Ends, Same, Outcome
  <2>. QED
    BY <1>2, <1>3, <1>5, <2>1, <2>2 DEF AfterAttach, Shape, Staged, Ends, Claims, Same
<1>7. CASE Quit(p)
  BY <1>7, QuitStep
<1>8. CASE fence' = j.epoch /\ Set(p, v) /\ UNCHANGED <<ledger, row, said, expired, outside>>
  <2>1. /\ UNCHANGED <<row, said, calls>> /\ UNCHANGED ledger /\ sub' = sub
        /\ OthersTyped' /\ job' = [job EXCEPT ![p] = v]
    BY <1>8, HasStores DEF Set, ledger, outside, OthersTyped
  <2>2. Stores' /\ Acts(j.token, j.epoch)
    BY <1>2, <1>8, <2>1, HasStores, StoresAttach
  <2>3. JobFits(v)'
    <3>1. CASE j.doing = "link"
      <4>1. Carried(j) /\ Due(j) /\ Walks(v) /\ v.at = "start" /\ v.doing = "link"
        BY <1>1, <1>2, <1>5, <3>1 DEF JobFits, Walks, AfterAttach, Going, Same
      <4>2. Carried(v)'
        <5>1. Informed(v)' /\ Unjoined(v)' /\ Undecided(v)' /\ Swept(v)' /\ Through(v)'
          BY <1>5, <2>1, <3>1, <4>1
             DEF Carried, Informed, Unjoined, Undecided, Swept, Through, Same
        <5>2. Chosen(v)'
          BY <1>5, <2>1, <3>1, <4>1 DEF Carried, Chosen, Same
        <5>. QED
          BY <5>1, <5>2 DEF Carried
      <4>3. Due(v)'
        <5>1. Begun(j.c)
          BY <1>1, <3>1, <4>1 DEF Due
        <5>2. Begun(v.c)'
          BY <1>5, <2>1, <5>1 DEF Begun, L!Present, Same
        <5>. QED
          BY <4>1, <5>2 DEF Due
      <4>4. Poised(v)'
        BY <4>1 DEF Poised
      <4>. QED
        BY <1>6, <4>2, <4>3, <4>4 DEF JobFits
    <3>2. CASE j.doing # "link"
      <4>1. ~Walks(v) /\ v.doing = j.doing /\ v.at \in {"read", "settle"}
        BY <1>3, <1>5, <3>2 DEF Walks, Going, AfterAttach, Same
      <4>2. v.doing = "run" => v.rows = [c \in Call |-> NoRow]
        BY <1>1, <1>2, <1>5 DEF JobFits, Poised, Same
      <4>3. Poised(v)'
        BY <1>3, <4>1, <4>2 DEF Poised
      <4>. QED
        BY <1>6, <4>1, <4>3 DEF JobFits, Walks
    <3>. QED
      BY <3>1, <3>2
  <2>4. Inherits(v, j) /\ minted' = minted /\ epoch' = epoch
    BY <1>5, <2>1 DEF Inherits, Same, ledger
  <2>. QED
    BY <2>1, <2>2, <2>3, <2>4, WriteStep
<1>. QED
  BY <1>7, <1>8 DEF Attach

LEMMA ReadStep ==
  ASSUME IInv, NEW p \in Process, Read(p)
  PROVE  IInv'
<1>. PICK j : j = job[p]
  OBVIOUS
<1>. DEFINE decided == sub[Root].reserved # None
<1>1. j.at = "read"
  BY DEF Read
<1>2. JobFits(j) /\ Shape(j) /\ j \in Job
  BY HasStores DEF JobFits
<1>3. j.doing \in {"run", "abort", "expire", "account"}
  BY <1>1, <1>2, JobTypes DEF Shape, Staged, Purpose
<1>4. j.token # 0 /\ j.epoch # 0
  BY <1>1, <1>2, <1>3 DEF Shape, Claims
<1>5. CASE j.doing = "run" /\ decided
  <2>. PICK v : v = [j EXCEPT !.at = "finalize"]
    OBVIOUS
  <2>1. Only(p, v)
    BY <1>5 DEF Read
  <2>2. v \in Job /\ v.at = "finalize" /\ Same(v, j)
    BY <1>2, Step1 DEF Position
  <2>3. Shape(v) /\ ~Walks(v) /\ Poised(v)
    BY <1>2, <1>5, <2>2 DEF Shape, Staged, Ends, Claims, Walks, Going, Same, Poised
  <2>. QED
    BY <2>1, <2>2, <2>3, QuietStep DEF JobFits, Inherits, Same
<1>6. CASE ~(j.doing = "run" /\ decided)
  <2>. PICK rs : rs = IF j.doing = "run" THEN j.rows ELSE row
    OBVIOUS
  <2>. PICK v : v = [j EXCEPT !.rows = rs, !.at = "consult"]
    OBVIOUS
  <2>1. Only(p, v)
    BY <1>6 DEF Read
  <2>2. rs \in [Call -> Reservation]
    BY <1>2, JobTypes, HasStores DEF Stores
  <2>3. /\ v \in Job /\ v.at = "consult" /\ v.rows = rs
        /\ v.doing = j.doing /\ v.c = j.c /\ v.todo = j.todo /\ v.wait = j.wait
        /\ v.token = j.token /\ v.epoch = j.epoch /\ v.outcome = j.outcome
    <3>0. "consult" \in Position
      BY DEF Position
    <3>1. v \in Job
      BY ONLY <1>2, <2>2, <3>0, v = [j EXCEPT !.rows = rs, !.at = "consult"] DEF Job
    <3>. QED
      BY <1>2, <3>1 DEF Job
  <2>4. Shape(v) /\ ~Walks(v)
    BY <1>2, <1>3, <1>4, <2>3 DEF Shape, Staged, Ends, Claims, Walks, Going
  <2>5. Poised(v)
    <3>1. v.doing = "run" => sub[Root].reserved = None /\ v.rows = [c \in Call |-> NoRow]
      BY ONLY <1>1, <1>2, <1>6, <2>3, rs = IF j.doing = "run" THEN j.rows ELSE row
         DEF JobFits, Poised
    <3>2. v.doing # "run" => \A c \in Call : Saw(v.rows[c], row[c]) /\ v.rows[c] = row[c]
      BY <2>3, Reflexive
    <3>3. v.doing = "account" /\ v.outcome = "completed" => \A c \in calls : said[c].joined # None
      BY <1>1, <1>2, <2>3 DEF JobFits, Poised
    <3>. QED
      BY <2>3, <3>1, <3>2, <3>3 DEF Poised
  <2>. QED
    BY <2>1, <2>3, <2>4, <2>5, QuietStep DEF JobFits, Inherits
<1>. QED
  BY <1>5, <1>6

LEMMA ConsultSetsOff ==
  ASSUME IInv, NEW j, JobFits(j), j.at = "consult",
         j.doing \in {"run", "abort", "expire", "account"},
         NEW i \in Job, i.doing = j.doing, i.token = j.token, i.epoch = j.epoch,
         i.outcome = j.outcome, i.todo \subseteq Call, i.wait \subseteq Call,
         \A c \in i.todo : i.rows[c] = j.rows[c] /\ i.knows[c] = said[c],
         j.doing = "run" => i.todo = {c \in calls : said[c].joined = None},
         j.doing = "abort" =>
           \A c \in i.todo : j.rows[c].status \notin {"absent", "released"},
         j.doing = "expire" => \A c \in i.todo : j.rows[c].status # "absent",
         j.doing = "account" =>
           /\ \A c \in i.todo : /\ j.rows[c].status \notin {"absent", "released"}
                                /\ said[c].joined # None \/ j.rows[c].status # "reserved"
           /\ i.wait = {} => \A c \in Call \ i.todo : j.rows[c].status \in {"absent", "released"}
  PROVE  SetsOff(i)
<1>1. Shape(j) /\ Ends(j) /\ Poised(j) /\ j \in Job /\ calls \subseteq Call
  BY HasStores DEF JobFits, Shape, Stores
<1>2. j.token # 0 /\ j.epoch # 0
  BY <1>1 DEF Shape, Claims
<1>3. Informed(i)
  <2>. SUFFICES ASSUME NEW c \in i.todo PROVE Knew(said[c], said[c]) /\ Saw(j.rows[c], row[c])
    BY DEF Informed
  <2>1. Knew(said[c], said[c])
    BY Reflexive
  <2>2. CASE j.doing = "run"
    <3>1. j.rows[c] = NoRow
      BY <1>1, <2>2 DEF Poised
    <3>. QED
      BY <2>1, <3>1, Blank DEF Saw, Closed
  <2>3. CASE j.doing # "run"
    BY <1>1, <2>1, <2>3 DEF Poised
  <2>. QED
    BY <2>2, <2>3
<1>4. Chosen(i)
  BY DEF Chosen
<1>5. Unjoined(i) /\ Undecided(i)
  BY <1>1 DEF Unjoined, Undecided, Mine, Poised
<1>6. Swept(i)
  <2>. SUFFICES ASSUME j.doing = "account", Mine(j), i.wait = {}, NEW c \in Call \ i.todo
                PROVE  Gone(c)
    BY DEF Swept, Mine
  <2>1. j.rows[c].status \in {"absent", "released"}
    OBVIOUS
  <2>2. Saw(j.rows[c], row[c]) /\ (j.rows[c].status = "absent" => row[c].status = "absent")
    BY <1>1 DEF Poised
  <2>. QED
    BY <2>1, <2>2 DEF Gone, Saw
<1>7. Through(i)
  <2>1. j.doing = "account" /\ j.outcome = "completed" => \A c \in calls : said[c].joined # None
    BY <1>1 DEF Poised
  <2>. QED
    BY <2>1 DEF Through
<1>8. Ends(i)
  BY <1>1 DEF Ends
<1>9. i.doing = "run" => \A c \in i.todo : i.knows[c].joined = None
  OBVIOUS
<1>. QED
  BY <1>2, <1>3, <1>4, <1>5, <1>6, <1>7, <1>8, <1>9 DEF SetsOff, Carried

LEMMA ConsultStep ==
  ASSUME IInv, NEW p \in Process, Consult(p)
  PROVE  IInv'
<1>. PICK j : j = job[p]
  OBVIOUS
<1>. DEFINE held == {c \in Call : j.rows[c].status \notin {"absent", "released"}}
            open == {c \in held : said[c].joined = None /\ j.rows[c].status = "reserved"}
            due == CASE j.doing = "run" -> {c \in calls : said[c].joined = None}
                     [] j.doing = "abort" -> held
                     [] j.doing = "expire" -> {c \in Call : j.rows[c].status # "absent"}
                     [] j.doing = "account" -> held \ open
            w == IF j.doing = "account" THEN open ELSE {}
            rs == [c \in Call |-> IF c \in due THEN j.rows[c] ELSE NoRow]
            ks == [c \in Call |-> IF c \in due THEN said[c] ELSE Nothing]
            i == [j EXCEPT !.todo = due, !.wait = w, !.rows = rs, !.knows = ks]
<1>1. j.at = "consult" /\ Only(p, Walk(i))
  BY DEF Consult
<1>2. JobFits(j) /\ Shape(j) /\ j \in Job
  BY HasStores DEF JobFits, Shape
<1>3. j.doing \in {"run", "abort", "expire", "account"}
  BY ONLY <1>1, <1>2, JobTypes DEF Shape, Staged, Purpose
<1>4. calls \subseteq Call /\ said \in [Call -> Records] /\ j.rows \in [Call -> Reservation]
  BY <1>2, HasStores, JobTypes DEF Stores
<1>5. /\ due \subseteq Call /\ w \subseteq Call
      /\ j.doing = "run" => due = {c \in calls : said[c].joined = None}
      /\ j.doing = "abort" => \A c \in due : j.rows[c].status \notin {"absent", "released"}
      /\ j.doing = "expire" => \A c \in due : j.rows[c].status # "absent"
      /\ j.doing = "account" =>
           /\ \A c \in due : /\ j.rows[c].status \notin {"absent", "released"}
                             /\ said[c].joined # None \/ j.rows[c].status # "reserved"
           /\ w = {} => \A c \in Call \ due : j.rows[c].status \in {"absent", "released"}
  BY ONLY <1>3, <1>4
<1>. HIDE DEF due, w
<1>6. /\ rs \in [Call -> Reservation] /\ ks \in [Call -> Records]
      /\ \A c \in due : rs[c] = j.rows[c] /\ ks[c] = said[c]
  BY ONLY <1>4, <1>5, Blank
<1>. HIDE DEF rs, ks
<1>7. /\ i \in Job /\ i.todo = due /\ i.wait = w /\ i.rows = rs /\ i.knows = ks
      /\ i.doing = j.doing /\ i.token = j.token /\ i.epoch = j.epoch /\ i.outcome = j.outcome
  BY ONLY <1>2, <1>5, <1>6 DEF Job
<1>. HIDE DEF i
<1>8. SetsOff(i)
  BY <1>1, <1>2, <1>3, <1>5, <1>6, <1>7, ConsultSetsOff
<1>9. JobFits(Walk(i)) /\ Inherits(Walk(i), j)
  BY <1>7, <1>8, HasStores, WalkFits DEF Inherits
<1>. QED
  BY <1>1, <1>9, QuietStep, ZenonT(60)

-----------------------------------------------------------------------------
(***************************************************************************)
(* The end of an Attempt.                                                   *)
(***************************************************************************)
LEMMA RunningHolds ==
  ASSUME IInv, NEW p \in Process, Running(p)
  PROVE  job[p].token # 0 /\ job[p].epoch # 0 /\ job[p] \in Job
<1>1. JobFits(job[p])
  BY HasStores
<1>. QED
  BY <1>1 DEF Running, JobFits, Shape, Claims, Staged

LEMMA HaltStep ==
  ASSUME IInv, NEW p \in Process, Halt(p)
  PROVE  IInv'
<1>. PICK v : v = Scan(job[p], "abort", "aborted")
  OBVIOUS
<1>1. job[p].token # 0 /\ job[p].epoch # 0 /\ job[p] \in Job
  BY RunningHolds DEF Halt
<1>2. JobFits(v) /\ v.token = job[p].token /\ v.epoch = job[p].epoch
  BY <1>1, ScanFits DEF Outcome
<1>. QED
  BY <1>2, QuietStep DEF Halt, Inherits

LEMMA ExpireStep ==
  ASSUME IInv, NEW p \in Process, Expire(p)
  PROVE  IInv'
<1>. PICK v : v = [Scan(job[p], "expire", "failed") EXCEPT !.at = "exhaust"]
  OBVIOUS
<1>1. job[p].token # 0 /\ job[p].epoch # 0 /\ job[p] \in Job
  BY RunningHolds DEF Expire
<1>2. JobFits(v) /\ v.token = job[p].token /\ v.epoch = job[p].epoch
  BY <1>1, ScanFits DEF Outcome
<1>. QED
  BY <1>2, QuietStep DEF Expire, Inherits

LEMMA FailRunStep ==
  ASSUME IInv, NEW p \in Process, FailRun(p)
  PROVE  IInv'
<1>. PICK v : v = Scan(job[p], "account", "failed")
  OBVIOUS
<1>1. job[p].token # 0 /\ job[p].epoch # 0 /\ job[p] \in Job
  BY RunningHolds DEF FailRun
<1>2. JobFits(v) /\ v.token = job[p].token /\ v.epoch = job[p].epoch
  BY <1>1, ScanFits DEF Outcome
<1>3. /\ UNCHANGED <<row, fence, said, calls>> /\ UNCHANGED ledger /\ job' = [job EXCEPT ![p] = v]
      /\ UNCHANGED <<expired, child>> /\ trouble' = trouble + 1
  BY DEF FailRun, Befalls, Set, canon
<1>4. OthersTyped'
  BY <1>3, HasStores DEF OthersTyped
<1>5. Calm
  BY <1>3, HasStores, QuietLedger
<1>. QED
  BY <1>2, <1>3, <1>4, <1>5, CalmStep DEF Inherits

LEMMA ExhaustStep ==
  ASSUME IInv, NEW p \in Process, Exhaust(p)
  PROVE  IInv'
<1>. PICK j : j = job[p]
  OBVIOUS
<1>. PICK v : v = [j EXCEPT !.at = "read"]
  OBVIOUS
<1>1. j.at = "exhaust" /\ JobFits(j) /\ Shape(j) /\ j \in Job
  BY HasStores DEF JobFits, Exhaust
<1>2. j.doing = "expire"
  BY <1>1, JobTypes DEF Shape, Staged, Purpose
<1>3. v \in Job /\ v.at = "read" /\ Same(v, j)
  BY <1>1, Step1 DEF Position
<1>4. Shape(v) /\ ~Walks(v) /\ Poised(v)
  BY <1>1, <1>2, <1>3 DEF Shape, Staged, Ends, Claims, Walks, Going, Same, Poised
<1>5. CASE Quit(p)
  BY <1>5, QuitStep
<1>6. CASE ~Quit(p)
  <2>1. /\ said' = said /\ expired' = "recorded" /\ Set(p, v)
        /\ UNCHANGED <<ledger, row, fence, outside>>
    BY <1>6 DEF Exhaust, Appends
  <2>2. UNCHANGED <<row, fence, said, calls>> /\ OthersTyped' /\ job' = [job EXCEPT ![p] = v]
    BY <2>1, HasStores DEF Set, outside, OthersTyped
  <2>3. Calm
    BY <2>1, HasStores, QuietLedger
  <2>. QED
    BY <1>3, <1>4, <2>2, <2>3, CalmStep DEF JobFits, Inherits, Same
<1>. QED
  BY <1>5, <1>6

LEMMA SuspendStep ==
  ASSUME IInv, NEW p \in Process, Suspend(p)
  PROVE  IInv'
<1>. PICK j : j = job[p]
  OBVIOUS
<1>1. j.at = "suspend" /\ JobFits(j) /\ Shape(j) /\ j \in Job
  BY HasStores DEF JobFits, Suspend
<1>2. j.doing \in {"run", "abort", "wait", "propagate"}
  BY <1>1, JobTypes DEF Shape, Staged, Purpose
<1>3. CASE Told(p, L!Suspend(Root, j.token, [kind |-> "child", on |-> j.wait]), Idle)
  <2>1. j.wait \in SUBSET Call
    BY <1>1, JobTypes
  <2>2. Calm
    BY <1>3, <2>1, HasStores, SuspendEffect DEF Told
  <2>3. JobFits(Idle) /\ Inherits(Idle, j)
    BY IdleFits, Blank DEF Inherits
  <2>. QED
    BY <1>3, <2>2, <2>3, ToldStep DEF Told
<1>4. CASE Only(p, IF j.doing \in {"run", "abort"} THEN Scan(j, j.doing, j.outcome) ELSE Done(j))
  <2>1. CASE j.doing \in {"run", "abort"}
    <3>. PICK d : d = j.doing
      OBVIOUS
    <3>. PICK o : o = j.outcome
      OBVIOUS
    <3>. PICK v : v = Scan(j, d, o)
      OBVIOUS
    <3>1. j.token # 0 /\ j.epoch # 0 /\ o \in Outcome \cup {None} /\ (d = "abort" => o = "aborted")
      BY <1>1, <2>1, JobTypes DEF Shape, Claims, Ends
    <3>2. JobFits(v) /\ v.token = j.token /\ v.epoch = j.epoch
      BY <1>1, <2>1, <3>1, ScanFits
    <3>3. Only(p, v)
      BY <1>4, <2>1
    <3>. QED
      BY <3>2, <3>3, QuietStep DEF Inherits
  <2>2. CASE j.doing \notin {"run", "abort"}
    BY <1>4, <2>2, QuitStep DEF Quit
  <2>. QED
    BY <2>1, <2>2
<1>5. CASE Quit(p)
  BY <1>5, QuitStep
<1>. QED
  BY <1>3, <1>4, <1>5 DEF Suspend

LEMMA SettleStep ==
  ASSUME IInv, NEW p \in Process, Settle(p)
  PROVE  IInv'
<1>. PICK j : j = job[p]
  OBVIOUS
<1>. PICK v : v = [j EXCEPT !.at = "finalize"]
  OBVIOUS
<1>1. j.at = "settle" /\ JobFits(j) /\ Shape(j) /\ Poised(j) /\ j \in Job
  BY HasStores DEF JobFits, Settle
<1>2. j.doing \in {"abort", "account", "close"}
  BY <1>1, JobTypes DEF Shape, Staged, Purpose
<1>3. v \in Job /\ v.at = "finalize" /\ Same(v, j)
  BY <1>1, Step1 DEF Position
<1>4. Shape(v) /\ ~Walks(v)
  BY <1>1, <1>2, <1>3 DEF Shape, Staged, Ends, Claims, Walks, Going, Same
<1>5. CASE Told(p, L!ReserveSettlement(Root, j.token, j.outcome, None), v)
  <2>. PICK k : k = j.token
    OBVIOUS
  <2>. PICK o : o = j.outcome
    OBVIOUS
  <2>1. k \in 0..minted /\ o \in Outcome
    BY <1>1, HasStores, JobTypes DEF Apart, Shape
  <2>2. /\ LedgerFits' /\ Steady /\ NoBirth /\ UNCHANGED <<epoch, minted>>
        /\ L!OwnsLane(Root, k) /\ sub'[Root].reserved.outcome = o
    BY <1>5, <2>1, HasStores, EndEffect DEF Told
  <2>3. k # 0
    BY <2>2 DEF L!OwnsLane, L!Owned
  <2>4. o # "aborted" => \A c \in Call : Gone(c)
    BY <1>1, <1>2, <2>2 DEF Poised, Mine, Shape, Ends
  <2>5. o = "completed" => \A c \in calls : said[c].joined # None
    BY <1>1, <1>2 DEF Poised, Shape, Ends
  <2>6. /\ UNCHANGED <<row, fence, said, calls>>
        /\ OthersTyped' /\ job' = [job EXCEPT ![p] = v]
    BY <1>5, HasStores DEF Told, Set, canon, outside, OthersTyped
  <2>7. Stores' /\ Acts(k, j.epoch)
    BY <2>2, <2>3, <2>4, <2>5, <2>6, HasStores, StoresEnd
  <2>8. JobFits(v)'
    BY <1>3, <1>4 DEF JobFits, Walks, Poised
  <2>. QED
    BY <1>3, <2>2, <2>6, <2>7, <2>8, WriteStep DEF Inherits, Same
<1>6. CASE Quit(p)
  BY <1>6, QuitStep
<1>. QED
  BY <1>5, <1>6 DEF Settle

LEMMA FinalizeStep ==
  ASSUME IInv, NEW p \in Process, Finalize(p)
  PROVE  IInv'
<1>. PICK v : v = Done(job[p])
  OBVIOUS
<1>1. JobFits(v) /\ Inherits(v, job[p])
  BY HasStores, DoneFits DEF Inherits
<1>2. CASE Told(p, L!FinalizeSettlement(Root), v)
  <2>1. Calm
    BY <1>2, HasStores, Calls, FinalEffect DEF Told
  <2>. QED
    BY <1>1, <1>2, <2>1, ToldStep DEF Told
<1>3. CASE Only(p, v)
  BY <1>1, <1>3, QuietStep
<1>. QED
  BY <1>2, <1>3 DEF Finalize

LEMMA ReleaseStep ==
  ASSUME IInv, NEW p \in Process, Release(p)
  PROVE  IInv'
<1>1. JobFits(Idle) /\ Inherits(Idle, job[p])
  BY IdleFits, Blank DEF Inherits
<1>2. CASE Told(p, L!ReleaseOwnership(Root, job[p].token), Idle)
  <2>. PICK k : k = job[p].token
    OBVIOUS
  <2>1. k \in 0..minted
    BY HasStores, JobTypes DEF Apart
  <2>2. Calm
    BY <1>2, <2>1, HasStores, ReleaseEffect DEF Told
  <2>. QED
    BY <1>1, <1>2, <2>2, ToldStep DEF Told
<1>3. CASE Only(p, Idle)
  BY <1>1, <1>3, QuietStep
<1>. QED
  BY <1>2, <1>3 DEF Release

-----------------------------------------------------------------------------
(***************************************************************************)
(* Recovery.                                                                *)
(***************************************************************************)
LEMMA SweepStep ==
  ASSUME IInv, NEW p \in Process, Sweep(p)
  PROVE  IInv'
<1>. PICK v : v = [Idle EXCEPT !.at = "inspect", !.knows = said]
  OBVIOUS
<1>1. said \in [Call -> Records] /\ "inspect" \in Position
  BY HasStores DEF Stores, Position
<1>2. /\ v \in Job /\ v.at = "inspect" /\ v.knows = said
      /\ v.doing = "run" /\ v.token = 0 /\ v.epoch = 0 /\ v.outcome = None
  <2>1. /\ v \in Job /\ v.at = "inspect" /\ v.knows = said
        /\ v.doing = Idle.doing /\ v.token = Idle.token /\ v.epoch = Idle.epoch
        /\ v.outcome = Idle.outcome
    BY <1>1, Blank DEF Job
  <2>. QED
    BY <2>1, Blank
<1>3. Shape(v) /\ ~Walks(v) /\ Poised(v)
  BY <1>2, Reflexive DEF Shape, Staged, Ends, Claims, Walks, Going, Poised
<1>. QED
  BY <1>2, <1>3, QuietStep DEF Sweep, JobFits, Inherits

Sound(plan, k) ==
  /\ plan.on \in SUBSET Call /\ plan.doing \in Purpose
  /\ plan.doing \in {"admit", "link", "wait", "wake", "apply", "propagate", "nudge", "orphan",
                     "close", "expire"} \/ plan = NoPlan
  /\ plan.doing \in {"admit", "link"} => \A c \in plan.on : said[c].requested
  /\ plan.doing = "apply" =>
       \A c \in plan.on : row[c].status # "absent"
       /\ (k[c].joined # None \/ row[c].status # "reserved")
  /\ plan.doing = "orphan" => \A c \in plan.on : row[c].status # "absent"
  /\ plan.doing \in {"wait", "propagate"} => \A c \in plan.on : L!Present(c)

LEMMA PlanSound ==
  ASSUME NEW k, NEW d \in Purpose \ {"run"}, NEW on \in SUBSET Call,
         d \in {"admit", "link"} => \A c \in on : said[c].requested,
         d = "apply" =>
           \A c \in on : row[c].status # "absent"
           /\ (k[c].joined # None \/ row[c].status # "reserved"),
         d = "orphan" => \A c \in on : row[c].status # "absent",
         d \in {"wait", "propagate"} => \A c \in on : L!Present(c),
         d \in {"admit", "link", "wait", "wake", "apply", "propagate", "nudge", "orphan",
                "close", "expire"}
  PROVE  Sound(Plan(d, on), k) /\ (on # {} => Sound(First(d, on), k))
<1>1. Sound(Plan(d, on), k)
  BY DEF Sound, Plan
<1>2. ASSUME on # {} PROVE Sound(First(d, on), k)
  <2>. PICK c : c = CHOOSE x \in on : \A e \in on : x <= e
    OBVIOUS
  <2>1. c \in on
    BY <1>2, FirstOf
  <2>2. First(d, on) = [doing |-> d, on |-> {c}]
    BY DEF First, Plan
  <2>. PICK q : q = First(d, on)
    OBVIOUS
  <2>3. q.doing = d /\ q.on = {c} /\ {c} \in SUBSET Call
    BY <2>1, <2>2
  <2>4. Sound(q, k)
    BY <2>1, <2>3 DEF Sound
  <2>. QED
    BY <2>4
<1>. QED
  BY <1>1, <1>2

LEMMA NoPlanSound ==
  ASSUME NEW k
  PROVE  Sound(NoPlan, k)
BY DEF Sound, NoPlan, Plan, Purpose

\* What the classification makes of the Calls.
LEMMA ViewsSound ==
  ASSUME IInv, NEW k, \A c \in Call : Knew(k[c], said[c]), NEW v, v = Views(k)
  PROVE  /\ v.apply \in SUBSET Call /\ v.unlinked \in SUBSET Call /\ v.open \in SUBSET Call
         /\ v.over \in SUBSET Call /\ v.asked \in SUBSET Call /\ v.none \in SUBSET Call
         /\ \A c \in v.unlinked \cup v.asked : said[c].requested
         /\ \A c \in v.apply :
              row[c].status # "absent" /\ (k[c].joined # None \/ row[c].status # "reserved")
         /\ \A c \in v.open \cup v.over : L!Present(c)
<1>1. calls \subseteq Call
  BY HasStores DEF Stores
<1>2. ASSUME NEW c \in Call, k[c].started \/ row[c].child \/ k[c].requested
      PROVE  said[c].requested
  <2>1. Knew(k[c], said[c]) /\ LinksAreTrue
    BY DEF IInv
  <2>. QED
    BY <1>2, <2>1 DEF Knew, LinksAreTrue
<1>. DEFINE live == {c \in calls : row[c].status # "released"}
            pending == {c \in live : row[c].status = "releasePending"}
            joined == {c \in live \ pending : k[c].joined # None}
            rest == live \ (pending \cup joined)
            exists(c) == k[c].started \/ row[c].child \/ (k[c].requested /\ L!Present(c))
            terminal(c) == row[c].child /\ sub[c].state = "settled"
            started == {c \in rest : k[c].started}
<1>3. /\ v.apply = pending \cup {c \in joined : row[c].status = "reserved"}
      /\ v.unlinked = {c \in rest : exists(c) /\ ~k[c].started}
      /\ v.open = {c \in started : ~terminal(c)}
      /\ v.over = {c \in started : terminal(c)}
      /\ v.asked = {c \in rest : ~exists(c) /\ k[c].requested}
      /\ v.none = {c \in rest : ~exists(c) /\ ~k[c].requested}
  BY DEF Views
<1>. HIDE DEF exists, terminal
<1>4. /\ v.apply \in SUBSET Call /\ v.unlinked \in SUBSET Call /\ v.open \in SUBSET Call
      /\ v.over \in SUBSET Call /\ v.asked \in SUBSET Call /\ v.none \in SUBSET Call
  BY <1>1, <1>3
<1>5. \A c \in v.unlinked \cup v.asked : said[c].requested
  BY <1>1, <1>2, <1>3 DEF exists
<1>6. ASSUME NEW c \in v.apply
      PROVE  row[c].status # "absent" /\ (k[c].joined # None \/ row[c].status # "reserved")
  BY <1>3
<1>7. ASSUME NEW c \in v.open \cup v.over PROVE L!Present(c)
  <2>1. c \in Call /\ k[c].started
    BY <1>1, <1>3, <1>7
  <2>. QED
    BY <2>1 DEF Knew, IInv, LinksAreTrue
<1>. QED
  BY <1>4, <1>5, <1>6, <1>7

LEMMA DecisionSound ==
  ASSUME IInv, NEW k, \A c \in Call : Knew(k[c], said[c])
  PROVE  Sound(Decision(k), k)
<1>. PICK v : v = Views(k)
  OBVIOUS
<1>1. /\ v.apply \in SUBSET Call /\ v.unlinked \in SUBSET Call /\ v.open \in SUBSET Call
      /\ v.over \in SUBSET Call /\ v.asked \in SUBSET Call /\ v.none \in SUBSET Call
      /\ \A c \in v.unlinked \cup v.asked : said[c].requested
      /\ \A c \in v.apply :
           row[c].status # "absent" /\ (k[c].joined # None \/ row[c].status # "reserved")
      /\ \A c \in v.open \cup v.over : L!Present(c)
  BY ViewsSound
<1>2. sub[Root].waiting.on \in SUBSET Call
  BY DEF IInv, LedgerFits
<1>3. Sound(NoPlan, k)
  BY NoPlanSound
<1>4. Sound(WhenAborted(v), k)
  <2>. DEFINE orphans == {c \in v.asked \cup v.none : row[c].status = "reserved"}
  <2>1. orphans \in SUBSET Call /\ \A c \in orphans : row[c].status # "absent"
    BY <1>1
  <2>. HIDE DEF orphans
  <2>2. v.unlinked # {} => Sound(First("link", v.unlinked), k)
    BY <1>1, PlanSound DEF Purpose
  <2>3. Sound(Plan("nudge", v.open), k) /\ Sound(Plan("propagate", v.open), k)
    BY <1>1, PlanSound DEF Purpose
  <2>4. Sound(Plan("wake", v.over), k)
    BY <1>1, PlanSound DEF Purpose
  <2>5. v.apply # {} => Sound(First("apply", v.apply), k)
    BY <1>1, PlanSound DEF Purpose
  <2>6. Sound(Plan("orphan", orphans), k)
    BY <2>1, PlanSound DEF Purpose
  <2>7. Sound(Plan("close", sub[Root].waiting.on), k)
    BY <1>2, PlanSound DEF Purpose
  <2>8. CASE v.unlinked # {}
    BY <2>2, <2>8 DEF WhenAborted
  <2>9. CASE v.unlinked = {} /\ v.open # {}
    <3>1. WhenAborted(v) = Plan(IF sub[Root].state = "suspended" THEN "nudge" ELSE "propagate",
          v.open)
      BY <2>9 DEF WhenAborted
    <3>. QED
      BY <2>3, <3>1
  <2>10. CASE v.unlinked = {} /\ v.open = {} /\ v.over # {}
    <3>1. WhenAborted(v) = Plan("wake", v.over)
      BY <2>10 DEF WhenAborted
    <3>. QED
      BY <2>4, <3>1
  <2>11. CASE v.unlinked = {} /\ v.open = {} /\ v.over = {} /\ v.apply # {}
    <3>1. WhenAborted(v) = First("apply", v.apply)
      BY <2>11 DEF WhenAborted
    <3>. QED
      BY <2>5, <2>11, <3>1
  <2>12. CASE v.unlinked = {} /\ v.open = {} /\ v.over = {} /\ v.apply = {} /\ orphans # {}
    <3>1. WhenAborted(v) = Plan("orphan", orphans)
      BY <2>12 DEF WhenAborted, orphans
    <3>. QED
      BY <2>6, <3>1
  <2>13. CASE v.unlinked = {} /\ v.open = {} /\ v.over = {} /\ v.apply = {} /\ orphans = {}
    <3>1. WhenAborted(v) = Plan("close", sub[Root].waiting.on)
      BY <2>13 DEF WhenAborted, orphans
    <3>. QED
      BY <2>7, <3>1
  <2>. QED
    BY <2>8, <2>9, <2>10, <2>11, <2>12, <2>13
<1>5. Sound(WhenSuspended, k)
  <2>1. Sound(Plan("wake", sub[Root].waiting.on), k)
    BY <1>2, PlanSound DEF Purpose
  <2>. QED
    BY <1>3, <2>1 DEF WhenSuspended
<1>6. Sound(WhenLive(v), k)
  <2>1. v.apply # {} => Sound(First("apply", v.apply), k)
    BY <1>1, PlanSound DEF Purpose
  <2>2. v.asked # {} => Sound(First("admit", v.asked), k)
    BY <1>1, PlanSound DEF Purpose
  <2>3. v.unlinked # {} => Sound(First("link", v.unlinked), k)
    BY <1>1, PlanSound DEF Purpose
  <2>4. Sound(Plan("wait", v.open \cup v.over), k)
    BY <1>1, PlanSound DEF Purpose
  <2>5. Sound(Plan("wake", v.over), k)
    BY <1>1, PlanSound DEF Purpose
  <2>6. CASE v.apply # {}
    BY <2>1, <2>6 DEF WhenLive
  <2>7. CASE v.apply = {} /\ v.asked # {}
    <3>1. WhenLive(v) = First("admit", v.asked)
      BY <2>7 DEF WhenLive
    <3>. QED
      BY <2>2, <2>7, <3>1
  <2>8. CASE v.apply = {} /\ v.asked = {} /\ v.unlinked # {}
    <3>1. WhenLive(v) = First("link", v.unlinked)
      BY <2>8 DEF WhenLive
    <3>. QED
      BY <2>3, <2>8, <3>1
  <2>9. CASE v.apply = {} /\ v.asked = {} /\ v.unlinked = {}
    <3>1. \/ WhenLive(v) = Plan("wait", v.open \cup v.over)
          \/ WhenLive(v) = Plan("wake", v.over)
          \/ WhenLive(v) = NoPlan
      <4>1. CASE v.none # {}
        BY <2>9, <4>1 DEF WhenLive
      <4>2. CASE v.none = {} /\ v.open # {}
        BY <2>9, <4>2 DEF WhenLive
      <4>3. CASE v.none = {} /\ v.open = {} /\ v.over # {}
        BY <2>9, <4>3 DEF WhenLive
      <4>4. CASE v.none = {} /\ v.open = {} /\ v.over = {}
        BY <2>9, <4>4 DEF WhenLive
      <4>. QED
        BY <4>1, <4>2, <4>3, <4>4
    <3>. QED
      BY <1>3, <2>4, <2>5, <3>1
  <2>. QED
    BY <2>6, <2>7, <2>8, <2>9
<1>7. Sound(Plan("expire", {}), k)
  BY PlanSound DEF Purpose
<1>. QED
  BY <1>3, <1>4, <1>5, <1>6, <1>7 DEF Decision

\* A decision about Calls is carried out without a claim, one Call after the other.
Scanned(j, plan, w) ==
  [j EXCEPT !.doing = plan.doing, !.todo = plan.on,
            !.rows = [c \in Call |-> IF plan.doing = "apply" /\ c \in plan.on
                                     THEN row[c] ELSE NoRow],
            !.knows = [c \in Call |-> IF plan.doing = "apply" /\ c \in plan.on
                                      THEN j.knows[c] ELSE Nothing],
            !.wait = w]
LEMMA PlannedWalk ==
  ASSUME IInv, NEW j \in Job, Shape(j), NEW plan, Sound(plan, j.knows),
         \A c \in Call : Knew(j.knows[c], said[c]),
         plan.doing \in {"admit", "link", "apply", "propagate", "nudge", "orphan"},
         NEW w \in SUBSET Call, NEW i, i = Scanned(j, plan, w)
  PROVE  /\ JobFits(Walk(i)) /\ Inherits(Walk(i), j)
         /\ SetsOff(i) /\ i.doing = plan.doing /\ i.wait = w
<1>. PICK rs : rs = [c \in Call |-> IF plan.doing = "apply" /\ c \in plan.on
                                    THEN row[c] ELSE NoRow]
  OBVIOUS
<1>. PICK ks : ks = [c \in Call |-> IF plan.doing = "apply" /\ c \in plan.on
                                    THEN j.knows[c] ELSE Nothing]
  OBVIOUS
<1>1. row \in [Call -> Reservation] /\ j.knows \in [Call -> Records]
  BY HasStores, JobTypes DEF Stores
<1>2. rs \in [Call -> Reservation] /\ ks \in [Call -> Records]
  BY <1>1, Blank
<1>. PICK d : d = plan.doing
  OBVIOUS
<1>. PICK on : on = plan.on
  OBVIOUS
<1>3. on \in SUBSET Call /\ d \in Purpose
      /\ d \in {"admit", "link", "apply", "propagate", "nudge", "orphan"}
  BY DEF Sound
<1>4. i = [j EXCEPT !.doing = d, !.todo = on, !.rows = rs, !.knows = ks, !.wait = w]
  BY DEF Scanned
<1>5. /\ i \in Job /\ i.doing = d /\ i.todo = on /\ i.rows = rs /\ i.knows = ks /\ i.wait = w
      /\ i.token = j.token /\ i.epoch = j.epoch
  BY ONLY j \in Job, <1>2, <1>3, <1>4, w \in SUBSET Call DEF Job
<1>6. Informed(i)
  <2>. SUFFICES ASSUME NEW c \in on PROVE Knew(ks[c], said[c]) /\ Saw(rs[c], row[c])
    BY <1>5 DEF Informed
  <2>1. CASE d = "apply"
    <3>1. ks[c] = j.knows[c] /\ rs[c] = row[c] /\ Knew(j.knows[c], said[c])
      BY <1>3, <2>1
    <3>. QED
      BY <3>1, Reflexive
  <2>2. CASE d # "apply"
    <3>1. ks[c] = Nothing /\ rs[c] = NoRow
      BY <1>3, <2>2
    <3>. QED
      BY <3>1, Blank DEF Knew, Saw, Closed
  <2>. QED
    BY <2>1, <2>2
<1>7. Chosen(i)
  <2>1. d = "apply" => \A c \in on : /\ rs[c].status # "absent"
                                     /\ ks[c].joined # None \/ rs[c].status # "reserved"
    <3>. SUFFICES ASSUME d = "apply", NEW c \in on
                  PROVE  /\ rs[c].status # "absent"
                         /\ ks[c].joined # None \/ rs[c].status # "reserved"
      OBVIOUS
    <3>1. ks[c] = j.knows[c] /\ rs[c] = row[c]
      BY <1>3
    <3>. QED
      BY <3>1 DEF Sound
  <2>2. d \in {"admit", "link"} => \A c \in on : said[c].requested
    BY DEF Sound
  <2>3. d = "orphan" => \A c \in on : row[c].status # "absent"
    BY DEF Sound
  <2>. QED
    BY <1>3, <1>5, <2>1, <2>2, <2>3 DEF Chosen
<1>8. Unjoined(i) /\ Undecided(i) /\ Swept(i) /\ Through(i)
  BY <1>3, <1>5 DEF Unjoined, Undecided, Swept, Through
<1>9. SetsOff(i)
  BY <1>3, <1>5, <1>6, <1>7, <1>8 DEF SetsOff, Carried, Ends
<1>. QED
  BY <1>5, <1>9, HasStores, WalkFits DEF Inherits

LEMMA InspectStep ==
  ASSUME IInv, NEW p \in Process, Inspect(p)
  PROVE  IInv'
<1>. PICK j : j = job[p]
  OBVIOUS
<1>. PICK plan : plan = Decision(j.knows)
  OBVIOUS
<1>. DEFINE asleep == sub[Root].state = "suspended"
            planned == [j EXCEPT !.doing = plan.doing, !.wait = plan.on, !.knows = Idle.knows]
<1>1. j.at = "inspect" /\ JobFits(j) /\ Shape(j) /\ Poised(j) /\ j \in Job
      /\ j.token = 0 /\ j.outcome = None
  BY HasStores DEF JobFits, Inspect, Shape
<1>2. \A c \in Call : Knew(j.knows[c], said[c])
  BY <1>1 DEF Poised
<1>3. Sound(plan, j.knows)
  BY <1>2, DecisionSound
<1>4. JobFits(Idle) /\ Inherits(Idle, j)
  BY IdleFits, Blank DEF Inherits
<1>5. CASE Only(p, Idle)
  BY <1>4, <1>5, QuietStep
<1>6. CASE Only(p, [Idle EXCEPT !.at = "finalize"])
  <2>. PICK v : v = [Idle EXCEPT !.at = "finalize"]
    OBVIOUS
  <2>1. v \in Job /\ v.at = "finalize" /\ Same(v, Idle)
    BY Blank, Step1 DEF Position
  <2>2. v.doing = "run" /\ v.token = 0 /\ v.epoch = 0
    BY <2>1, Blank DEF Same
  <2>3. Shape(v) /\ ~Walks(v) /\ Poised(v)
    BY <2>1, <2>2 DEF Shape, Staged, Ends, Claims, Walks, Going, Poised
  <2>. QED
    BY <1>6, <2>2, <2>3, QuietStep DEF JobFits, Inherits
<1>. PICK d : d = plan.doing
  OBVIOUS
<1>. PICK on : on = plan.on
  OBVIOUS
<1>7. on \in SUBSET Call /\ d \in Purpose
  BY <1>3 DEF Sound
<1>. PICK ks : ks = Idle.knows
  OBVIOUS
<1>8. ks \in [Call -> Records]
  BY Blank, JobTypes
<1>9. ASSUME NEW x \in {"wake", "acquire"}, NEW o \in {None, "aborted"}, NEW v \in Job,
             v.at = x, v.doing = d, v.outcome = o, v.token = j.token, v.epoch = j.epoch, Only(p, v),
             d \in {"wake", "wait", "expire", "close"},
             d \in {"wake", "wait", "expire"} => o = None, d = "close" => o = "aborted",
             d = "wake" => x = "wake", d \in {"wait", "expire"} => x = "acquire"
      PROVE  IInv'
  <2>1. Shape(v) /\ ~Walks(v) /\ Poised(v)
    BY <1>9 DEF Shape, Staged, Ends, Claims, Walks, Going, Poised
  <2>. QED
    BY <1>9, <2>1, QuietStep DEF JobFits, Inherits
<1>10. CASE plan.doing = "wake" /\ Only(p, [planned EXCEPT !.at = "wake"])
  <2>. PICK v : v = [j EXCEPT !.doing = d, !.wait = on, !.knows = ks, !.at = "wake"]
    OBVIOUS
  <2>1. Only(p, v)
    BY <1>1, <1>10 DEF Job
  <2>2. "wake" \in Position
    BY DEF Position
  <2>3. v \in Job /\ v.at = "wake" /\ v.doing = d /\ v.outcome = None
        /\ v.token = j.token /\ v.epoch = j.epoch
    BY ONLY <1>1, <1>7, <1>8, <2>2,
            v = [j EXCEPT !.doing = d, !.wait = on, !.knows = ks, !.at = "wake"]
       DEF Job
  <2>. QED
    BY <1>9, <1>10, <2>1, <2>3
<1>11. CASE plan.doing \in {"wait", "expire"} /\ Only(p, [planned EXCEPT !.at = "acquire"])
  <2>. PICK v : v = [j EXCEPT !.doing = d, !.wait = on, !.knows = ks, !.at = "acquire"]
    OBVIOUS
  <2>1. Only(p, v)
    BY <1>1, <1>11 DEF Job
  <2>2. "acquire" \in Position
    BY DEF Position
  <2>3. v \in Job /\ v.at = "acquire" /\ v.doing = d /\ v.outcome = None
        /\ v.token = j.token /\ v.epoch = j.epoch
    BY ONLY <1>1, <1>7, <1>8, <2>2,
            v = [j EXCEPT !.doing = d, !.wait = on, !.knows = ks, !.at = "acquire"]
       DEF Job
  <2>. QED
    BY <1>9, <1>11, <2>1, <2>3
<1>12. CASE /\ plan.doing = "close"
            /\ Only(p, [planned EXCEPT !.at = IF asleep THEN "wake" ELSE "acquire",
                                       !.outcome = "aborted"])
  <2>. PICK x : x = IF asleep THEN "wake" ELSE "acquire"
    OBVIOUS
  <2>. PICK v : v = [j EXCEPT !.doing = d, !.wait = on, !.knows = ks, !.at = x,
       !.outcome = "aborted"]
    OBVIOUS
  <2>1. Only(p, v)
    BY <1>1, <1>12 DEF Job
  <2>2. x \in Position /\ x \in {"wake", "acquire"} /\ "aborted" \in Outcome
    BY DEF Position, Outcome
  <2>3. v \in Job /\ v.at = x /\ v.doing = d /\ v.outcome = "aborted"
        /\ v.token = j.token /\ v.epoch = j.epoch
    BY ONLY <1>1, <1>7, <1>8, <2>2,
            v = [j EXCEPT !.doing = d, !.wait = on, !.knows = ks, !.at = x, !.outcome = "aborted"]
       DEF Job
  <2>. QED
    BY <1>9, <1>12, <2>1, <2>2, <2>3
<1>. DEFINE scanned ==
              Walk(Scanned(j, plan, IF plan.doing = "propagate" THEN plan.on ELSE {}))
<1>13. CASE /\ plan # NoPlan /\ plan.doing \notin {"wake", "wait", "expire", "close"}
            /\ Only(p, scanned)
  <2>. PICK w : w = IF plan.doing = "propagate" THEN plan.on ELSE {}
    OBVIOUS
  <2>. PICK i : i = Scanned(j, plan, w)
    OBVIOUS
  <2>1. Only(p, Walk(i))
    BY <1>13
  <2>2. plan.doing \in {"admit", "link", "apply", "propagate", "nudge", "orphan"}
    BY <1>3, <1>13 DEF Sound
  <2>3. w \in SUBSET Call
    BY <1>7
  <2>4. JobFits(Walk(i)) /\ Inherits(Walk(i), j)
    BY ONLY IInv, <1>1, <1>2, <1>3, <2>2, <2>3, PlannedWalk,
            i = Scanned(j, plan, w)
  <2>. QED
    BY <2>1, <2>4, QuietStep
<1>. HIDE DEF scanned, planned, asleep
<1>14. \/ Only(p, Idle) \/ Only(p, [Idle EXCEPT !.at = "finalize"])
       \/ plan.doing = "wake" /\ Only(p, [planned EXCEPT !.at = "wake"])
       \/ plan.doing \in {"wait", "expire"} /\ Only(p, [planned EXCEPT !.at = "acquire"])
       \/ /\ plan.doing = "close"
          /\ Only(p, [planned EXCEPT !.at = IF asleep THEN "wake" ELSE "acquire",
                                     !.outcome = "aborted"])
       \/ /\ plan # NoPlan /\ plan.doing \notin {"wake", "wait", "expire", "close"}
          /\ Only(p, scanned)
  BY DEF Inspect, Scanned, scanned, planned, asleep
<1>. QED
  BY <1>5, <1>6, <1>10, <1>11, <1>12, <1>13, <1>14

LEMMA WakeStep ==
  ASSUME IInv, NEW p \in Process, Wake(p)
  PROVE  IInv'
<1>. PICK j : j = job[p]
  OBVIOUS
<1>. PICK v : v = IF j.doing = "close" THEN [j EXCEPT !.at = "acquire"] ELSE Idle
  OBVIOUS
<1>1. j.at = "wake" /\ JobFits(j) /\ Shape(j) /\ j \in Job /\ j.wait \in SUBSET Call
  BY HasStores, JobTypes DEF JobFits, Wake
<1>2. JobFits(Idle) /\ Inherits(Idle, j)
  BY IdleFits, Blank DEF Inherits
<1>3. JobFits(v) /\ Inherits(v, j)
  <2>1. CASE j.doing = "close"
    <3>1. v = [j EXCEPT !.at = "acquire"] /\ "acquire" \in Position
      BY <2>1 DEF Position
    <3>2. v \in Job /\ v.at = "acquire" /\ Same(v, j)
      BY <1>1, <3>1, Step1
    <3>3. Shape(v) /\ ~Walks(v) /\ Poised(v)
      BY <1>1, <2>1, <3>2 DEF Shape, Staged, Ends, Claims, Walks, Going, Same, Poised
    <3>. QED
      BY <3>2, <3>3 DEF JobFits, Inherits, Same
  <2>2. CASE j.doing # "close"
    BY <1>2, <2>2
  <2>. QED
    BY <2>1, <2>2
<1>4. CASE \E c \in j.wait : Told(p, L!RecordChildSettled(Root, c), v)
  <2>1. PICK c \in j.wait : Told(p, L!RecordChildSettled(Root, c), v)
    BY <1>4
  <2>2. Calm
    BY <1>1, <2>1, HasStores, WakeEffect DEF Told
  <2>. QED
    BY <1>3, <2>1, <2>2, ToldStep DEF Told
<1>5. CASE Only(p, v)
  BY <1>3, <1>5, QuietStep
<1>6. CASE Only(p, Idle)
  BY <1>2, <1>6, QuietStep
<1>. QED
  BY <1>4, <1>5, <1>6 DEF Wake

-----------------------------------------------------------------------------
(***************************************************************************)
(* What the others do: children, operators, time and trouble.               *)
(***************************************************************************)
LEMMA CrashStep ==
  ASSUME IInv, NEW p \in Process, Crash(p)
  PROVE  IInv'
<1>1. JobFits(Idle) /\ Inherits(Idle, job[p])
  BY IdleFits, Blank DEF Inherits
<1>2. /\ UNCHANGED <<row, fence, said, calls>> /\ UNCHANGED ledger
         /\ job' = [job EXCEPT ![p] = Idle]
      /\ UNCHANGED <<expired, child>> /\ trouble' = trouble + 1
  BY DEF Crash, Befalls, Set, canon
<1>3. OthersTyped' /\ Calm
  BY <1>2, HasStores, QuietLedger DEF OthersTyped
<1>. QED
  BY <1>1, <1>2, <1>3, CalmStep

LEMMA ChildMoves ==
  ASSUME IInv, NEW c \in Call, NEW x \in {"running", "announce", "finalize", "repeat", "done"},
         Child(c, x), UNCHANGED expired, trouble' \in Nat
  PROVE  OthersTyped'
BY HasStores DEF OthersTyped, Child

LEMMA SettlingStep ==
  ASSUME IInv, NEW c \in Call, Settling(c) \/ CrashChild(c)
  PROVE  IInv'
<1>0. trouble \in Nat
  BY HasStores DEF OthersTyped
<1>1. CASE Decide(c)
  <2>1. Calm
    BY <1>1, HasStores, DecideEffect
  <2>2. UNCHANGED <<row, fence, said, calls, job>> /\ OthersTyped'
    BY <1>0, <1>1, ChildMoves DEF Decide, canon
  <2>. QED
    BY <2>1, <2>2, EnvStep
<1>2. CASE Notify(c)
  <2>1. Calm
    BY <1>2, HasStores, WakeEffect, QuietLedger DEF Notify
  <2>2. UNCHANGED <<row, fence, said, calls, job>> /\ OthersTyped'
    <3>1. CASE child[c] = "announce"
      BY <1>0, <1>2, <3>1, ChildMoves DEF Notify, canon
    <3>2. CASE child[c] # "announce"
      BY <1>0, <1>2, <3>2, ChildMoves DEF Notify, canon
    <3>. QED
      BY <3>1, <3>2
  <2>. QED
    BY <2>1, <2>2, EnvStep
<1>3. CASE FinalizeChild(c)
  <2>1. Calm
    BY <1>3, HasStores, Calls, FinalEffect DEF FinalizeChild
  <2>2. UNCHANGED <<row, fence, said, calls, job>> /\ OthersTyped'
    BY <1>0, <1>3, ChildMoves DEF FinalizeChild, canon
  <2>. QED
    BY <2>1, <2>2, EnvStep
<1>4. CASE CrashChild(c)
  <2>1. Calm
    BY <1>4, HasStores, QuietLedger DEF CrashChild
  <2>2. UNCHANGED <<row, fence, said, calls, job>> /\ OthersTyped'
    <3>0. trouble' \in Nat
      BY <1>0, <1>4 DEF CrashChild, Befalls
    <3>1. CASE child[c] = "finalize"
      BY <1>4, <3>0, <3>1, ChildMoves DEF CrashChild, canon
    <3>2. CASE child[c] # "finalize"
      BY <1>4, <3>0, <3>2, ChildMoves DEF CrashChild, canon
    <3>. QED
      BY <3>1, <3>2
  <2>. QED
    BY <2>1, <2>2, EnvStep
<1>. QED
  BY <1>1, <1>2, <1>3, <1>4 DEF Settling

LEMMA OutsideStep ==
  ASSUME IInv, RequestAbort \/ Elapse \/ LeaseExpires
  PROVE  IInv'
<1>0. trouble \in Nat /\ OthersTyped
  BY HasStores DEF OthersTyped
<1>1. CASE RequestAbort
  <2>1. Calm
    BY <1>1, HasStores, Calls, AbortEffect DEF RequestAbort
  <2>2. UNCHANGED <<row, fence, said, calls, job>> /\ OthersTyped'
    BY <1>0, <1>1 DEF RequestAbort, Befalls, canon, OthersTyped
  <2>. QED
    BY <2>1, <2>2, EnvStep
<1>2. CASE Elapse
  <2>1. Calm
    BY <1>2, HasStores, QuietLedger DEF Elapse
  <2>2. UNCHANGED <<row, fence, said, calls, job>> /\ OthersTyped'
    BY <1>0, <1>2 DEF Elapse, Befalls, OthersTyped
  <2>. QED
    BY <2>1, <2>2, EnvStep
<1>3. CASE LeaseExpires
  <2>1. Calm
    BY <1>3, HasStores, ExpiryEffect DEF LeaseExpires
  <2>2. UNCHANGED <<row, fence, said, calls, job>> /\ OthersTyped'
    <3>1. trouble' \in Nat
      BY <1>0, <1>3 DEF LeaseExpires, Befalls
    <3>. QED
      BY <1>0, <1>3, <3>1 DEF LeaseExpires, canon, OthersTyped
  <2>. QED
    BY <2>1, <2>2, EnvStep
<1>. QED
  BY <1>1, <1>2, <1>3

-----------------------------------------------------------------------------
(***************************************************************************)
(* The inductive invariant.                                                 *)
(***************************************************************************)
LEMMA InitIInv == Init => IInv
<1>. SUFFICES ASSUME Init PROVE IInv
  OBVIOUS
<1>1. LP!Fresh \in LP!Row /\ LP!Absent \in LP!Row /\ LP!NotAdmitted \in LP!Admission
  <2>1. LP!NotAdmitted \in LP!Admission
    BY Calls DEF LP!NotAdmitted, LP!Admission, LP!Origins
  <2>2. LP!Fresh \in LP!Row /\ LP!Absent \in LP!Row
    BY LedgerConstants, LP!FreshInRow
  <2>. QED
    BY <2>1, <2>2
<1>2. /\ LP!Fresh.reserved = None /\ LP!Absent.reserved = None /\ LP!Absent.state = "absent"
      /\ LP!Fresh.waiting.on = {}
  BY DEF LP!Fresh, LP!Absent, LP!NotWaiting
<1>. PICK r : r = [LP!Fresh EXCEPT !.state = "input-applied", !.applied = TRUE]
  OBVIOUS
<1>3. /\ r \in LP!Row /\ r.state = "input-applied" /\ r.reserved = None /\ r.waiting.on = {}
  BY <1>1, <1>2 DEF LP!Row, LP!SubmissionState, LP!BeforeTerminalizing, LP!BeforeInputApplied
<1>4. /\ sub = [s \in Submission |-> IF s = Root THEN r ELSE LP!Absent]
      /\ adm = [s \in Submission |->
           IF s = Root THEN [thread |-> Root, key |-> Root, group |-> None, origin |-> "none",
           seq |-> 1]
           ELSE LP!NotAdmitted]
  BY SameLedger DEF Init
<1>5. LP!TypeOK
  <2>1. sub \in [Submission -> LP!Row]
    BY <1>1, <1>3, <1>4
  <2>2. adm \in [Submission -> LP!Admission]
    <3>1. [thread |-> Root, key |-> Root, group |-> None, origin |-> "none",
          seq |-> 1] \in LP!Admission
      BY Calls DEF LP!Admission, LP!Origins
    <3>. QED
      BY <1>1, <1>4, <3>1
  <2>3. next \in [Submission -> Nat \ {0}] /\ epoch \in [Submission -> Nat] /\ minted \in Nat
        /\ stopped \in [Submission -> LP!Terminal \cup {"open", "stopped"}]
    BY DEF Init
  <2>. QED
    BY <2>1, <2>2, <2>3 DEF LP!TypeOK
<1>6. sub[Root] = r /\ \A c \in Call : sub[c] = LP!Absent
  BY <1>4, Calls
<1>7. LedgerFits
  <2>1. adm[Root].thread = Root
    BY <1>4, Calls
  <2>2. \A s \in Submission : s = Root \/ s \in Call
    BY DEF Submission
  <2>. QED
    BY <1>2, <1>3, <1>5, <1>6, <2>1, <2>2 DEF LedgerFits
<1>8. \A c \in Call : row[c] = NoRow /\ said[c] = Nothing
  BY DEF Init
<1>9. Typed
  <2>1. calls \subseteq Call
    BY Calls DEF Init, Call
  <2>. QED
    BY <2>1, Blank DEF Init, Typed
<1>10. LinksAreTrue /\ AccountingIsCanonical /\ OwesNoChild /\ \A c \in Call : RowFits(c)
  BY <1>2, <1>3, <1>6, <1>8, Blank
     DEF LinksAreTrue, AccountingIsCanonical, OwesNoChild, RowFits, L!Present
<1>11. \A p \in Process : job[p] = Idle
  BY DEF Init
<1>12. Apart
  BY <1>11, Blank, Calls DEF Apart, Init
<1>13. \A p \in Process : JobFits(job[p])
  BY <1>11, IdleFits
<1>. QED
  BY <1>7, <1>9, <1>10, <1>12, <1>13 DEF IInv

LEMMA NextIInv == IInv /\ [Next]_vars => IInv'
<1>. SUFFICES ASSUME IInv, [Next]_vars PROVE IInv'
  OBVIOUS
<1>1. ASSUME NEW p \in Process, Step(p) PROVE IInv'
  BY <1>1, ReserveStep, LinkStep, FreezeStep, FreeStep, RequestStep, ResolveStep, AdmitStep,
     ReadyStep,
     StartStep, LookupStep, JoinStep, BidStep, AttachStep, ReadStep, ConsultStep, HaltStep,
     ExpireStep, ExhaustStep, SuspendStep, SettleStep, FinalizeStep, ReleaseStep, InspectStep,
     WakeStep, AcquireStep DEF Step
<1>2. ASSUME NEW p \in Process, FailRun(p) \/ Claim(p) \/ Sweep(p) \/ Crash(p) PROVE IInv'
  BY <1>2, FailRunStep, ClaimStep, SweepStep, CrashStep
<1>3. ASSUME NEW c \in Call, Settling(c) \/ CrashChild(c) PROVE IInv'
  BY <1>3, SettlingStep
<1>4. CASE RequestAbort \/ Elapse \/ LeaseExpires
  BY <1>4, OutsideStep
<1>5. CASE UNCHANGED vars
  <2>1. UNCHANGED ledger /\ UNCHANGED <<row, fence, said, calls, job>> /\ OthersTyped'
    BY <1>5, HasStores DEF vars, canon, outside, OthersTyped
  <2>. QED
    BY <2>1, HasStores, QuietLedger, EnvStep
<1>. QED
  BY <1>1, <1>2, <1>3, <1>4, <1>5 DEF Next

\* Every step of the Attempts, of recovery, of the children and of the world around them
\* keeps the invariant.
THEOREM Invariant == Spec => []IInv
BY InitIInv, NextIInv, PTL DEF Spec

\* The rows, the log, the ledger and the jobs stay within their types.
THEOREM TypeCorrect == Spec => []TypeOK
<1>1. IInv => TypeOK
  BY SameLedger DEF IInv, LedgerFits, Typed, TypeOK
<1>. QED
  BY Invariant, <1>1, PTL

\* In whatever order Attempts and repairs write them: a child exists only under a canonical
\* request and a reservation, a start link and an attachment name a child that exists, and a
\* join one that has settled (runDelegatedCall, establishChild, repairChildLink).
THEOREM LinksHold == Spec => []LinksAreTrue
<1>1. IInv => LinksAreTrue
  BY DEF IInv
<1>. QED
  BY Invariant, <1>1, PTL

\* A budget is charged what the canonical join says, even if the Attempt that froze the
\* decision read the log before it lost the parent (beginChildBudgetRelease).
THEOREM AccountingsHold == Spec => []AccountingIsCanonical
<1>1. IInv => AccountingIsCanonical
  BY DEF IInv
<1>. QED
  BY Invariant, <1>1, PTL

\* A Run that completes or fails leaves no reservation open, and a completed one has joined
\* every child: what the scan before the settlement saw still holds when it is reserved.
THEOREM NothingOwed == Spec => []OwesNoChild
<1>1. IInv => OwesNoChild
  BY DEF IInv
<1>. QED
  BY Invariant, <1>1, PTL

-----------------------------------------------------------------------------
LEMMA RowsKept ==
  ASSUME row' = row
  PROVE  IInv => Frozen
BY DEF IInv, Frozen, RowFits

\* One row is written, and only moves on.
MovesOn(c, r) ==
  /\ row' = [row EXCEPT ![c] = r]
  /\ row[c].accounting # None => r.accounting = row[c].accounting
  /\ row[c].status = "released" => r = row[c]
  /\ r.status = "released" => r.accounting # None
  /\ row[c].child => r.child
LEMMA FrozenBut ==
  ASSUME IInv, NEW c \in Call, NEW r, MovesOn(c, r)
  PROVE  Frozen
<1>1. \A d \in Call : row[d].status = "released" => row[d].accounting # None
  BY DEF IInv, RowFits
<1>2. row'[c] = r /\ \A d \in Call \ {c} : row'[d] = row[d]
  BY HasStores DEF Stores, MovesOn
<1>3. ASSUME NEW d \in Call
      PROVE  /\ row[d].accounting # None => row'[d].accounting = row[d].accounting
             /\ row[d].status = "released" => row'[d] = row[d]
             /\ row'[d].status = "released" => row'[d].accounting # None
             /\ row[d].child => row'[d].child
  <2>1. CASE d = c
    BY <1>2, <2>1 DEF MovesOn
  <2>2. CASE d # c
    BY <1>1, <1>2, <2>2
  <2>. QED
    BY <2>1, <2>2
<1>. QED
  BY <1>3 DEF Frozen

LEMMA StepFrozen == IInv /\ [Next]_vars => [Frozen]_vars
<1>. SUFFICES ASSUME IInv, [Next]_vars PROVE Frozen \/ UNCHANGED vars
  OBVIOUS
<1>1. ASSUME NEW p \in Process, Only(p, Done(job[p])) PROVE row' = row
  BY <1>1 DEF Only
<1>2. ASSUME NEW p \in Process, Reserve(p) PROVE Frozen
  <2>. PICK j : j = job[p]
    OBVIOUS
  <2>1. j.at \in Going /\ j.at = "reserve"
    BY <1>2 DEF Reserve, Going
  <2>2. j.c \in Call /\ RowFits(j.c) /\ row[j.c] \in Reservation
    BY <2>1, Dealing
  <2>3. CASE row[j.c].status = "absent" /\ row' = [row EXCEPT ![j.c].status = "reserved"]
    <3>. PICK r : r = [row[j.c] EXCEPT !.status = "reserved"]
      OBVIOUS
    <3>1. /\ r \in Reservation /\ r.child = row[j.c].child /\ r.status = "reserved"
          /\ r.accounting = row[j.c].accounting
      BY <2>2 DEF Reservation
    <3>2. row' = [row EXCEPT ![j.c] = r]
      BY <2>3
    <3>9. MovesOn(j.c, r)
      BY <2>2, <2>3, <3>1, <3>2 DEF MovesOn
    <3>. QED
      BY <2>2, <3>9, FrozenBut
  <2>4. CASE row' = row
    BY <2>4, RowsKept
  <2>. QED
    BY <1>2, <2>3, <2>4 DEF Reserve, Quit, Only
<1>3. ASSUME NEW p \in Process, Link(p) PROVE Frozen
  <2>. PICK j : j = job[p]
    OBVIOUS
  <2>1. j.at \in Going /\ j.at = "link"
    BY <1>3 DEF Link, Going
  <2>2. j.c \in Call /\ RowFits(j.c) /\ row[j.c] \in Reservation
    BY <2>1, Dealing
  <2>3. CASE row[j.c].status = "reserved" /\ row' = [row EXCEPT ![j.c].child = TRUE]
    <3>. PICK r : r = [row[j.c] EXCEPT !.child = TRUE]
      OBVIOUS
    <3>1. /\ r \in Reservation /\ r.child /\ r.status = row[j.c].status
          /\ r.accounting = row[j.c].accounting
      BY <2>2 DEF Reservation
    <3>2. row' = [row EXCEPT ![j.c] = r]
      BY <2>3
    <3>9. MovesOn(j.c, r)
      BY <2>2, <2>3, <3>1, <3>2 DEF MovesOn
    <3>. QED
      BY <2>2, <3>9, FrozenBut
  <2>4. CASE row' = row
    BY <2>4, RowsKept
  <2>. QED
    BY <1>3, <2>3, <2>4 DEF Link, Quit, Only
<1>4. ASSUME NEW p \in Process, Freeze(p) PROVE Frozen
  <2>. PICK j : j = job[p]
    OBVIOUS
  <2>1. j.at \in Going /\ j.at = "freeze"
    BY <1>4 DEF Freeze, Going
  <2>2. j.c \in Call /\ RowFits(j.c) /\ row[j.c] \in Reservation /\ Due(j) /\ j \in Job
    BY <2>1, Dealing
  <2>3. CASE /\ row[j.c].status = "reserved"
             /\ row' = [row EXCEPT ![j.c].status = "releasePending", ![j.c].accounting = j.money]
    <3>. PICK r : r = [row[j.c] EXCEPT !.status = "releasePending", !.accounting = j.money]
      OBVIOUS
    <3>1. j.money \in Accounting
      BY <2>1, <2>2, JobTypes DEF Due
    <3>2. /\ r \in Reservation /\ r.child = row[j.c].child /\ r.status = "releasePending"
      BY <2>2, <3>1 DEF Reservation
    <3>3. row' = [row EXCEPT ![j.c] = r]
      BY <2>2, <2>3, HasStores DEF Stores
    <3>4. row[j.c].accounting = None
      BY <2>2, <2>3 DEF RowFits
    <3>9. MovesOn(j.c, r)
      BY <2>2, <2>3, <3>2, <3>3, <3>4 DEF MovesOn
    <3>. QED
      BY <2>2, <3>9, FrozenBut
  <2>4. CASE row' = row
    BY <2>4, RowsKept
  <2>. QED
    BY <1>4, <2>3, <2>4 DEF Freeze, Quit, Only
<1>5. ASSUME NEW p \in Process, Free(p) PROVE Frozen
  <2>. PICK j : j = job[p]
    OBVIOUS
  <2>1. j.at \in Going /\ j.at = "free"
    BY <1>5 DEF Free, Going
  <2>2. j.c \in Call /\ RowFits(j.c) /\ row[j.c] \in Reservation
    BY <2>1, Dealing
  <2>3. CASE row[j.c].status = "releasePending" /\ row' = [row EXCEPT ![j.c].status = "released"]
    <3>. PICK r : r = [row[j.c] EXCEPT !.status = "released"]
      OBVIOUS
    <3>1. /\ r \in Reservation /\ r.child = row[j.c].child /\ r.status = "released"
          /\ r.accounting = row[j.c].accounting
      BY <2>2 DEF Reservation
    <3>2. row' = [row EXCEPT ![j.c] = r]
      BY <2>3
    <3>3. row[j.c].accounting # None
      BY <2>2, <2>3 DEF RowFits
    <3>9. MovesOn(j.c, r)
      BY ONLY <2>2, <2>3, <3>1, <3>2, <3>3 DEF MovesOn
    <3>. QED
      BY <2>2, <3>9, FrozenBut
  <2>4. CASE row' = row
    BY <2>4, RowsKept
  <2>. QED
    BY <1>5, <2>3, <2>4 DEF Free, Only
<1>6. ASSUME NEW p \in Process, Step(p), ~Reserve(p), ~Link(p), ~Freeze(p), ~Free(p)
      PROVE row' = row
  BY <1>6 DEF Step, Request, Resolve, Admit, Ready, Start, Lookup, Join, Bid, Attach, Read, Consult,
     Halt, Expire, Exhaust, Suspend, Settle, Finalize, Release, Inspect, Wake, Acquire, Quit, Only,
     Told, Appends
<1>7. ASSUME NEW p \in Process, FailRun(p) \/ Claim(p) \/ Sweep(p) \/ Crash(p) PROVE row' = row
  BY <1>7 DEF FailRun, Claim, Sweep, Crash, Only, Told
<1>8. ASSUME NEW c \in Call, Settling(c) \/ CrashChild(c) PROVE row' = row
  BY <1>8 DEF Settling, Decide, Notify, FinalizeChild, CrashChild
<1>9. CASE RequestAbort \/ Elapse \/ LeaseExpires
  <2>1. row' = row
    BY <1>9 DEF RequestAbort, Elapse, LeaseExpires
  <2>. QED
    BY <2>1, RowsKept
<1>. QED
  BY <1>2, <1>3, <1>4, <1>5, <1>6, <1>7, <1>8, <1>9, RowsKept DEF Next

\* A reservation only moves on: its accounting is frozen once, it is released once, and it
\* keeps the child it was attached to.
THEOREM DecisionsStay == Spec => DecisionsAreFrozen
BY Invariant, StepFrozen, PTL DEF Spec, DecisionsAreFrozen

-----------------------------------------------------------------------------
(***************************************************************************)
(* Children that are waited for, or looked up, exist.                       *)
(***************************************************************************)
Waited(j) ==
  j.doing \in {"run", "abort", "wait", "propagate"} => \A c \in j.wait : L!Present(c)
Found(j) ==
  j.at = "lookup" \/ (j.at = "bid" /\ j.doing = "abort") => L!Present(j.c)
Awaits(j) == Waited(j) /\ Found(j)

LEMMA IdleAwaits == Awaits(Idle)
  BY Blank DEF Awaits, Waited, Found

LEMMA DoneAwaits ==
  ASSUME NEW j
  PROVE  Awaits(Done(j))
<1>1. CASE j.token = 0
  BY <1>1, IdleAwaits DEF Done
<1>2. CASE j.token # 0
  <2>1. PICK v : v = [Idle EXCEPT !.at = "release", !.token = j.token]
    OBVIOUS
  <2>2. v.wait = {} /\ v.at = "release"
    BY <2>1, Blank DEF Job
  <2>. QED
    BY <1>2, <2>1, <2>2 DEF Done, Awaits, Waited, Found
<1>. QED
  BY <1>1, <1>2

LEMMA ScanAwaits ==
  ASSUME NEW j, NEW doing, NEW o, NEW v,
         v = Scan(j, doing, o) \/ v = [Scan(j, doing, o) EXCEPT !.at = "exhaust"]
  PROVE  Awaits(v)
<1>1. PICK w : w = Scan(j, doing, o)
  OBVIOUS
<1>2. w.wait = {} /\ w.at = "read"
  BY <1>1, Blank DEF Scan, Job
<1>3. [w EXCEPT !.at = "exhaust"].wait = {} /\ [w EXCEPT !.at = "exhaust"].at = "exhaust"
  BY <1>1, Blank DEF Scan, Job
<1>4. v.wait = {} /\ v.at \in {"read", "exhaust"}
  BY <1>1, <1>2, <1>3
<1>. QED
  BY <1>4 DEF Awaits, Waited, Found

\* A job that goes on with the same Call waits for the same children.
LEMMA SameAwaits ==
  ASSUME NEW j, NEW v, Awaits(j), v.doing = j.doing, v.wait = j.wait, v.c = j.c,
         v.at \in {"lookup", "bid"} => L!Present(j.c)
  PROVE  Awaits(v)
BY DEF Awaits, Waited, Found

\* What a Call is opened with names a child that the log or its row names.
LEMMA OpeningFinds ==
  ASSUME LinksAreTrue, NEW i, NEW c \in Call, Knew(i.knows[c], said[c]), Saw(i.rows[c], row[c]),
         i.doing \in {"run", "abort", "expire", "account", "admit", "link", "apply", "propagate",
                      "nudge", "orphan"}
  PROVE  /\ Opening(i, c).at = "lookup" => L!Present(c)
         /\ Opening(i, c).at = "bid" => i.doing # "abort"
<1>. PICK k : k = i.knows[c]
  OBVIOUS
<1>. PICK r : r = i.rows[c]
  OBVIOUS
<1>1. k.started \/ r.child => L!Present(c)
  BY DEF LinksAreTrue, Knew, Saw
<1>2. CASE i.doing = "run"
  BY <1>2 DEF Opening, To
<1>3. CASE i.doing \in {"admit", "link"}
  BY <1>3 DEF Opening, To
<1>4. CASE i.doing \in {"propagate", "nudge"}
  BY <1>4 DEF Opening, To
<1>5. CASE i.doing = "orphan"
  BY <1>5 DEF Opening, To
<1>6. CASE i.doing \in {"abort", "expire", "account", "apply"}
  <2>1. CASE k.joined # None
    BY <1>6, <2>1 DEF Opening, To
  <2>2. CASE k.joined = None /\ r.status # "reserved"
    BY <1>6, <2>2 DEF Opening, To
  <2>3. CASE k.joined = None /\ r.status = "reserved"
    <3>1. CASE k.started \/ r.child
      <4>1. Opening(i, c).at # "bid"
        BY <1>6, <2>3, <3>1 DEF Opening, To
      <4>. QED
        BY <1>1, <3>1, <4>1
    <3>2. CASE ~k.started /\ ~r.child
      BY <1>6, <2>3, <3>2 DEF Opening, To
    <3>. QED
      BY <3>1, <3>2
  <2>. QED
    BY <2>1, <2>2, <2>3
<1>. QED
  BY <1>2, <1>3, <1>4, <1>5, <1>6

LEMMA OverAwaits ==
  ASSUME NEW i \in Job, Waited(i)
  PROVE  Awaits(Over(i))
<1>1. ASSUME NEW x \in {"settle", "suspend", "acquire"}
      PROVE  Awaits([i EXCEPT !.at = x])
  <2>. PICK v : v = [i EXCEPT !.at = x]
    OBVIOUS
  <2>1. v.at = x /\ v.doing = i.doing /\ v.wait = i.wait
    BY DEF Job
  <2>. QED
    BY <2>1 DEF Awaits, Waited, Found
<1>2. Awaits(Scan(i, "account", "completed")) /\ Awaits(Scan(i, "account", i.outcome))
  BY ScanAwaits
<1>3. \/ Over(i) = Done(i)
      \/ Over(i) \in {Scan(i, "account", "completed"), Scan(i, "account", i.outcome)}
      \/ \E x \in {"settle", "suspend", "acquire"} : Over(i) = [i EXCEPT !.at = x]
  <2>1. CASE i.doing = "run"
    BY <2>1 DEF Over
  <2>2. CASE i.doing = "expire"
    BY <2>2 DEF Over
  <2>3. CASE i.doing = "abort"
    BY <2>3 DEF Over
  <2>4. CASE i.doing = "account"
    <3>1. CASE i.wait = {} /\ i.outcome # None
      BY <2>4, <3>1 DEF Over
    <3>2. CASE ~(i.wait = {} /\ i.outcome # None)
      BY <2>4, <3>2 DEF Over
    <3>. QED
      BY <3>1, <3>2
  <2>5. CASE i.doing = "propagate"
    BY <2>5 DEF Over
  <2>6. CASE i.doing \notin {"run", "expire", "abort", "account", "propagate"}
    BY <2>6 DEF Over
  <2>. QED
    BY <2>1, <2>2, <2>3, <2>4, <2>5, <2>6
<1>. QED
  BY <1>1, <1>2, <1>3, DoneAwaits

LEMMA WalkAwaits ==
  ASSUME LinksAreTrue, NEW i \in Job, Waited(i), Informed(i),
         i.doing \in {"run", "abort", "expire", "account", "admit", "link", "apply", "propagate",
                      "nudge", "orphan"}
  PROVE  Awaits(Walk(i))
<1>1. CASE i.todo = {}
  BY <1>1, OverAwaits DEF Walk
<1>2. CASE i.todo # {}
  <2>0. i.todo \in SUBSET Call
    BY JobTypes
  <2>1. PICK c \in i.todo : c = CHOOSE d \in i.todo : \A e \in i.todo : d <= e
    BY <1>2, <2>0, FirstOf
  <2>2. PICK x : x = Opening(i, c).at
    OBVIOUS
  <2>3. PICK m : m = Opening(i, c).money
    OBVIOUS
  <2>4. PICK v : v = [i EXCEPT !.c = c, !.at = x, !.money = m]
    OBVIOUS
  <2>5. Walk(i) = v
    BY <1>2, <2>1, <2>2, <2>3, <2>4 DEF Walk
  <2>6. v.c = c /\ v.at = x /\ v.doing = i.doing /\ v.wait = i.wait
    BY <2>4 DEF Job
  <2>7. (x = "lookup" => L!Present(c)) /\ (x = "bid" => i.doing # "abort")
    BY <2>0, <2>2, OpeningFinds DEF Informed
  <2>. QED
    BY <2>5, <2>6, <2>7 DEF Awaits, Waited, Found
<1>. QED
  BY <1>1, <1>2

\* A Call is left behind, or waited for.
LEMMA PastAwaits ==
  ASSUME LinksAreTrue, NEW j \in Job, j.c \in Call, Informed(j), Awaits(j),
         j.doing \in {"run", "abort", "expire", "account", "admit", "link", "apply", "propagate",
                      "nudge", "orphan"}
  PROVE  Awaits(Onward(j)) /\ (L!Present(j.c) => Awaits(Waiting(j)))
<1>1. PICK v : v = Past(j)
  OBVIOUS
<1>2. /\ v \in Job /\ v.todo = j.todo \ {j.c} /\ v.wait = j.wait /\ v.doing = j.doing
      /\ \A d \in Call \ {j.c} : v.rows[d] = j.rows[d] /\ v.knows[d] = j.knows[d]
  BY <1>1, PastFields
<1>3. j.todo \in SUBSET Call /\ j.wait \in SUBSET Call
  BY JobTypes
<1>4. Informed(v) /\ Waited(v)
  BY <1>2, <1>3 DEF Informed, Awaits, Waited
<1>5. Awaits(Onward(j))
  BY <1>1, <1>2, <1>4, WalkAwaits DEF Onward
<1>6. ASSUME L!Present(j.c) PROVE Awaits(Waiting(j))
  <2>1. PICK w : w = v.wait \cup {j.c}
    OBVIOUS
  <2>2. PICK i : i = [v EXCEPT !.wait = w]
    OBVIOUS
  <2>3. w \in SUBSET Call
    BY <1>2, <1>3, <2>1
  <2>4. i \in Job
    BY <1>2, <2>2, <2>3 DEF Job
  <2>5. /\ i.todo = v.todo /\ i.wait = w /\ i.doing = v.doing /\ i.rows = v.rows
        /\ i.knows = v.knows
    BY <1>2, <2>2 DEF Job
  <2>6. Waited(i)
    BY <1>4, <1>6, <2>1, <2>5 DEF Waited
  <2>7. Informed(i)
    BY <1>4, <2>5 DEF Informed
  <2>8. Waiting(j) = Walk(i)
    BY <1>1, <2>1, <2>2 DEF Waiting
  <2>. QED
    BY <1>2, <2>4, <2>5, <2>6, <2>7, <2>8, WalkAwaits
<1>. QED
  BY <1>5, <1>6

-----------------------------------------------------------------------------
(***************************************************************************)
(* Whatever a process does, it waits for children that exist.               *)
(***************************************************************************)
Leaves(p) == \E v : job' = [job EXCEPT ![p] = v] /\ Awaits(v)

LEMMA SetLeaves ==
  ASSUME NEW p \in Process, NEW v, Awaits(v), Set(p, v)
  PROVE  Leaves(p)
BY DEF Set, Leaves

LEMMA QuitLeaves ==
  ASSUME NEW p \in Process, Quit(p)
  PROVE  Leaves(p)
BY DoneAwaits, SetLeaves DEF Quit, Only

\* A process that deals with a Call.
LEMMA DealingAwaits ==
  ASSUME IInv, NEW p \in Process, NEW j, j = job[p], j.at \in Going, Awaits(j)
  PROVE  /\ Awaits(Onward(j)) /\ (L!Present(j.c) => Awaits(Waiting(j)))
         /\ j \in Job /\ j.c \in Call /\ LinksAreTrue /\ Due(j) /\ Staged(j)
<1>1. j \in Job /\ j.c \in Call /\ Due(j) /\ Carried(j) /\ Shape(j)
  BY Dealing
<1>2. LinksAreTrue /\ Informed(j)
  BY <1>1 DEF IInv, Carried
<1>3. j.doing \in {"run", "abort", "expire", "account", "admit", "link", "apply", "propagate",
                   "nudge", "orphan"}
  BY <1>1, WalksFor
<1>. QED
  BY <1>1, <1>2, <1>3, PastAwaits DEF Shape

LEMMA MoveAwaits ==
  ASSUME NEW j \in Job, Awaits(j), NEW x \in Position, x \in {"lookup", "bid"} => L!Present(j.c)
  PROVE  Awaits([j EXCEPT !.at = x])
<1>1. PICK v : v = [j EXCEPT !.at = x]
  OBVIOUS
<1>2. v.at = x /\ Same(v, j)
  BY <1>1, Step1
<1>. QED
  BY <1>1, <1>2, SameAwaits DEF Same

\* A process that goes on with the same Call.
Carries(v, j, x) == v.doing = j.doing /\ v.wait = j.wait /\ v.c = j.c /\ v.at = x
LEMMA CarriesLeaves ==
  ASSUME NEW p \in Process, NEW j, j = job[p], Awaits(j), NEW v, NEW x, Carries(v, j, x),
         x \in {"lookup", "bid"} => L!Present(j.c), Set(p, v)
  PROVE  Leaves(p)
<1>1. Awaits(v)
  BY SameAwaits DEF Carries
<1>. QED
  BY <1>1, SetLeaves

LEMMA ReserveLeaves ==
  ASSUME IInv, NEW p \in Process, Awaits(job[p]), Reserve(p)
  PROVE  Leaves(p)
<1>. PICK j : j = job[p]
  OBVIOUS
<1>1. j.at = "reserve" /\ j.at \in Going
  BY DEF Reserve, Going
<1>2. Awaits([j EXCEPT !.at = "request"])
  BY <1>1, DealingAwaits, MoveAwaits DEF Position
<1>3. Set(p, [j EXCEPT !.at = "request"]) \/ Quit(p)
  BY DEF Reserve, Only
<1>. QED
  BY <1>2, <1>3, QuitLeaves, SetLeaves

LEMMA LinkLeaves ==
  ASSUME IInv, NEW p \in Process, Awaits(job[p]), Link(p)
  PROVE  Leaves(p)
<1>. PICK j : j = job[p]
  OBVIOUS
<1>1. j.at = "link" /\ j.at \in Going
  BY DEF Link, Going
<1>2. Awaits(Onward(j)) /\ j \in Job /\ j.c \in Call /\ LinksAreTrue /\ Due(j)
  BY <1>1, DealingAwaits
<1>3. L!Present(j.c)
  BY <1>1, <1>2 DEF Due, LinksAreTrue
<1>4. Awaits([j EXCEPT !.at = "lookup"]) /\ Awaits([j EXCEPT !.at = "join"])
  BY <1>2, <1>3, MoveAwaits DEF Position
<1>5. Awaits(AfterLink(j))
  <2>1. CASE j.doing = "run"
    BY <1>4, <2>1 DEF AfterLink
  <2>2. CASE j.doing = "expire" /\ j.money # None
    BY <1>4, <2>2 DEF AfterLink
  <2>3. CASE j.doing # "run" /\ ~(j.doing = "expire" /\ j.money # None)
    BY <1>2, <2>3 DEF AfterLink
  <2>. QED
    BY <2>1, <2>2, <2>3
<1>6. Set(p, AfterLink(j)) \/ Quit(p)
  BY DEF Link, Only
<1>. QED
  BY <1>5, <1>6, QuitLeaves, SetLeaves

LEMMA FreezeLeaves ==
  ASSUME IInv, NEW p \in Process, Awaits(job[p]), Freeze(p) \/ Free(p)
  PROVE  Leaves(p)
<1>. PICK j : j = job[p]
  OBVIOUS
<1>1. j.at \in Going
  BY DEF Freeze, Free, Going
<1>2. Awaits([j EXCEPT !.at = "free"]) /\ Awaits(Onward(j)) /\ Awaits(Done(j))
  BY <1>1, DealingAwaits, MoveAwaits, DoneAwaits DEF Position
<1>3. CASE Freeze(p)
  <2>1. Set(p, [j EXCEPT !.at = "free"]) \/ Quit(p)
    BY <1>3 DEF Freeze, Only
  <2>. QED
    BY <1>2, <2>1, QuitLeaves, SetLeaves
<1>4. CASE Free(p)
  <2>1. PICK v : v = IF Hidden(j) THEN Done(j) ELSE Onward(j)
    OBVIOUS
  <2>2. Awaits(v) /\ Set(p, v)
    BY <1>2, <1>4, <2>1 DEF Free, Only
  <2>. QED
    BY <2>2, SetLeaves
<1>. QED
  BY <1>3, <1>4

\* A record is appended, and what the process knows of the Call is brought up to date.
LEMMA AppendLeaves ==
  ASSUME IInv, NEW p \in Process, Awaits(job[p]), Request(p) \/ Start(p) \/ Join(p)
  PROVE  Leaves(p)
<1>. PICK j : j = job[p]
  OBVIOUS
<1>0. Awaits(j)
  OBVIOUS
<1>1. j.at \in Going
  BY DEF Request, Start, Join, Going
<1>2. j \in Job /\ j.c \in Call /\ Due(j) /\ LinksAreTrue
  BY <1>1, DealingAwaits
<1>3. CASE Request(p)
  <2>. PICK v : v = [j EXCEPT !.at = "admit", !.knows[j.c].requested = TRUE]
    OBVIOUS
  <2>1. Carries(v, j, "admit")
    BY <1>2 DEF Job, Carries
  <2>2. Set(p, v) \/ Quit(p)
    BY <1>3 DEF Request, Appends
  <2>. QED
    BY ONLY p \in Process, j = job[p], <1>0, <2>1, <2>2, CarriesLeaves, QuitLeaves
<1>4. CASE Start(p)
  <2>. PICK x : x = IF j.doing = "expire" THEN "lookup" ELSE "link"
    OBVIOUS
  <2>. PICK v : v = [j EXCEPT !.at = x, !.knows[j.c].started = TRUE]
    OBVIOUS
  <2>1. L!Present(j.c)
    BY <1>2, <1>4 DEF Due, Begun, Start
  <2>2. Carries(v, j, x)
    BY <1>2 DEF Job, Carries
  <2>3. Set(p, v) \/ Quit(p)
    BY <1>4 DEF Start, Appends
  <2>. QED
    BY ONLY p \in Process, j = job[p], <1>0, <2>1, <2>2, <2>3, CarriesLeaves, QuitLeaves
<1>5. CASE Join(p)
  <2>. PICK v : v = [j EXCEPT !.at = "freeze", !.knows[j.c].joined = j.money]
    OBVIOUS
  <2>1. Carries(v, j, "freeze")
    BY <1>2 DEF Job, Carries
  <2>2. Set(p, v) \/ Quit(p)
    BY <1>5 DEF Join, Appends
  <2>. QED
    BY ONLY p \in Process, j = job[p], <1>0, <2>1, <2>2, CarriesLeaves, QuitLeaves
<1>. QED
  BY <1>3, <1>4, <1>5

LEMMA EstablishLeaves ==
  ASSUME IInv, NEW p \in Process, Awaits(job[p]), Resolve(p) \/ Admit(p) \/ Ready(p)
  PROVE  Leaves(p)
<1>. PICK j : j = job[p]
  OBVIOUS
<1>1. j.at \in Going
  BY DEF Resolve, Admit, Ready, Going
<1>2. /\ j \in Job /\ j.c \in Call /\ Due(j) /\ LinksAreTrue /\ Awaits(Onward(j)) /\ Staged(j)
  BY <1>1, DealingAwaits
<1>3. \A x \in {"ready", "acquire", "start", "link"} : Awaits([j EXCEPT !.at = x])
  BY <1>2, MoveAwaits DEF Position
<1>4. CASE Resolve(p)
  <2>. PICK v : v = [j EXCEPT !.at = "freeze", !.money = "zero"]
    OBVIOUS
  <2>1. Carries(v, j, "freeze") /\ Awaits(j)
    BY <1>2 DEF Job, Carries
  <2>3. CASE L!Present(j.c)
    <3>1. Set(p, [j EXCEPT !.at = "ready"])
      BY <1>4, <2>3 DEF Resolve, Only
    <3>. QED
      BY <1>3, <3>1, SetLeaves
  <2>4. CASE ~L!Present(j.c) /\ j.rows[j.c].child
    BY <1>4, <2>4, QuitLeaves DEF Resolve
  <2>5. CASE ~L!Present(j.c) /\ ~j.rows[j.c].child
    <3>1. Set(p, v)
      BY <1>4, <2>5 DEF Resolve, Only
    <3>. QED
      BY ONLY p \in Process, j = job[p], <2>1, <3>1, CarriesLeaves
  <2>. QED
    BY <2>3, <2>4, <2>5
<1>5. CASE Admit(p)
  <2>1. Set(p, [j EXCEPT !.at = "ready"])
    BY <1>5 DEF Admit, Told, Only
  <2>. QED
    BY <1>3, <2>1, SetLeaves
<1>6. CASE Ready(p)
  <2>1. L!Present(j.c)
    BY <1>2, <1>6 DEF Ready, Due
  <2>2. Awaits([j EXCEPT !.at = "lookup"])
    BY <1>2, <2>1, MoveAwaits DEF Position
  <2>3. PICK v : v = AfterReady(j)
    OBVIOUS
  <2>4. Awaits(v)
    <3>1. CASE j.doing = "run" /\ j.knows[j.c].started
      BY <1>3, <2>3, <3>1 DEF AfterReady
    <3>2. CASE j.doing = "abort"
      BY <2>2, <2>3, <3>2 DEF AfterReady
    <3>3. CASE j.doing = "admit"
      BY <1>2, <2>3, <3>3 DEF AfterReady
    <3>4. CASE j.doing = "link"
      BY <1>3, <2>3, <3>4 DEF AfterReady
    <3>5. CASE /\ j.doing \notin {"abort", "admit", "link"}
               /\ ~(j.doing = "run" /\ j.knows[j.c].started)
      BY <1>3, <2>3, <3>5 DEF AfterReady
    <3>. QED
      BY <3>1, <3>2, <3>3, <3>4, <3>5
  <2>5. Set(p, v)
    BY <1>6, <2>3 DEF Ready, Told, Only
  <2>. QED
    BY <2>4, <2>5, SetLeaves
<1>. QED
  BY <1>4, <1>5, <1>6

LEMMA LookupLeaves ==
  ASSUME IInv, NEW p \in Process, Awaits(job[p]), Lookup(p) \/ Bid(p)
  PROVE  Leaves(p)
<1>. PICK j : j = job[p]
  OBVIOUS
<1>1. j.at \in Going
  BY DEF Lookup, Bid, Going
<1>2. /\ j \in Job /\ j.c \in Call /\ Awaits(Onward(j)) /\ Staged(j)
      /\ L!Present(j.c) => Awaits(Waiting(j))
  BY <1>1, DealingAwaits
<1>3. CASE Lookup(p)
  <2>1. L!Present(j.c)
    BY <1>3 DEF Lookup, Awaits, Found
  <2>2. Awaits(j)
    OBVIOUS
  <2>3. Awaits([j EXCEPT !.at = "bid"])
    BY <1>2, <2>1, MoveAwaits DEF Position
  <2>4. j.doing \in {"run", "abort", "expire"}
    BY <1>2, <1>3, JobTypes DEF Lookup, Staged, Purpose
  <2>5. CASE j.doing = "run"
    <3>1. CASE sub[j.c].state = "settled"
      <4>. PICK v : v = [j EXCEPT !.at = "join", !.money = "actual"]
        OBVIOUS
      <4>1. Set(p, v)
        BY <1>3, <2>1, <2>5, <3>1 DEF Lookup, Only
      <4>2. Carries(v, j, "join")
        BY <1>2 DEF Job, Carries
      <4>. QED
        BY ONLY p \in Process, j = job[p], <2>2, <4>1, <4>2, CarriesLeaves
    <3>2. CASE sub[j.c].state # "settled"
      <4>1. Set(p, Waiting(j))
        BY <1>3, <2>1, <2>5, <3>2 DEF Lookup, Only
      <4>. QED
        BY <1>2, <2>1, <4>1, SetLeaves
    <3>. QED
      BY <3>1, <3>2
  <2>6. CASE j.doing = "abort"
    <3>1. CASE sub[j.c].state = "settled"
      <4>. PICK v : v = [j EXCEPT !.at = "join", !.money = "conservative"]
        OBVIOUS
      <4>1. Set(p, v)
        BY <1>3, <2>1, <2>6, <3>1 DEF Lookup, Only
      <4>2. Carries(v, j, "join")
        BY <1>2 DEF Job, Carries
      <4>. QED
        BY ONLY p \in Process, j = job[p], <2>2, <4>1, <4>2, CarriesLeaves
    <3>2. CASE sub[j.c].state # "settled"
      <4>1. Set(p, [j EXCEPT !.at = "bid"])
        BY <1>3, <2>1, <2>6, <3>2 DEF Lookup, Only
      <4>. QED
        BY <2>3, <4>1, SetLeaves
    <3>. QED
      BY <3>1, <3>2
  <2>7. CASE j.doing = "expire"
    <3>. PICK m : m = IF sub[j.c].state = "settled" THEN "conservative" ELSE None
      OBVIOUS
    <3>. PICK v : v = [j EXCEPT !.at = "link", !.money = m]
      OBVIOUS
    <3>1. Set(p, v)
      BY <1>3, <2>1, <2>7 DEF Lookup, Only
    <3>2. Carries(v, j, "link")
      BY <1>2 DEF Job, Carries
    <3>. QED
      BY ONLY p \in Process, j = job[p], <2>2, <3>1, <3>2, CarriesLeaves
  <2>. QED
    BY <2>4, <2>5, <2>6, <2>7
<1>4. CASE Bid(p)
  <2>1. PICK v : v = IF j.doing = "abort" THEN Waiting(j) ELSE Onward(j)
    OBVIOUS
  <2>2. Awaits(v)
    BY <1>2, <1>4, <2>1 DEF Bid, Awaits, Found
  <2>3. Set(p, v)
    BY <1>4, <2>1 DEF Bid, Told, Only
  <2>. QED
    BY <2>2, <2>3, SetLeaves
<1>. QED
  BY <1>3, <1>4

\* An Attempt between the Calls.
LEMMA ReadLeaves ==
  ASSUME IInv, NEW p \in Process, Awaits(job[p]),
         Attach(p) \/ Read(p) \/ Exhaust(p) \/ Settle(p) \/ Finalize(p) \/ Release(p)
  PROVE  Leaves(p)
<1>. PICK j : j = job[p]
  OBVIOUS
<1>1. j \in Job
  BY HasStores
<1>2. \A x \in {"start", "settle", "read", "finalize"} : Awaits([j EXCEPT !.at = x])
  BY <1>1, MoveAwaits DEF Position
<1>3. CASE Attach(p)
  <2>1. PICK x : x = AfterAttach(j)
    OBVIOUS
  <2>2. x \in {"start", "settle", "read"}
    BY <2>1 DEF AfterAttach
  <2>3. Set(p, [j EXCEPT !.at = x]) \/ Quit(p)
    BY <1>3, <2>1 DEF Attach
  <2>. QED
    BY <1>2, <2>2, <2>3, QuitLeaves, SetLeaves
<1>4. CASE Read(p)
  <2>. PICK rs : rs = IF j.doing = "run" THEN j.rows ELSE row
    OBVIOUS
  <2>. PICK v : v = [j EXCEPT !.rows = rs, !.at = "consult"]
    OBVIOUS
  <2>1. v.doing = j.doing /\ v.wait = j.wait /\ v.c = j.c /\ v.at = "consult"
    BY <1>1 DEF Job
  <2>2. Awaits(v)
    BY <2>1, SameAwaits
  <2>3. Set(p, [j EXCEPT !.at = "finalize"]) \/ Set(p, v)
    BY <1>4 DEF Read, Only
  <2>. QED
    BY <1>2, <2>2, <2>3, SetLeaves
<1>5. CASE Exhaust(p)
  <2>1. Set(p, [j EXCEPT !.at = "read"]) \/ Quit(p)
    BY <1>5 DEF Exhaust, Appends
  <2>. QED
    BY <1>2, <2>1, QuitLeaves, SetLeaves
<1>6. CASE Settle(p)
  <2>1. Set(p, [j EXCEPT !.at = "finalize"]) \/ Quit(p)
    BY <1>6 DEF Settle, Told
  <2>. QED
    BY <1>2, <2>1, QuitLeaves, SetLeaves
<1>7. CASE Finalize(p)
  <2>1. Set(p, Done(j))
    BY <1>7 DEF Finalize, Told, Only
  <2>. QED
    BY <2>1, DoneAwaits, SetLeaves
<1>8. CASE Release(p)
  <2>1. Set(p, Idle)
    BY <1>8 DEF Release, Told, Only
  <2>. QED
    BY <2>1, IdleAwaits, SetLeaves
<1>. QED
  BY <1>3, <1>4, <1>5, <1>6, <1>7, <1>8

\* What is open is found closed, or waited for by nobody: the scan starts without a wait.
LEMMA ConsultLeaves ==
  ASSUME IInv, NEW p \in Process, Consult(p)
  PROVE  Leaves(p)
<1>. PICK j : j = job[p]
  OBVIOUS
<1>. DEFINE held == {c \in Call : j.rows[c].status \notin {"absent", "released"}}
            open == {c \in held : said[c].joined = None /\ j.rows[c].status = "reserved"}
            due == CASE j.doing = "run" -> {c \in calls : said[c].joined = None}
                     [] j.doing = "abort" -> held
                     [] j.doing = "expire" -> {c \in Call : j.rows[c].status # "absent"}
                     [] j.doing = "account" -> held \ open
            w == IF j.doing = "account" THEN open ELSE {}
            rs == [c \in Call |-> IF c \in due THEN j.rows[c] ELSE NoRow]
            ks == [c \in Call |-> IF c \in due THEN said[c] ELSE Nothing]
            i == [j EXCEPT !.todo = due, !.wait = w, !.rows = rs, !.knows = ks]
<1>1. j.at = "consult" /\ Set(p, Walk(i))
  BY DEF Consult, Only
<1>2. JobFits(j) /\ Shape(j) /\ j \in Job
  BY HasStores DEF JobFits, Shape
<1>3. j.doing \in {"run", "abort", "expire", "account"}
  BY ONLY <1>1, <1>2, JobTypes DEF Shape, Staged, Purpose
<1>4. calls \subseteq Call /\ said \in [Call -> Records] /\ j.rows \in [Call -> Reservation]
  BY <1>2, HasStores, JobTypes DEF Stores
<1>5. /\ due \subseteq Call /\ w \subseteq Call /\ (j.doing # "account" => w = {})
      /\ j.doing = "run" => due = {c \in calls : said[c].joined = None}
      /\ j.doing = "abort" => \A c \in due : j.rows[c].status \notin {"absent", "released"}
      /\ j.doing = "expire" => \A c \in due : j.rows[c].status # "absent"
      /\ j.doing = "account" =>
           /\ \A c \in due : /\ j.rows[c].status \notin {"absent", "released"}
                             /\ said[c].joined # None \/ j.rows[c].status # "reserved"
           /\ w = {} => \A c \in Call \ due : j.rows[c].status \in {"absent", "released"}
  BY ONLY <1>3, <1>4
<1>. HIDE DEF due, w
<1>6. /\ rs \in [Call -> Reservation] /\ ks \in [Call -> Records]
      /\ \A c \in due : rs[c] = j.rows[c] /\ ks[c] = said[c]
  BY ONLY <1>4, <1>5, Blank
<1>. HIDE DEF rs, ks
<1>7. /\ i \in Job /\ i.todo = due /\ i.wait = w /\ i.rows = rs /\ i.knows = ks
      /\ i.doing = j.doing /\ i.token = j.token /\ i.epoch = j.epoch /\ i.outcome = j.outcome
  BY ONLY <1>2, <1>5, <1>6 DEF Job
<1>. HIDE DEF i
<1>8. SetsOff(i)
  BY <1>1, <1>2, <1>3, <1>5, <1>6, <1>7, ConsultSetsOff
<1>9. Waited(i)
  BY <1>3, <1>5, <1>7 DEF Waited
<1>10. Awaits(Walk(i))
  BY <1>3, <1>7, <1>8, <1>9, WalkAwaits DEF SetsOff, Carried, IInv
<1>. PICK v : v = Walk(i)
  OBVIOUS
<1>. QED
  BY ONLY p \in Process, <1>1, <1>10, v = Walk(i), SetLeaves

\* The Run is cut short, or the process goes.
LEMMA CutLeaves ==
  ASSUME NEW p \in Process, Halt(p) \/ Expire(p) \/ FailRun(p) \/ Crash(p)
  PROVE  Leaves(p)
<1>1. CASE Halt(p)
  <2>1. Set(p, Scan(job[p], "abort", "aborted"))
    BY <1>1 DEF Halt, Only
  <2>2. Awaits(Scan(job[p], "abort", "aborted"))
    BY ScanAwaits
  <2>. QED
    BY <2>1, <2>2, SetLeaves
<1>2. CASE Expire(p)
  <2>1. Set(p, [Scan(job[p], "expire", "failed") EXCEPT !.at = "exhaust"])
    BY <1>2 DEF Expire, Only
  <2>2. Awaits([Scan(job[p], "expire", "failed") EXCEPT !.at = "exhaust"])
    BY ScanAwaits
  <2>. QED
    BY <2>1, <2>2, SetLeaves
<1>3. CASE FailRun(p)
  <2>1. Set(p, Scan(job[p], "account", "failed"))
    BY <1>3 DEF FailRun
  <2>2. Awaits(Scan(job[p], "account", "failed"))
    BY ScanAwaits
  <2>. QED
    BY <2>1, <2>2, SetLeaves
<1>4. CASE Crash(p)
  BY <1>4, IdleAwaits, SetLeaves DEF Crash
<1>. QED
  BY <1>1, <1>2, <1>3, <1>4

LEMMA SuspendLeaves ==
  ASSUME NEW p \in Process, Suspend(p)
  PROVE  Leaves(p)
<1>. PICK j : j = job[p]
  OBVIOUS
<1>1. Awaits(Idle) /\ Awaits(Done(j)) /\ Awaits(Scan(j, j.doing, j.outcome))
  BY IdleAwaits, DoneAwaits, ScanAwaits
<1>2. \/ Set(p, Idle) \/ Set(p, Scan(j, j.doing, j.outcome)) \/ Set(p, Done(j))
  BY DEF Suspend, Told, Only, Quit
<1>. QED
  BY <1>1, <1>2, SetLeaves

\* A claim, for an Attempt or for a decision.
LEMMA ClaimedAwaits ==
  ASSUME NEW j \in Job, Awaits(j), NEW x \in {"claimed", "suspend"}
  PROVE  Awaits([Claimed(j) EXCEPT !.at = x])
<1>. PICK v : v = [Claimed(j) EXCEPT !.at = x]
  OBVIOUS
<1>1. v.doing = j.doing /\ v.wait = j.wait /\ v.c = j.c /\ v.at = x
  BY DEF Claimed, Job
<1>. QED
  BY <1>1, SameAwaits

LEMMA ClaimLeaves ==
  ASSUME IInv, NEW p \in Process, Awaits(job[p]), Claim(p) \/ Acquire(p)
  PROVE  Leaves(p)
<1>. PICK j : j = job[p]
  OBVIOUS
<1>1. j \in Job /\ Idle \in Job /\ Awaits(Idle)
  BY HasStores, Blank, IdleAwaits
<1>2. CASE Claim(p)
  <2>1. Set(p, [Claimed(Idle) EXCEPT !.at = "claimed"])
    BY <1>2 DEF Claim, Told
  <2>. QED
    BY <1>1, <2>1, ClaimedAwaits, SetLeaves
<1>3. CASE Acquire(p)
  <2>. PICK x : x = IF j.doing \in {"wait", "propagate"} THEN "suspend" ELSE "claimed"
    OBVIOUS
  <2>1. Awaits([Claimed(j) EXCEPT !.at = x])
    BY <1>1, ClaimedAwaits
  <2>2. Set(p, [Claimed(j) EXCEPT !.at = x]) \/ Set(p, Idle)
    BY <1>3 DEF Acquire, Told, Only
  <2>. QED
    BY <1>1, <2>1, <2>2, SetLeaves
<1>. QED
  BY <1>2, <1>3

\* Recovery: a decision to wait, or to abort and wait, names children that exist.
LEMMA SweepLeaves ==
  ASSUME IInv, NEW p \in Process, Awaits(job[p]), Sweep(p) \/ Wake(p)
  PROVE  Leaves(p)
<1>. PICK j : j = job[p]
  OBVIOUS
<1>1. CASE Sweep(p)
  <2>. PICK v : v = [Idle EXCEPT !.at = "inspect", !.knows = said]
    OBVIOUS
  <2>1. v.wait = {} /\ v.at = "inspect"
    BY Blank DEF Job
  <2>2. Awaits(v)
    BY ONLY <2>1 DEF Awaits, Waited, Found
  <2>3. Set(p, v)
    BY <1>1 DEF Sweep, Only
  <2>. QED
    BY ONLY p \in Process, <2>2, <2>3, SetLeaves
<1>2. CASE Wake(p)
  <2>1. j \in Job
    BY HasStores
  <2>2. Awaits([j EXCEPT !.at = "acquire"])
    BY <2>1, MoveAwaits DEF Position
  <2>3. Set(p, [j EXCEPT !.at = "acquire"]) \/ Set(p, Idle)
    BY <1>2 DEF Wake, Told, Only
  <2>. QED
    BY <2>2, <2>3, IdleAwaits, SetLeaves
<1>. QED
  BY <1>1, <1>2

LEMMA InspectLeaves ==
  ASSUME IInv, NEW p \in Process, Inspect(p)
  PROVE  Leaves(p)
<1>. PICK j : j = job[p]
  OBVIOUS
<1>. PICK plan : plan = Decision(j.knows)
  OBVIOUS
<1>. DEFINE asleep == sub[Root].state = "suspended"
            planned == [j EXCEPT !.doing = plan.doing, !.wait = plan.on, !.knows = Idle.knows]
            scanned ==
              Walk(Scanned(j, plan, IF plan.doing = "propagate" THEN plan.on ELSE {}))
<1>1. j.at = "inspect" /\ JobFits(j) /\ Shape(j) /\ Poised(j) /\ j \in Job
  BY HasStores DEF JobFits, Inspect, Shape
<1>2. \A c \in Call : Knew(j.knows[c], said[c])
  BY <1>1 DEF Poised
<1>3. Sound(plan, j.knows)
  BY <1>2, DecisionSound
<1>. PICK d : d = plan.doing
  OBVIOUS
<1>. PICK on : on = plan.on
  OBVIOUS
<1>4. on \in SUBSET Call /\ d \in Purpose
  BY <1>3 DEF Sound
<1>5. d \in {"wait", "propagate"} => \A c \in on : L!Present(c)
  BY <1>3 DEF Sound
<1>. PICK ks : ks = Idle.knows
  OBVIOUS
<1>6. ASSUME NEW x \in {"wake", "acquire"}, NEW v, v.at = x, v.doing = d, v.wait = on, Set(p, v),
             d \in {"wake", "wait", "expire", "close"}
      PROVE  Leaves(p)
  <2>1. Awaits(v)
    BY ONLY <1>5, <1>6 DEF Awaits, Waited, Found
  <2>. QED
    BY ONLY p \in Process, <1>6, <2>1, SetLeaves
<1>7. CASE Set(p, Idle) \/ Set(p, [Idle EXCEPT !.at = "finalize"])
  <2>1. Awaits([Idle EXCEPT !.at = "finalize"])
    BY Blank, IdleAwaits, MoveAwaits DEF Position
  <2>. QED
    BY <1>7, <2>1, IdleAwaits, SetLeaves
<1>8. CASE plan.doing = "wake" /\ Set(p, [planned EXCEPT !.at = "wake"])
  <2>. PICK v : v = [j EXCEPT !.doing = d, !.wait = on, !.knows = ks, !.at = "wake"]
    OBVIOUS
  <2>1. Set(p, v)
    BY <1>1, <1>8 DEF Job
  <2>2. v.at = "wake" /\ v.doing = d /\ v.wait = on
    BY ONLY <1>1, v = [j EXCEPT !.doing = d, !.wait = on, !.knows = ks, !.at = "wake"] DEF Job
  <2>. QED
    BY <1>6, <1>8, <2>1, <2>2
<1>9. CASE plan.doing \in {"wait", "expire"} /\ Set(p, [planned EXCEPT !.at = "acquire"])
  <2>. PICK v : v = [j EXCEPT !.doing = d, !.wait = on, !.knows = ks, !.at = "acquire"]
    OBVIOUS
  <2>1. Set(p, v)
    BY <1>1, <1>9 DEF Job
  <2>2. v.at = "acquire" /\ v.doing = d /\ v.wait = on
    BY ONLY <1>1, v = [j EXCEPT !.doing = d, !.wait = on, !.knows = ks, !.at = "acquire"] DEF Job
  <2>. QED
    BY <1>6, <1>9, <2>1, <2>2
<1>10. CASE /\ plan.doing = "close"
            /\ Set(p, [planned EXCEPT !.at = IF asleep THEN "wake" ELSE "acquire",
                                      !.outcome = "aborted"])
  <2>. PICK x : x = IF asleep THEN "wake" ELSE "acquire"
    OBVIOUS
  <2>. PICK v : v = [j EXCEPT !.doing = d, !.wait = on, !.knows = ks, !.at = x,
                              !.outcome = "aborted"]
    OBVIOUS
  <2>1. Set(p, v) /\ x \in {"wake", "acquire"}
    BY <1>1, <1>10 DEF Job
  <2>2. v.at = x /\ v.doing = d /\ v.wait = on
    BY ONLY <1>1, v = [j EXCEPT !.doing = d, !.wait = on, !.knows = ks, !.at = x,
                                !.outcome = "aborted"] DEF Job
  <2>. QED
    BY <1>6, <1>10, <2>1, <2>2
<1>11. CASE /\ plan # NoPlan /\ plan.doing \notin {"wake", "wait", "expire", "close"}
            /\ Set(p, scanned)
  <2>. PICK w : w = IF plan.doing = "propagate" THEN plan.on ELSE {}
    OBVIOUS
  <2>. PICK i : i = Scanned(j, plan, w)
    OBVIOUS
  <2>1. Set(p, Walk(i))
    BY <1>11
  <2>2. plan.doing \in {"admit", "link", "apply", "propagate", "nudge", "orphan"}
    BY <1>3, <1>11 DEF Sound
  <2>3. w \in SUBSET Call /\ (plan.doing # "propagate" => w = {})
        /\ (plan.doing = "propagate" => w = on)
    BY <1>4
  <2>4. SetsOff(i) /\ i.doing = plan.doing /\ i.wait = w
    BY ONLY IInv, <1>1, <1>2, <1>3, <2>2, <2>3, PlannedWalk,
            i = Scanned(j, plan, w)
  <2>5. Waited(i)
    BY ONLY <1>5, d = plan.doing, <2>2, <2>3, <2>4 DEF Waited
  <2>6. Awaits(Walk(i))
    BY ONLY IInv, <2>2, <2>4, <2>5, WalkAwaits DEF SetsOff, Carried, IInv
  <2>. PICK u : u = Walk(i)
    OBVIOUS
  <2>. QED
    BY ONLY p \in Process, <2>1, <2>6, u = Walk(i), SetLeaves
<1>. HIDE DEF scanned, planned, asleep
<1>12. \/ Set(p, Idle) \/ Set(p, [Idle EXCEPT !.at = "finalize"])
       \/ plan.doing = "wake" /\ Set(p, [planned EXCEPT !.at = "wake"])
       \/ plan.doing \in {"wait", "expire"} /\ Set(p, [planned EXCEPT !.at = "acquire"])
       \/ /\ plan.doing = "close"
          /\ Set(p, [planned EXCEPT !.at = IF asleep THEN "wake" ELSE "acquire",
                                    !.outcome = "aborted"])
       \/ /\ plan # NoPlan /\ plan.doing \notin {"wake", "wait", "expire", "close"}
          /\ Set(p, scanned)
  BY DEF Inspect, Scanned, Only, scanned, planned, asleep
<1>. QED
  BY <1>7, <1>8, <1>9, <1>10, <1>11, <1>12

-----------------------------------------------------------------------------
(***************************************************************************)
(* Children last, and nothing but Suspend puts the parent to sleep.         *)
(***************************************************************************)
\* Children last, and nobody puts the parent to sleep.
Lasting == (\A c \in Call : L!Present(c) => L!Present(c)') /\ Dozes

LEMMA QuietLasts ==
  ASSUME UNCHANGED ledger
  PROVE  Lasting
BY DEF ledger, Lasting, Dozes, L!Present

LEMMA SteadyLasts ==
  ASSUME Steady, Dozes
  PROVE  Lasting
BY DEF Steady, Advances, Lasting, L!Present

LEMMA AppendLasts ==
  ASSUME NEW p \in Process, NEW s, NEW e, NEW v, Appends(p, s, e, v)
  PROVE  Lasting
BY QuietLasts DEF Appends, Quit, Only

\* Every step of a process but the suspension.
LEMMA StepLasts ==
  ASSUME IInv, NEW p \in Process,
         Step(p) \/ FailRun(p) \/ Claim(p) \/ Sweep(p) \/ Crash(p)
  PROVE  Lasting \/ Suspend(p)
<1>. PICK j : j = job[p]
  OBVIOUS
<1>1. LedgerFits /\ j \in Job /\ j.token \in 0..minted /\ JobFits(j)
  BY HasStores, JobTypes DEF Apart
<1>2. CASE Reserve(p) \/ Link(p) \/ Freeze(p) \/ Free(p)
  BY <1>2, QuietLasts DEF Reserve, Link, Freeze, Free, Quit, Only
<1>3. CASE Request(p) \/ Start(p) \/ Join(p) \/ Exhaust(p)
  BY <1>3, AppendLasts DEF Request, Start, Join, Exhaust
<1>4. CASE Resolve(p)
  BY <1>4, QuietLasts DEF Resolve, Quit, Only
<1>5. CASE Lookup(p)
  BY <1>5, QuietLasts DEF Lookup, Only
<1>6. CASE Attach(p) \/ Read(p) \/ Consult(p) \/ Halt(p) \/ Expire(p) \/ Inspect(p)
  <2>1. CASE Attach(p)
    BY <2>1, QuietLasts DEF Attach, Quit, Only
  <2>2. CASE Read(p) \/ Halt(p) \/ Expire(p)
    BY <2>2, QuietLasts DEF Read, Halt, Expire, Only
  <2>3. CASE Consult(p)
    <3>1. UNCHANGED ledger
      BY <2>3, Zenon DEF Consult, Only
    <3>. QED
      BY <3>1, QuietLasts
  <2>4. CASE Inspect(p)
    BY <2>4, QuietLasts DEF Inspect, Only
  <2>. QED
    BY <1>6, <2>1, <2>2, <2>3, <2>4
<1>7. CASE FailRun(p) \/ Sweep(p) \/ Crash(p)
  BY <1>7, QuietLasts DEF FailRun, Sweep, Crash, Only
<1>8. ASSUME NEW v, Only(p, v) PROVE Lasting
  BY <1>8, QuietLasts DEF Only
<1>9. j.at \in Going => j.c \in Call
  BY Dealing
<1>10. CASE Admit(p)
  <2>1. j.c \in Call
    BY <1>9, <1>10 DEF Admit, Going
  <2>2. L!Admit(j.c, j.c, j.c, None, "none") => Lasting
    BY <1>1, <2>1, AdmitEffect, SteadyLasts
  <2>. QED
    BY <1>8, <1>10, <2>2 DEF Admit, Told
<1>11. CASE Ready(p)
  <2>1. j.c \in Call
    BY <1>9, <1>11 DEF Ready, Going
  <2>2. L!MarkReady(j.c) => Lasting
    BY <1>1, <2>1, ReadyEffect, SteadyLasts DEF Calm
  <2>. QED
    BY <1>8, <1>11, <2>2 DEF Ready, Told
<1>12. CASE Bid(p)
  <2>1. j.c \in Submission
    BY <1>9, <1>12 DEF Bid, Going, Submission
  <2>2. L!RequestAbort(j.c) => Lasting
    BY <1>1, <2>1, AbortEffect, SteadyLasts DEF Calm
  <2>. QED
    BY <1>8, <1>12, <2>2 DEF Bid, Told
<1>13. CASE Settle(p)
  <2>1. j.outcome \in Outcome
    BY <1>1, <1>13, JobTypes DEF Settle, JobFits, Shape
  <2>2. L!ReserveSettlement(Root, j.token, j.outcome, None) => Lasting
    BY <1>1, <2>1, EndEffect, SteadyLasts
  <2>. QED
    BY <1>8, <1>13, <2>2 DEF Settle, Told, Quit
<1>14. CASE Finalize(p)
  <2>1. L!FinalizeSettlement(Root) => Lasting
    BY <1>1, Calls, FinalEffect, SteadyLasts DEF Calm
  <2>. QED
    BY <1>8, <1>14, <2>1 DEF Finalize, Told
<1>15. CASE Release(p)
  <2>1. L!ReleaseOwnership(Root, j.token) => Lasting
    BY <1>1, ReleaseEffect, SteadyLasts DEF Calm
  <2>. QED
    BY <1>8, <1>15, <2>1 DEF Release, Told
<1>16. CASE Wake(p)
  <2>1. ASSUME NEW c \in j.wait, L!RecordChildSettled(Root, c) PROVE Lasting
    BY <1>1, <2>1, JobTypes, WakeEffect, SteadyLasts DEF Calm
  <2>. QED
    BY <1>8, <1>16, <2>1 DEF Wake, Told
<1>17. CASE Acquire(p) \/ Claim(p)
  <2>1. L!Claim(Root) => Lasting
    BY <1>1, ClaimEffect, SteadyLasts DEF Calm
  <2>. QED
    BY <1>8, <1>17, <2>1 DEF Acquire, Claim, Told
<1>. QED
  BY <1>2, <1>3, <1>4, <1>5, <1>6, <1>7, <1>10, <1>11, <1>12, <1>13, <1>14, <1>15, <1>16, <1>17
     DEF Step

\* Children, operators and time.
LEMMA OutsideLasts ==
  ASSUME IInv,
         \/ \E c \in Call : Settling(c) \/ CrashChild(c)
         \/ RequestAbort \/ Elapse \/ LeaseExpires \/ UNCHANGED vars
  PROVE  Lasting /\ job' = job
<1>1. LedgerFits /\ Root \in Submission
  BY HasStores, Calls
<1>2. ASSUME NEW c \in Call, Settling(c) \/ CrashChild(c) PROVE Lasting /\ job' = job
  <2>1. CASE Decide(c)
    BY <1>1, <2>1, DecideEffect, SteadyLasts DEF Calm, Decide
  <2>2. CASE Notify(c)
    <3>1. L!RecordChildSettled(Root, c) => Lasting
      BY <1>1, WakeEffect, SteadyLasts DEF Calm
    <3>. QED
      BY <2>2, <3>1, QuietLasts DEF Notify
  <2>3. CASE FinalizeChild(c)
    <3>1. L!FinalizeSettlement(c) => Lasting
      BY <1>1, FinalEffect, SteadyLasts DEF Calm, Submission
    <3>. QED
      BY <2>3, <3>1 DEF FinalizeChild
  <2>4. CASE CrashChild(c)
    BY <2>4, QuietLasts DEF CrashChild
  <2>. QED
    BY <1>2, <2>1, <2>2, <2>3, <2>4 DEF Settling
<1>3. CASE RequestAbort
  BY <1>1, <1>3, AbortEffect, SteadyLasts DEF Calm, RequestAbort
<1>4. CASE Elapse
  BY <1>4, QuietLasts DEF Elapse
<1>5. CASE LeaseExpires
  BY <1>1, <1>5, ExpiryEffect, SteadyLasts DEF Calm, LeaseExpires
<1>6. CASE UNCHANGED vars
  BY <1>6, QuietLasts DEF vars
<1>. QED
  BY <1>2, <1>3, <1>4, <1>5, <1>6

LEMMA ProcessLeaves ==
  ASSUME IInv, NEW p \in Process, Awaits(job[p]),
         Step(p) \/ FailRun(p) \/ Claim(p) \/ Sweep(p) \/ Crash(p)
  PROVE  Leaves(p)
BY ReserveLeaves, LinkLeaves, FreezeLeaves, AppendLeaves, EstablishLeaves, LookupLeaves, ReadLeaves,
   ConsultLeaves, CutLeaves, SuspendLeaves, ClaimLeaves, SweepLeaves, InspectLeaves DEF Step

-----------------------------------------------------------------------------
Awaiting == (\A p \in Process : Awaits(job[p])) /\ SleepsOnChildren

\* What a job waits for is still there after a step.
LEMMA AwaitsLast ==
  ASSUME IInv', \A c \in Call : L!Present(c) => L!Present(c)', NEW p \in Process,
         Awaits(job'[p])
  PROVE  Awaits(job[p])'
<1>. PICK v : v = job'[p]
  OBVIOUS
<1>1. JobFits(v)' /\ v \in Job
  BY DEF IInv, JobFits, Shape
<1>2. v.at \in Going => v.c \in Call
  BY <1>1, JobTypes DEF JobFits, Shape, Walks
<1>3. v.wait \in SUBSET Call
  BY <1>1, JobTypes
<1>4. (v.at = "lookup" \/ v.at = "bid") => v.c \in Call
  BY <1>2 DEF Going
<1>5. Waited(v)'
  BY <1>3 DEF Awaits, Waited
<1>6. Found(v)'
  BY <1>4 DEF Awaits, Found
<1>. QED
  BY <1>5, <1>6 DEF Awaits

\* The suspension itself: what is not covered holds a child, and the job waits for
\* children that exist.
LEMMA SuspendSleeps ==
  ASSUME IInv, NEW p \in Process, Awaits(job[p]), SleepsOnChildren, Suspend(p)
  PROVE  (\A c \in Call : L!Present(c) => L!Present(c)') /\ SleepsOnChildren'
<1>. PICK j : j = job[p]
  OBVIOUS
<1>1. j.at = "suspend" /\ JobFits(j) /\ Shape(j) /\ j \in Job /\ LedgerFits
  BY HasStores DEF JobFits, Suspend
<1>2. j.doing \in {"run", "abort", "wait", "propagate"}
  BY <1>1, JobTypes DEF Shape, Staged, Purpose
<1>. PICK on : on = j.wait
  OBVIOUS
<1>3. on \in SUBSET Call /\ \A c \in on : L!Present(c)
  BY <1>1, <1>2, JobTypes DEF Awaits, Waited
<1>4. CASE L!Suspend(Root, j.token, [kind |-> "child", on |-> on])
  <2>. DEFINE reason == [kind |-> "child", on |-> on]
  <2>1. reason.kind = "child" /\ reason.on = on
    OBVIOUS
  <2>2. L!Suspend(Root, j.token, reason)
    BY <1>4
  <2>. HIDE DEF reason
  <2>3. on # {}
    BY <2>1, <2>2 DEF L!Suspend, L!Covered
  <2>4. PICK r : r = [sub[Root] EXCEPT !.state = "suspended", !.waiting = reason,
                                       !.token = 0, !.epoch = 0, !.live = FALSE]
    BY Zenon
  <2>5. sub[Root] \in LP!Row /\ Root \in Submission
    BY <1>1, LedgerTypes, Calls
  <2>6. r.waiting = reason
    BY <2>4, <2>5 DEF LP!Row
  <2>7. sub' = [sub EXCEPT ![Root] = r]
    BY <2>2, <2>4 DEF L!Suspend
  <2>8. sub'[Root] = r /\ \A c \in Call : sub'[c] = sub[c]
    BY <1>1, <2>5, <2>7, Calls DEF LedgerFits, LP!TypeOK
  <2>. QED
    BY <1>3, <2>1, <2>3, <2>6, <2>8 DEF SleepsOnChildren, L!Present
<1>5. CASE UNCHANGED ledger
  BY <1>5 DEF ledger, SleepsOnChildren, L!Present
<1>. QED
  BY <1>4, <1>5 DEF Suspend, Told, Only, Quit

LEMMA LastingSleeps ==
  ASSUME IInv, SleepsOnChildren, Lasting
  PROVE  SleepsOnChildren'
<1>1. sub[Root].waiting.on \subseteq Call
  BY HasStores DEF LedgerFits
<1>. QED
  BY <1>1 DEF SleepsOnChildren, Lasting, Dozes, L!Present

LEMMA NextAwaiting == IInv /\ IInv' /\ Awaiting /\ [Next]_vars => Awaiting'
<1>. SUFFICES ASSUME IInv, IInv', Awaiting, [Next]_vars PROVE Awaiting'
  OBVIOUS
<1>1. ASSUME NEW p \in Process, Step(p) \/ FailRun(p) \/ Claim(p) \/ Sweep(p) \/ Crash(p)
      PROVE  Awaiting'
  <2>1. Awaits(job[p]) /\ SleepsOnChildren
    BY DEF Awaiting
  <2>2. PICK v : job' = [job EXCEPT ![p] = v] /\ Awaits(v)
    BY <1>1, <2>1, ProcessLeaves DEF Leaves
  <2>3. (\A c \in Call : L!Present(c) => L!Present(c)') /\ SleepsOnChildren'
    <3>1. CASE Lasting
      BY <2>1, <3>1, LastingSleeps DEF Lasting
    <3>2. CASE Suspend(p)
      BY <2>1, <3>2, SuspendSleeps
    <3>. QED
      BY <1>1, <3>1, <3>2, StepLasts
  <2>4. job \in [Process -> Job]
    BY HasStores
  <2>5. ASSUME NEW q \in Process PROVE Awaits(job[q])'
    <3>1. Awaits(job'[q])
      BY <2>2, <2>4 DEF Awaiting
    <3>. QED
      BY <2>3, <3>1, AwaitsLast
  <2>. QED
    BY <2>3, <2>5 DEF Awaiting
<1>2. CASE \/ \E c \in Call : Settling(c) \/ CrashChild(c)
           \/ RequestAbort \/ Elapse \/ LeaseExpires \/ UNCHANGED vars
  <2>1. Lasting /\ job' = job
    BY <1>2, OutsideLasts
  <2>2. SleepsOnChildren'
    BY <2>1, LastingSleeps DEF Awaiting
  <2>3. ASSUME NEW q \in Process PROVE Awaits(job[q])'
    <3>1. Awaits(job'[q])
      BY <2>1 DEF Awaiting
    <3>. QED
      BY <2>1, <3>1, AwaitsLast DEF Lasting
  <2>. QED
    BY <2>2, <2>3 DEF Awaiting
<1>. QED
  BY <1>1, <1>2 DEF Next

LEMMA InitAwaiting == Init => Awaiting
<1>. SUFFICES ASSUME Init PROVE Awaiting
  OBVIOUS
<1>1. \A p \in Process : Awaits(job[p])
  BY IdleAwaits DEF Init
<1>. PICK r : r = [LP!Fresh EXCEPT !.state = "input-applied", !.applied = TRUE]
  OBVIOUS
<1>2. r.state = "input-applied"
  BY LedgerConstants, LP!FreshInRow DEF LP!Row
<1>3. sub[Root] = r
  BY SameLedger, Calls DEF Init
<1>. QED
  BY <1>1, <1>2, <1>3 DEF Awaiting, SleepsOnChildren

\* What is waited for, and what is looked up, exists, for ever.
LEMMA AwaitingStays == Spec => []Awaiting
<1>1. Init => IInv /\ Awaiting
  BY InitIInv, InitAwaiting
<1>2. IInv /\ Awaiting /\ [Next]_vars => (IInv /\ Awaiting)'
  BY NextIInv, NextAwaiting
<1>. QED
  BY <1>1, <1>2, PTL DEF Spec

\* The parent only sleeps on children that exist, however old the log is that the Attempt or
\* the repair had read when it put it to sleep (suspendAttempt, classifyRecovery): so that
\* the settlement that wakes it can still come.
THEOREM NoSleepInVain == Spec => []SleepsOnChildren
<1>1. Awaiting => SleepsOnChildren
  BY DEF Awaiting
<1>. QED
  BY AwaitingStays, <1>1, PTL

\* A child that is looked up is found: the errors for one that is unknown to the ledger are
\* never raised, by an Attempt, an abort or an expiry, after whatever crashes and repairs.
THEOREM ChildrenAreFound == Spec => []FindsItsChild
<1>1. Awaiting => FindsItsChild
  BY DEF Awaiting, Awaits, Found, FindsItsChild
<1>. QED
  BY AwaitingStays, <1>1, PTL
=============================================================================
