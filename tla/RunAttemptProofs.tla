------------------------- MODULE RunAttemptProofs --------------------------
(***************************************************************************)
(* Machine-checked proofs about the coordinator, from the shape every step  *)
(* has (RunAttemptSteps): that claims are told apart, that the ledger's      *)
(* marker, the settlement, the handler's starts and the queue each agree     *)
(* with history.  For any number of workers, recovery passes, Submissions,   *)
(* claims, faults and sweeps.                                                *)
(***************************************************************************)
EXTENDS RunAttemptSteps

-----------------------------------------------------------------------------
(***************************************************************************)
(* Claims.  A process carries the token and the epoch its claim was granted *)
(* under; no two claims share either, and the fence only names granted ones.*)
(***************************************************************************)
Claims(p) ==
  /\ job[p].epoch <= epoch[Lane]
  /\ job[p].token # 0 /\ job[p].at \notin Closing => job[p].epoch # 0
  /\ job[p].token # 0 /\ job[p].at \notin Closing \cup {"claimed"} => job[p].epoch <= fence[Lane]
  /\ job[p].token # 0 => sub[job[p].s].state # "ready"
  /\ \A r \in Submission :
       job[p].token # 0 /\ sub[r].token = job[p].token =>
         r = job[p].s /\ (job[p].epoch # 0 => sub[r].epoch = job[p].epoch)
Distinct(p, q) ==
  job[p].token # 0 /\ job[q].token # 0 =>
    /\ job[p].token # job[q].token
    /\ job[p].epoch # 0 => job[p].epoch # job[q].epoch
ClaimInv ==
  /\ fence[Lane] <= epoch[Lane]
  /\ \A p \in Process : Claims(p)
  /\ \A p, q \in Process : p # q => Distinct(p, q)

\* The claim of a process whose epoch is the fence: no other one is.
Live(p) == job[p].token # 0 /\ job[p].epoch = fence[Lane]

\* A step carries its claim on, drops it, or is granted a new one.
Carries(p) ==
  \/ job'[p].token = 0 /\ job'[p].epoch <= epoch'[Lane]
  \/ /\ job'[p].token = job[p].token /\ job'[p].s = job[p].s
     /\ job'[p].epoch \in {0, job[p].epoch}
     /\ job'[p].at \notin Closing => job'[p].epoch = job[p].epoch /\ job[p].at \notin Closing
     /\ job'[p].at \notin Closing \cup {"claimed"} =>
          job[p].at # "claimed" \/ job[p].epoch <= fence'[Lane]
Granted(p) ==
  /\ job'[p].token = minted + 1 /\ job'[p].epoch = epoch[Lane] + 1
  /\ job'[p].at \in {"claimed", "release"} /\ fence' = fence
  /\ job[p].token = 0
  /\ \E s \in Submission : job'[p].s = s /\ L!Claim(s)
FenceFrom(p) ==
  \/ fence'[Lane] = fence[Lane]
  \/ fence'[Lane] = 0
  \/ job[p].at = "claimed" /\ fence'[Lane] = job[p].epoch
Carried(p) == (Carries(p) \/ Granted(p)) /\ FenceFrom(p)

LEMMA Numbers ==
  ASSUME Base, Forward
  PROVE  /\ minted \in Nat /\ minted' \in Nat /\ minted <= minted'
         /\ epoch[Lane] \in Nat /\ epoch'[Lane] \in Nat /\ epoch[Lane] <= epoch'[Lane]
         /\ fence[Lane] \in Nat \cup {-1} /\ fence'[Lane] \in Nat \cup {-1}
            /\ fence[Lane] <= fence'[Lane]
         /\ \A r \in Submission :
              /\ sub[r].token \in Nat /\ sub[r].epoch \in Nat /\ sub[r].token <= minted
              /\ sub'[r].token \in Nat /\ sub'[r].epoch \in Nat
              /\ RowForward(r)
         /\ \A p \in Process : job[p].token \in Nat /\ job[p].epoch \in Nat
            /\ job[p].token <= minted
<1>1. LedgerInv /\ LedgerInv' /\ T!TypeOK
  BY LedgerStep DEF Base, TypeOK, Forward
<1>2. /\ minted \in Nat /\ minted' \in Nat /\ epoch[Lane] \in Nat /\ epoch'[Lane] \in Nat
      /\ \A r \in Submission :
           /\ sub[r].token \in Nat /\ sub[r].epoch \in Nat /\ sub[r].token <= minted
           /\ sub'[r].token \in Nat /\ sub'[r].epoch \in Nat
  BY <1>1 DEF LedgerInv, LP!TypeOK, LP!Row, LP!Counted
<1>3. fence[Lane] \in Nat \cup {-1} /\ fence'[Lane] \in Nat \cup {-1}
  BY <1>1 DEF Forward, LogForward, T!TypeOK, T!Unmaterialized
<1>. QED
  BY <1>2, <1>3, BaseTypes DEF Forward, LedgerForward, LogForward, Base

LEMMA MovesCarry ==
  ASSUME Base, ClaimInv, NEW p \in Process, Forward
  PROVE  /\ \A at, kinds, o :
              Moves(p, at, kinds, o)
              /\ (at \in Closing \/ job[p].at \notin Closing)
              /\ (at \in Closing \/ job[p].at # "claimed" \/ job[p].epoch <= fence'[Lane])
                 => Carries(p)
         /\ \A at : Goes(p, at)
              /\ (at \in Closing \/ job[p].at \notin Closing)
              /\ (at \in Closing \/ job[p].at # "claimed" \/ job[p].epoch <= fence'[Lane])
                 => Carries(p)
         /\ Stays(p) => Carries(p)
         /\ Rests(p) => Carries(p)
<1>2. Rests(p) => Carries(p)
  BY Numbers DEF Rests, Carries
<1>3. Stays(p) => Carries(p)
  BY DEF Stays, Moves, Carries
<1>4. ASSUME NEW at, NEW kinds, NEW o, Moves(p, at, kinds, o),
             at \in Closing \/ job[p].at \notin Closing,
             at \in Closing \/ job[p].at # "claimed" \/ job[p].epoch <= fence'[Lane]
      PROVE  Carries(p)
  BY <1>4 DEF Moves, Carries
<1>. QED
  BY <1>2, <1>3, <1>4 DEF Goes

LEMMA AppendCarries ==
  ASSUME Base, ClaimInv, NEW p \in Process, Forward, NEW k, NEW b, NEW tolerant, NEW then,
         AppendOutcome(p, k, b, tolerant, then), job[p].at \notin Closing \cup {"claimed"}
  PROVE  Carried(p)
<1>1. fence' = fence
  BY DEF AppendOutcome, Lands, canon
<1>2. Carries(p)
  BY MovesCarry DEF AppendOutcome, Written
<1>. QED
  BY <1>1, <1>2 DEF Carried, FenceFrom

LEMMA ProcessCarries ==
  ASSUME Base, ClaimInv, NEW p \in Process, Forward,
         \/ Step(p) \/ Watch(p) \/ Halt(p) \/ Renew(p) \/ Crash(p) \/ Fail(p)
         \/ \E s \in Submission : Claim(p, s) \/ Sweep(p, s)
  PROVE  Carried(p)
<1>0. UNCHANGED canon => FenceFrom(p)
  BY DEF canon, FenceFrom
<1>. USE DEF Calm
<1>1. CASE ApplyInput(p)
  BY <1>1, ApplyInputMoves, AppendCarries DEF Closing
<1>2. CASE AppendClosedCall(p)
  BY <1>2, AppendClosedCallMoves, AppendCarries DEF Closing
<1>3. CASE AppendUnknown(p)
  BY <1>3, AppendUnknownMoves, AppendCarries DEF Closing
<1>4. CASE CommitResponse(p)
  BY <1>4, CommitResponseMoves, AppendCarries DEF Closing
<1>5. CASE PrepareCall(p)
  BY <1>5, PrepareCallMoves, AppendCarries DEF Closing
<1>6. CASE CommitResults(p)
  BY <1>6, CommitResultsMoves, AppendCarries DEF Closing
<1>7. CASE CompleteRun(p)
  BY <1>7, CompleteRunMoves, AppendCarries DEF Closing
<1>8. CASE RecordHalt(p)
  BY <1>8, RecordHaltMoves, AppendCarries DEF Closing
<1>9. CASE RecordSettlement(p)
  BY <1>9, RecordSettlementMoves, AppendCarries DEF Closing
<1>10. CASE RecordAbort(p)
  BY <1>0, <1>10, RecordAbortMoves, AppendCarries, MovesCarry DEF Closing, Carried
<1>11. CASE AuditOpenCalls(p)
  BY <1>0, <1>11, AuditMoves, AppendCarries, MovesCarry DEF Closing, Carried
<1>12. CASE Attach(p)
  <2>1. FenceFrom(p)
    BY <1>12, AttachMoves DEF FenceFrom, canon
  <2>2. Carries(p)
    BY <1>12, AttachMoves, MovesCarry, Numbers DEF Closing, canon
  <2>. QED
    BY <2>1, <2>2 DEF Carried
<1>13. CASE Load(p)
  BY <1>0, <1>13, LoadMoves, MovesCarry DEF Closing, Carried
<1>14. CASE Read(p)
  BY <1>0, <1>14, ReadMoves, MovesCarry DEF Closing, Carried
<1>15. CASE MarkInput(p)
  BY <1>0, <1>15, MarkMoves, MovesCarry DEF Closing, Carried
<1>16. CASE Reconcile(p)
  BY <1>0, <1>16, ReconcileMoves, MovesCarry DEF Closing, Carried
<1>17. CASE Park(p)
  BY <1>0, <1>17, ParkMoves, MovesCarry DEF Closing, Carried
<1>18. CASE RunOn(p)
  BY <1>0, <1>18, RunOnMoves, MovesCarry DEF Closing, Carried
<1>19. CASE RunFails(p)
  BY <1>0, <1>19, RunFailsMoves, MovesCarry DEF Closing, Carried
<1>20. CASE Reserve(p)
  BY <1>0, <1>20, ReserveMoves, MovesCarry DEF Closing, Carried
<1>21. CASE Finalize(p)
  BY <1>0, <1>21, FinalizeMoves, MovesCarry DEF Closing, Carried
<1>22. CASE Release(p)
  BY <1>0, <1>22, ReleaseMoves, MovesCarry DEF Closing, Carried
<1>23. CASE Inspect(p)
  BY <1>0, <1>23, InspectMoves, MovesCarry DEF Closing, Carried
<1>24. CASE Wake(p)
  BY <1>0, <1>24, WakeMoves, MovesCarry DEF Closing, Carried
<1>25. CASE Seek(p)
  BY <1>0, <1>25, SeekMoves, MovesCarry DEF Closing, Carried
<1>26. CASE ReadTail(p)
  BY <1>0, <1>26, ReadTailMoves, MovesCarry DEF Closing, Carried
<1>27. CASE Execute(p)
  BY <1>0, <1>27, ExecuteMoves, MovesCarry DEF Closing, Carried
<1>28. CASE Watch(p)
  BY <1>0, <1>28, WatchMoves, MovesCarry DEF Closing, Carried, InRun, Attempting
<1>29. CASE Halt(p)
  BY <1>0, <1>29, HaltMoves, MovesCarry DEF Closing, Carried, InRun, Attempting
<1>30. CASE Renew(p)
  BY <1>0, <1>30, RenewMoves, MovesCarry DEF Closing, Carried, InRun, Attempting
<1>31. CASE Crash(p) \/ Fail(p)
  BY <1>0, <1>31, FaultMoves, MovesCarry DEF Closing, Carried
<1>32. CASE Acquire(p)
  <2>1. job[p].token = 0
    BY <1>32, AcquireMoves, CourseOf DEF Course, BeforeClaim
  <2>. QED
    BY <1>0, <1>32, <2>1, AcquireMoves, MovesCarry DEF Closing, Carried, Granted, canon
<1>33. CASE Attend(p)
  <2>1. job[p].token = 0
    BY <1>33, AttendMoves, CourseOf DEF Course, BeforeClaim
  <2>2. fence'[Lane] = fence[Lane] \/ fence'[Lane] = 0
    BY <1>33 DEF Attend, T!Materialize, Only, canon, Base, TypeOK, T!TypeOK
  <2>3. job'[p].epoch <= epoch'[Lane]
    BY <1>33, <2>2, AttendMoves, Numbers DEF ClaimInv
  <2>. QED
    BY <1>33, <2>1, <2>2, <2>3, AttendMoves DEF Carried, Carries, FenceFrom
<1>34. ASSUME NEW s \in Submission, Claim(p, s) PROVE Carried(p)
  BY <1>0, <1>34, ClaimMoves DEF Carried, Granted, canon
<1>35. ASSUME NEW s \in Submission, Sweep(p, s) PROVE Carried(p)
  BY <1>0, <1>35, SweepMoves, Numbers DEF Carried, Carries
<1>. QED
  BY <1>1, <1>2, <1>3, <1>4, <1>5, <1>6, <1>7, <1>8, <1>9, <1>10, <1>11, <1>12, <1>13, <1>14,
     <1>15, <1>16, <1>17, <1>18, <1>19, <1>20, <1>21, <1>22, <1>23, <1>24, <1>25, <1>26, <1>27,
     <1>28, <1>29, <1>30, <1>31, <1>32, <1>33, <1>34, <1>35 DEF Step

\* The claims of the others survive any step.
LEMMA ClaimsKept ==
  ASSUME Base, ClaimInv, Forward, NEW q \in Process, job'[q] = job[q]
  PROVE  Claims(q)'
  BY Numbers, BaseTypes DEF ClaimInv, Claims, RowForward, Closing

LEMMA ClaimsCarried ==
  ASSUME Base, ClaimInv, Forward, NEW p \in Process, Carries(p)
  PROVE  Claims(p)'
<1>1. CASE job'[p].token = 0 /\ job'[p].epoch <= epoch'[Lane]
  BY <1>1 DEF Claims
<1>2. CASE /\ job'[p].token = job[p].token /\ job'[p].s = job[p].s
           /\ job'[p].epoch \in {0, job[p].epoch}
           /\ job'[p].at \notin Closing => job'[p].epoch = job[p].epoch /\ job[p].at \notin Closing
           /\ job'[p].at \notin Closing \cup {"claimed"} =>
                job[p].at # "claimed" \/ job[p].epoch <= fence'[Lane]
  BY <1>2, Numbers, BaseTypes DEF ClaimInv, Claims, RowForward
<1>. QED
  BY <1>1, <1>2 DEF Carries

LEMMA ClaimsGranted ==
  ASSUME Base, ClaimInv, Forward, NEW p \in Process, Granted(p)
  PROVE  Claims(p)'
<1>1. PICK s \in Submission : job'[p].s = s /\ L!Claim(s)
  BY DEF Granted
<1>2. /\ sub'[s].state = IF sub[s].state = "ready" THEN "running" ELSE sub[s].state
      /\ sub'[s].token = minted + 1 /\ sub'[s].epoch = epoch[Lane] + 1
      /\ \A r \in Submission \ {s} : sub'[r] = sub[r]
      /\ epoch'[Lane] = epoch[Lane] + 1
  BY <1>1, ClaimEffect DEF Base
<1>. QED
  BY <1>1, <1>2, Numbers DEF Granted, Claims, Closing

LEMMA ClaimInit == Init => ClaimInv
<1>. SUFFICES ASSUME Init PROVE ClaimInv
  OBVIOUS
<1>1. \A p \in Process : job[p] = Idle
  BY DEF Init
<1>2. fence[Lane] = -1 /\ epoch[Lane] = 0
  BY DEF Init, T!Init, T!Unmaterialized
<1>. QED
  BY <1>1, <1>2, IdleType DEF ClaimInv, Claims, Distinct

LEMMA ClaimStep == Base /\ ClaimInv /\ [Next]_vars => ClaimInv'
<1>. SUFFICES ASSUME Base, ClaimInv, [Next]_vars PROVE ClaimInv'
  OBVIOUS
<1>1. ASSUME Next, job' = job, fence' = fence PROVE ClaimInv'
  <2>1. Forward
    BY <1>1, NextForward
  <2>2. \A q \in Process : Claims(q)'
    BY <1>1, <2>1, ClaimsKept
  <2>3. fence'[Lane] <= epoch'[Lane]
    BY <1>1, <2>1, Numbers DEF ClaimInv
  <2>. QED
    BY <1>1, <2>2, <2>3 DEF ClaimInv, Distinct
<1>2. ASSUME NEW p \in Process, Next,
             \/ Step(p) \/ Watch(p) \/ Halt(p) \/ Renew(p) \/ Crash(p) \/ Fail(p)
             \/ \E s \in Submission : Claim(p, s) \/ Sweep(p, s)
      PROVE  ClaimInv'
  <2>1. Forward /\ Regular(p)
    BY <1>2, NextForward, StepRegular, WatchRegular, HaltRegular, RenewRegular, FaultRegular,
       ClaimRegular, SweepRegular
  <2>2. Carried(p)
    BY <1>2, <2>1, ProcessCarries
  <2>3. \A q \in Process : q # p => job'[q] = job[q] /\ Claims(q)'
    BY <2>1, ClaimsKept DEF Regular, Apart
  <2>4. Claims(p)'
    BY <2>1, <2>2, ClaimsCarried, ClaimsGranted DEF Carried
  <2>5. fence'[Lane] <= epoch'[Lane]
    BY <2>1, <2>2, Numbers DEF Carried, FenceFrom, ClaimInv, Claims
  <2>6. ASSUME NEW q \in Process, q # p PROVE Distinct(p, q)' /\ Distinct(q, p)'
    <3>1. CASE Carries(p)
      BY <2>1, <2>3, <2>6, <3>1, Numbers DEF Carries, ClaimInv, Distinct
    <3>2. CASE Granted(p)
      BY <2>1, <2>3, <2>6, <3>2, Numbers DEF Granted, ClaimInv, Distinct, Claims
    <3>. QED
      BY <2>2, <3>1, <3>2 DEF Carried
  <2>7. ASSUME NEW q \in Process, NEW r \in Process, q # r PROVE Distinct(q, r)'
    <3>1. CASE q = p \/ r = p
      BY <2>6, <2>7, <3>1
    <3>2. CASE q # p /\ r # p
      BY <2>3, <2>7, <3>2 DEF ClaimInv, Distinct
    <3>. QED
      BY <3>1, <3>2
  <2>. QED
    BY <2>3, <2>4, <2>5, <2>7 DEF ClaimInv
<1>3. ASSUME \/ Operate
             \/ \E s \in Submission : LeaseExpires(s)
             \/ \E i \in 1..MaxForeign : ForeignAppend(i)
      PROVE  job' = job /\ fence' = fence
  <2>1. job' = job
    BY <1>3, OthersForward
  <2>2. fence' = fence
    BY <1>3 DEF Operate, RequestAbort, ResolveUnknown, LeaseExpires, ForeignAppend, canon,
       T!AppendBatch
  <2>. QED
    BY <2>1, <2>2
<1>4. CASE UNCHANGED vars
  BY <1>4 DEF vars, ledger, canon, ClaimInv, Claims, Distinct
<1>. QED
  BY <1>1, <1>2, <1>3, <1>4 DEF Next

LEMMA AlwaysClaimed == Spec => []ClaimInv
  BY ClaimInit, ClaimStep, AlwaysBase, PTL DEF Spec

-----------------------------------------------------------------------------
(***************************************************************************)
(* What each process may rely on, wherever it is, and whatever the others   *)
(* have done since it got there; and what the ledger says of history.       *)
(***************************************************************************)
RunKinds == {"response", "prepared", "closed", "final"}
Advancing == OnRun \cup {"input", "marker", "reconcile", "answer", "unknown", "park"}

\* What a process knows of history is so.
Knows(p) ==
  LET known == Recorded(job[p].s) IN
  /\ job[p].at \in {"inspect", "seek", "acquire", "claimed", "tail", "input", "marker",
     "reconcile"} =>
       job[p].knows \subseteq known
  /\ job[p].at \in OnRun \cup {"answer"}
     => job[p].knows \cap {"response", "prepared", "final"} \subseteq known
  /\ job[p].at \in OnRun \cup {"marker", "answer", "unknown", "park"} => "input" \in known
  /\ job[p].at = "reconcile" /\ p \in Worker => "input" \in known

\* A live Attempt knows all that its Run has recorded.
Accurate(p) ==
  p \in Worker /\ job[p].at \in OnRun \cup {"answer"} /\ Live(p) =>
    Recorded(job[p].s) \cap RunKinds \subseteq job[p].knows

\* What a boundary of the Run presupposes.
Placed(p) ==
  LET knows == job[p].knows IN
  /\ p \in Worker /\ job[p].at \in OnRun \cup {"answer"} /\ "prepared" \in knows
     => "response" \in knows
  /\ Where(p) = "respond" => "final" \notin knows
  /\ Where(p) = "prepare" => "response" \in knows /\ "final" \notin knows
  /\ Where(p) \in {"execute", "close"} => "prepared" \in knows /\ "final" \notin knows
  /\ Where(p) = "complete" => "final" \notin knows /\ ("prepared" \in knows => "closed" \in knows)

\* What a process will reserve, record or finalize.
Verdict(p) ==
  LET reserved == sub[job[p].s].reserved IN
  /\ job[p].at = "reserve" /\ job[p].outcome = "completed" => "final" \in Recorded(job[p].s)
  /\ job[p].at = "record" \/ (job[p].at \in Planning /\ job[p].plan = "record") =>
       reserved # None /\ reserved.outcome = job[p].outcome
  /\ job[p].at = "read" /\ job[p].row.reserved # None =>
       reserved # None /\ reserved.outcome = job[p].row.reserved
  /\ job[p].at = "finalize" => reserved # None

\* A live Attempt that goes on with its Run has no settlement to respect.
Unsettled(p) ==
  p \in Worker /\ Live(p) =>
    /\ job[p].at \in Advancing => sub[job[p].s].reserved = None
    /\ job[p].at = "read" /\ job[p].row.reserved = None => sub[job[p].s].reserved = None

Local(p) == Knows(p) /\ Accurate(p) /\ Placed(p) /\ Verdict(p) /\ Unsettled(p)
RunInv == \A p \in Process : Local(p)

\* The ledger against history, and history against itself.
RowHistory(s) ==
  /\ sub[s].applied => "input" \in Recorded(s)
  /\ sub[s].state = "unknown" => "input" \in Recorded(s)
  /\ sub[s].reserved # None /\ sub[s].reserved.outcome = "completed" => "final" \in Recorded(s)
  /\ \A i \in At("settled", s) :
       sub[s].reserved # None /\ log[Lane][i].body = sub[s].reserved.outcome
  /\ "prepared" \in Recorded(s) => "response" \in Recorded(s)
  /\ "response" \in Recorded(s) => "input" \in Recorded(s)
RowInv == \A s \in Submission : RowHistory(s)

Inv == Base /\ ClaimInv /\ RunInv /\ RowInv

LEMMA InvFacts ==
  ASSUME Inv, NEW p \in Process
  PROVE  /\ Base /\ ClaimInv /\ Local(p) /\ Course(p) /\ Claims(p)
         /\ job[p].s \in Submission /\ RowHistory(job[p].s)
         /\ job[p].knows \subseteq Kind /\ Recorded(job[p].s) \subseteq Kind
         /\ (p \in Worker <=> ~Repairing(p)) /\ (p \in Recoverer <=> Repairing(p))
         /\ (p \in Worker \/ p \in Recoverer) /\ ~(p \in Worker /\ p \in Recoverer)
<1>1. Base /\ ClaimInv
  BY DEF Inv
<1>. QED
  BY <1>1, CourseOf, BaseTypes, Places, AttemptConstants DEF Inv, RunInv, RowInv, ClaimInv, Process

LEMMA QuietLocal ==
  ASSUME NEW p \in Process, job'[p].at \in {"idle", "release", "load", "wake", "abort", "audit"}
  PROVE  Local(p)'
  BY DEF Local, Knows, Accurate, Placed, Verdict, Unsettled, Where, OnRun, InRunOf, Attempting,
     Advancing, Planning

LEMMA StaysLocal ==
  ASSUME NEW p \in Process, Local(p), Stays(p), sub' = sub, UNCHANGED canon
  PROVE  Local(p)'
<1>1. \A r : Recorded(r)' = Recorded(r)
  BY LogKept DEF canon
<1>2. fence' = fence
  BY DEF canon
<1>. QED
  BY <1>1, <1>2 DEF Stays, Moves, Keeps, Local, Knows, Accurate, Placed, Verdict, Unsettled, Where,
     Live

\* An append, as far as the process that sent it can tell.
LEMMA WrittenFacts ==
  ASSUME Base, NEW p \in Process, NEW k \in Kind, NEW b, NEW tolerant, NEW then,
         AppendOutcome(p, k, b, tolerant, then), NEW s \in Submission, s = job[p].s
  PROVE  /\ sub' = sub /\ fence' = fence
         /\ \/ /\ Written(p, k, then) /\ job[p].epoch = fence[Lane]
               /\ Recorded(s)' \in {Recorded(s), Recorded(s) \cup {k}}
               /\ k \in Recorded(s)' \/ (tolerant /\ job[p].refresh = MaxRefresh)
            \/ UNCHANGED canon /\ Stays(p)
            \/ UNCHANGED canon /\ Goes(p, "release")
<1>1. UNCHANGED canon => fence' = fence /\ Recorded(s)' = Recorded(s)
  BY LogKept DEF canon
<1>2. ASSUME NEW r \in Submission, r = job[p].s, Lands(k, r, job[p].epoch, b)
      PROVE  /\ fence' = fence /\ job[p].epoch = fence[Lane] /\ Recorded(s)' = Recorded(s) \cup {k}
  BY <1>2 DEF Lands
<1>. QED
  BY <1>1, <1>2 DEF AppendOutcome, Assumed, ledger

LEMMA AppendLocal ==
  ASSUME Base, NEW p \in Process, Local(p), NEW k \in Kind, NEW b, NEW tolerant, NEW then,
         AppendOutcome(p, k, b, tolerant, then), NEW s \in Submission, s = job[p].s,
         ASSUME Written(p, k, then), job[p].epoch = fence[Lane],
                Recorded(s)' \in {Recorded(s), Recorded(s) \cup {k}},
                k \in Recorded(s)' \/ tolerant, fence' = fence, sub' = sub, job'[p].s = s
         PROVE  Local(p)'
  PROVE  Local(p)'
<1>1. CASE UNCHANGED canon /\ Stays(p)
  BY <1>1, StaysLocal, WrittenFacts
<1>2. CASE Goes(p, "release")
  BY <1>2, QuietLocal DEF Goes, Moves
<1>3. CASE /\ Written(p, k, then) /\ job[p].epoch = fence[Lane]
           /\ Recorded(s)' \in {Recorded(s), Recorded(s) \cup {k}}
           /\ k \in Recorded(s)' \/ (tolerant /\ job[p].refresh = MaxRefresh)
  <2>1. fence' = fence /\ sub' = sub
    BY WrittenFacts
  <2>2. job'[p].s = s
    BY <1>3 DEF Written, Moves
  <2>. QED
    BY <1>3, <2>1, <2>2
<1>. QED
  BY <1>1, <1>2, <1>3, WrittenFacts

-----------------------------------------------------------------------------
\* The process that takes a step relies on no more than it may.

LEMMA ApplyInputLocal == ASSUME Inv, NEW p \in Process, ApplyInput(p) PROVE Local(p)'
<1>1. job[p].at = "input" /\ AppendOutcome(p, "input", "-", FALSE, "marker")
  BY ApplyInputMoves, InvFacts
<1>2. PICK s \in Submission : s = job[p].s
  BY InvFacts
<1>3. ASSUME Written(p, "input", "marker"), job[p].epoch = fence[Lane],
             Recorded(s)' \in {Recorded(s), Recorded(s) \cup {"input"}},
             "input" \in Recorded(s)' \/ FALSE, fence' = fence, sub' = sub, job'[p].s = s
      PROVE  Local(p)'
  BY <1>1, <1>2, <1>3, InvFacts DEF Written, Local, Knows, Accurate, Placed, Verdict, Unsettled,
     Where, Live, Course, WithClaim, OnRun, InRunOf, Attempting, Advancing, Planning, RunKinds,
     Closing, Forgetful, Moves
<1>4. "input" \in Kind
  BY DEF Kind
<1>. QED
  BY <1>1, <1>2, <1>3, <1>4, AppendLocal, InvFacts

LEMMA AppendClosedCallLocal == ASSUME Inv, NEW p \in Process, AppendClosedCall(p) PROVE Local(p)'
<1>1. job[p].at = "answer"
      /\ AppendOutcome(p, "closed", "-", TRUE, (IF Repairing(p) THEN "release" ELSE "model"))
  BY AppendClosedCallMoves, InvFacts
<1>2. PICK s \in Submission : s = job[p].s
  BY InvFacts
<1>3. ASSUME Written(p, "closed", (IF Repairing(p) THEN "release" ELSE "model")),
             job[p].epoch = fence[Lane],
             Recorded(s)' \in {Recorded(s), Recorded(s) \cup {"closed"}},
             "closed" \in Recorded(s)' \/ TRUE, fence' = fence, sub' = sub, job'[p].s = s
      PROVE  Local(p)'
  BY <1>1, <1>2, <1>3, InvFacts DEF Written, Local, Knows, Accurate, Placed, Verdict, Unsettled,
     Where, Live, Course, WithClaim, OnRun, InRunOf, Attempting, Advancing, Planning, RunKinds,
     Closing, Forgetful, Moves
<1>4. "closed" \in Kind
  BY DEF Kind
<1>. QED
  BY <1>1, <1>2, <1>3, <1>4, AppendLocal, InvFacts

LEMMA AppendUnknownLocal == ASSUME Inv, NEW p \in Process, AppendUnknown(p) PROVE Local(p)'
<1>1. job[p].at = "unknown" /\ AppendOutcome(p, "unknown", "-", TRUE, "park")
  BY AppendUnknownMoves, InvFacts
<1>2. PICK s \in Submission : s = job[p].s
  BY InvFacts
<1>3. ASSUME Written(p, "unknown", "park"), job[p].epoch = fence[Lane],
             Recorded(s)' \in {Recorded(s), Recorded(s) \cup {"unknown"}},
             "unknown" \in Recorded(s)' \/ TRUE, fence' = fence, sub' = sub, job'[p].s = s
      PROVE  Local(p)'
  BY <1>1, <1>2, <1>3, InvFacts DEF Written, Local, Knows, Accurate, Placed, Verdict, Unsettled,
     Where, Live, Course, WithClaim, OnRun, InRunOf, Attempting, Advancing, Planning, RunKinds,
     Closing, Forgetful, Moves
<1>4. "unknown" \in Kind
  BY DEF Kind
<1>. QED
  BY <1>1, <1>2, <1>3, <1>4, AppendLocal, InvFacts

LEMMA CommitResponseLocal == ASSUME Inv, NEW p \in Process, CommitResponse(p) PROVE Local(p)'
<1>1. job[p].at = "respond" /\ AppendOutcome(p, "response", "-", FALSE, "model")
  BY CommitResponseMoves, InvFacts
<1>2. PICK s \in Submission : s = job[p].s
  BY InvFacts
<1>3. ASSUME Written(p, "response", "model"), job[p].epoch = fence[Lane],
             Recorded(s)' \in {Recorded(s), Recorded(s) \cup {"response"}},
             "response" \in Recorded(s)' \/ FALSE, fence' = fence, sub' = sub, job'[p].s = s
      PROVE  Local(p)'
  BY <1>1, <1>2, <1>3, InvFacts DEF Written, Local, Knows, Accurate, Placed, Verdict, Unsettled,
     Where, Live, Course, WithClaim, OnRun, InRunOf, Attempting, Advancing, Planning, RunKinds,
     Closing, Forgetful, Moves
<1>4. "response" \in Kind
  BY DEF Kind
<1>. QED
  BY <1>1, <1>2, <1>3, <1>4, AppendLocal, InvFacts

LEMMA PrepareCallLocal == ASSUME Inv, NEW p \in Process, PrepareCall(p) PROVE Local(p)'
<1>1. job[p].at = "prepare" /\ AppendOutcome(p, "prepared", "-", FALSE, "execute")
  BY PrepareCallMoves, InvFacts
<1>2. PICK s \in Submission : s = job[p].s
  BY InvFacts
<1>3. ASSUME Written(p, "prepared", "execute"), job[p].epoch = fence[Lane],
             Recorded(s)' \in {Recorded(s), Recorded(s) \cup {"prepared"}},
             "prepared" \in Recorded(s)' \/ FALSE, fence' = fence, sub' = sub, job'[p].s = s
      PROVE  Local(p)'
  BY <1>1, <1>2, <1>3, InvFacts DEF Written, Local, Knows, Accurate, Placed, Verdict, Unsettled,
     Where, Live, Course, WithClaim, OnRun, InRunOf, Attempting, Advancing, Planning, RunKinds,
     Closing, Forgetful, Moves
<1>4. "prepared" \in Kind
  BY DEF Kind
<1>. QED
  BY <1>1, <1>2, <1>3, <1>4, AppendLocal, InvFacts

LEMMA CommitResultsLocal == ASSUME Inv, NEW p \in Process, CommitResults(p) PROVE Local(p)'
<1>1. job[p].at = "close" /\ AppendOutcome(p, "closed", "-", FALSE, "model")
  BY CommitResultsMoves, InvFacts
<1>2. PICK s \in Submission : s = job[p].s
  BY InvFacts
<1>3. ASSUME Written(p, "closed", "model"), job[p].epoch = fence[Lane],
             Recorded(s)' \in {Recorded(s), Recorded(s) \cup {"closed"}},
             "closed" \in Recorded(s)' \/ FALSE, fence' = fence, sub' = sub, job'[p].s = s
      PROVE  Local(p)'
  BY <1>1, <1>2, <1>3, InvFacts DEF Written, Local, Knows, Accurate, Placed, Verdict, Unsettled,
     Where, Live, Course, WithClaim, OnRun, InRunOf, Attempting, Advancing, Planning, RunKinds,
     Closing, Forgetful, Moves
<1>4. "closed" \in Kind
  BY DEF Kind
<1>. QED
  BY <1>1, <1>2, <1>3, <1>4, AppendLocal, InvFacts

LEMMA CompleteRunLocal == ASSUME Inv, NEW p \in Process, CompleteRun(p) PROVE Local(p)'
<1>1. job[p].at = "complete" /\ AppendOutcome(p, "final", "-", FALSE, "reserve")
  BY CompleteRunMoves, InvFacts
<1>2. PICK s \in Submission : s = job[p].s
  BY InvFacts
<1>3. ASSUME Written(p, "final", "reserve"), job[p].epoch = fence[Lane],
             Recorded(s)' \in {Recorded(s), Recorded(s) \cup {"final"}},
             "final" \in Recorded(s)' \/ FALSE, fence' = fence, sub' = sub, job'[p].s = s
      PROVE  Local(p)'
  BY <1>1, <1>2, <1>3, InvFacts DEF Written, Local, Knows, Accurate, Placed, Verdict, Unsettled,
     Where, Live, Course, WithClaim, OnRun, InRunOf, Attempting, Advancing, Planning, RunKinds,
     Closing, Forgetful, Moves
<1>4. "final" \in Kind
  BY DEF Kind
<1>. QED
  BY <1>1, <1>2, <1>3, <1>4, AppendLocal, InvFacts

LEMMA RecordHaltLocal == ASSUME Inv, NEW p \in Process, RecordHalt(p) PROVE Local(p)'
<1>1. job[p].at = "halt" /\ AppendOutcome(p, "abort", "-", TRUE, job[p].plan)
  BY RecordHaltMoves, InvFacts
<1>2. PICK s \in Submission : s = job[p].s
  BY InvFacts
<1>3. ASSUME Written(p, "abort", job[p].plan), job[p].epoch = fence[Lane],
             Recorded(s)' \in {Recorded(s), Recorded(s) \cup {"abort"}},
             "abort" \in Recorded(s)' \/ TRUE, fence' = fence, sub' = sub, job'[p].s = s
      PROVE  Local(p)'
  BY <1>1, <1>2, <1>3, InvFacts DEF Written, Local, Knows, Accurate, Placed, Verdict, Unsettled,
     Where, Live, Course, WithClaim, OnRun, InRunOf, Attempting, Advancing, Planning, RunKinds,
     Closing, Forgetful, Moves
<1>4. "abort" \in Kind
  BY DEF Kind
<1>. QED
  BY <1>1, <1>2, <1>3, <1>4, AppendLocal, InvFacts

LEMMA RecordSettlementLocal == ASSUME Inv, NEW p \in Process, RecordSettlement(p) PROVE Local(p)'
<1>1. job[p].at = "record" /\ AppendOutcome(p, "settled", job[p].outcome, TRUE, "finalize")
  BY RecordSettlementMoves, InvFacts
<1>2. PICK s \in Submission : s = job[p].s
  BY InvFacts
<1>3. ASSUME Written(p, "settled", "finalize"), job[p].epoch = fence[Lane],
             Recorded(s)' \in {Recorded(s), Recorded(s) \cup {"settled"}},
             "settled" \in Recorded(s)' \/ TRUE, fence' = fence, sub' = sub, job'[p].s = s
      PROVE  Local(p)'
  BY <1>1, <1>2, <1>3, InvFacts DEF Written, Local, Knows, Accurate, Placed, Verdict, Unsettled,
     Where, Live, Course, WithClaim, OnRun, InRunOf, Attempting, Advancing, Planning, RunKinds,
     Closing, Forgetful, Moves
<1>4. "settled" \in Kind
  BY DEF Kind
<1>. QED
  BY <1>1, <1>2, <1>3, <1>4, AppendLocal, InvFacts

LEMMA StoresKept ==
  /\ UNCHANGED canon => fence' = fence /\ log' = log /\ \A r : Recorded(r)' = Recorded(r)
  /\ UNCHANGED ledger => sub' = sub
  /\ Calm => fence' = fence /\ log' = log /\ sub' = sub /\ \A r : Recorded(r)' = Recorded(r)
  BY LogKept DEF canon, ledger, Calm

LEMMA ParkLocal == ASSUME Inv, NEW p \in Process, Park(p) PROVE Local(p)'
  BY ParkMoves, InvFacts, QuietLocal DEF Goes, Moves, Rests

LEMMA FinalizeLocal == ASSUME Inv, NEW p \in Process, Finalize(p) PROVE Local(p)'
  BY FinalizeMoves, InvFacts, QuietLocal DEF Goes, Moves, Rests

LEMMA ReleaseLocal == ASSUME Inv, NEW p \in Process, Release(p) PROVE Local(p)'
  BY ReleaseMoves, InvFacts, QuietLocal DEF Goes, Moves, Rests

LEMMA WakeLocal == ASSUME Inv, NEW p \in Process, Wake(p) PROVE Local(p)'
  BY WakeMoves, InvFacts, QuietLocal DEF Goes, Moves, Rests

LEMMA FaultLocal == ASSUME Inv, NEW p \in Process, Crash(p) \/ Fail(p) PROVE Local(p)'
  BY FaultMoves, InvFacts, QuietLocal DEF Moves, Rests

LEMMA ClaimLocal == ASSUME Inv, NEW p \in Process, NEW s \in Submission, Claim(p, s) PROVE Local(p)'
<1>1. job'[p].at = "claimed" /\ job'[p].knows = {} /\ job'[p].plan = "idle"
  BY ClaimMoves, InvFacts
<1>. QED
  BY <1>1 DEF Local, Knows, Accurate, Placed, Verdict, Unsettled, Where, Live, Course, WithClaim,
     OnRun, InRunOf, Attempting, Advancing, Planning, RunKinds, Closing, Forgetful, Moves

LEMMA SweepLocal == ASSUME Inv, NEW p \in Process, NEW s \in Submission, Sweep(p, s) PROVE Local(p)'
<1>1. job'[p].at = "inspect" /\ job'[p].knows = Recorded(s) /\ job'[p].s = s
      /\ Recorded(s)' = Recorded(s)
  BY SweepMoves, InvFacts, StoresKept
<1>. QED
  BY <1>1 DEF Local, Knows, Accurate, Placed, Verdict, Unsettled, Where, Live, Course, WithClaim,
     OnRun, InRunOf, Attempting, Advancing, Planning, RunKinds, Closing, Forgetful, Moves

LEMMA AttachLocal == ASSUME Inv, NEW p \in Process, Attach(p) PROVE Local(p)'
<1>0. Base /\ Local(p) /\ Course(p)
  BY InvFacts
<1>1. CASE Goes(p, "release") \/ Goes(p, "load")
  BY <1>1, QuietLocal DEF Goes, Moves
<1>2. CASE Goes(p, "tail")
  <2>1. job[p].at = "claimed" /\ sub' = sub /\ log' = log
    BY <1>0, AttachMoves, StoresKept DEF canon
  <2>2. \A r : Recorded(r)' = Recorded(r)
    BY <2>1, LogKept
  <2>. QED
    BY <1>0, <1>2, <2>1, <2>2 DEF Goes, Keeps, Local, Knows, Accurate, Placed, Verdict, Unsettled,
       Where, Live, Course, WithClaim, OnRun, InRunOf, Attempting, Advancing, Planning, RunKinds,
       Closing, Forgetful, Moves
<1>. QED
  BY <1>0, <1>1, <1>2, AttachMoves

LEMMA LoadLocal == ASSUME Inv, NEW p \in Process, Load(p) PROVE Local(p)'
<1>0. Base /\ LedgerInv /\ job[p].s \in Submission /\ Moves(p, "read", job[p].knows, job[p].outcome)
      /\ job'[p].row = SnapshotOf(job[p].s) /\ job'[p].plan = job[p].plan /\ sub' = sub
  BY InvFacts, BaseTypes, LoadMoves, StoresKept
<1>1. PICK s \in Submission : s = job[p].s
  BY <1>0
<1>2. job'[p].row.reserved = IF sub[s].reserved = None THEN None ELSE sub[s].reserved.outcome
  BY <1>0, <1>1, SnapshotType
<1>3. sub[s].reserved # None => sub[s].reserved.outcome # None
  BY <1>0, RowTypes, AttemptConstants DEF LP!Reservation, Outcome
<1>4. job'[p].s = s /\ job'[p].at = "read"
  BY <1>0, <1>1 DEF Moves
<1>. HIDE DEF SnapshotOf
<1>. QED
  BY <1>0, <1>2, <1>3, <1>4 DEF Local, Knows, Accurate, Placed, Verdict, Unsettled, Where, OnRun,
     InRunOf,
     Attempting, Advancing, Planning

LEMMA ReadLocal == ASSUME Inv, NEW p \in Process, Read(p) PROVE Local(p)'
<1>0. Base /\ Local(p) /\ Course(p) /\ job[p].s \in Submission /\ RowHistory(job[p].s)
      /\ fence' = fence /\ sub' = sub /\ (\A r : Recorded(r)' = Recorded(r))
  BY InvFacts, ReadMoves, StoresKept
<1>a. PICK s \in Submission : s = job[p].s
  BY <1>0
<1>. DEFINE row == job[p].row
            kinds == Recorded(s)
            at == PlanOf(row, kinds)
            out == OutcomeOf(row)
<1>1. /\ at = "record" => row.reserved # None /\ out = row.reserved
      /\ at = "finalize" => "settled" \in kinds
      /\ at \in {"input", "marker", "reconcile"} => row.reserved = None
      /\ at \in {"marker", "reconcile"} => "input" \in kinds
      /\ at \in {"finalize", "record", "abort", "input", "marker", "reconcile"}
  BY DEF PlanOf, OutcomeOf
<1>2. "settled" \in kinds => sub[s].reserved # None
  BY <1>0, <1>a, Places DEF RowHistory, Kind
<1>3. job[p].at = "read" /\ Moves(p, at, kinds, out)
  BY <1>0, <1>a, ReadMoves
<1>4. Recorded(s)' = kinds /\ job'[p].s = s
  BY <1>0, <1>3, <1>a DEF Moves
<1>. HIDE DEF at, kinds, out
<1>5. Knows(p)' /\ Accurate(p)' /\ Placed(p)'
  BY <1>1, <1>3, <1>4 DEF Moves, Knows, Accurate, Placed, Where, OnRun, InRunOf, Attempting,
     Closing, Forgetful
<1>6. Verdict(p)'
  BY <1>0, <1>a, <1>1, <1>2, <1>3, <1>4 DEF Moves, Local, Verdict, Planning, Closing, Forgetful
<1>7. Unsettled(p)'
  BY <1>0, <1>a, <1>1, <1>3, <1>4 DEF Moves, Local, Unsettled, Live, Advancing, OnRun, InRunOf,
     Attempting, Closing, Forgetful
<1>. QED
  BY <1>5, <1>6, <1>7 DEF Local

LEMMA MarkInputLocal == ASSUME Inv, NEW p \in Process, MarkInput(p) PROVE Local(p)'
<1>0. Base /\ Local(p) /\ Course(p) /\ Claims(p) /\ job[p].s \in Submission
      /\ job[p].token \in 0..minted
      /\ LedgerInv
  BY InvFacts, BaseTypes
<1>1. CASE Goes(p, "release")
  BY <1>1, QuietLocal DEF Goes, Moves
<1>2. CASE Goes(p, "reconcile") /\ p \in Worker
  <2>1. job[p].at = "marker" /\ fence' = fence /\ \A r : Recorded(r)' = Recorded(r)
    BY <1>0, MarkMoves, StoresKept
  <2>2. sub'[job[p].s].reserved = sub[job[p].s].reserved
    <3>1. CASE UNCHANGED ledger
      BY <3>1 DEF ledger
    <3>2. CASE L!MarkInputApplied(job[p].s, job[p].token)
      BY <1>0, <3>2, MarkEffect
    <3>. QED
      BY <1>0, <3>1, <3>2, MarkMoves
  <2>. QED
    BY <1>0, <1>2, <2>1, <2>2 DEF Goes, Keeps, Local, Knows, Accurate, Placed, Verdict, Unsettled,
       Where, Live, Course, WithClaim, OnRun, InRunOf, Attempting, Advancing, Planning, RunKinds,
       Closing, Forgetful, Moves
<1>. QED
  BY <1>0, <1>1, <1>2, MarkMoves, InvFacts

LEMMA ReconcileLocal == ASSUME Inv, NEW p \in Process, Reconcile(p) PROVE Local(p)'
<1>0. Base /\ Local(p) /\ Course(p) /\ job[p].s \in Submission /\ RowHistory(job[p].s)
      /\ fence' = fence /\ sub' = sub /\ (\A r : Recorded(r)' = Recorded(r))
      /\ job[p].at = "reconcile" /\ (p \in Worker <=> ~Repairing(p))
         /\ (p \in Worker \/ p \in Recoverer)
  BY InvFacts, ReconcileMoves, StoresKept
<1>a. PICK s \in Submission : s = job[p].s
  BY <1>0
<1>. DEFINE known == Recorded(s)
            kinds == IF Repairing(p) THEN job[p].knows ELSE known
            answer == IF Repairing(p) /\ ~job[p].row.answered THEN None ELSE consent[s]
            at == Triage(p, kinds, answer)
<1>1. Moves(p, at, kinds, job[p].outcome)
  BY <1>0, <1>a, ReconcileMoves
<1>2. /\ at \in {"park", "unknown", "answer", "release", "model"}
      /\ Repairing(p) => at # "model"
      /\ at \in {"park", "unknown", "answer"} => "prepared" \in kinds
  BY Targets DEF Triage, OpenIn
<1>3. kinds \subseteq known /\ (p \in Worker => kinds = known) /\ (p \in Worker
      => "input" \in known)
  BY <1>0, <1>a DEF Local, Knows
<1>4. "prepared" \in known => "response" \in known /\ "input" \in known
  BY <1>0, <1>a DEF RowHistory
<1>5. Recorded(s)' = known /\ job'[p].s = s
  BY <1>0, <1>a, <1>1 DEF Moves
<1>. HIDE DEF at, kinds, answer, known
<1>6. Knows(p)'
  BY <1>0, <1>1, <1>2, <1>3, <1>4, <1>5 DEF Moves, Knows, Where, OnRun, InRunOf, Attempting,
     Closing, Forgetful
<1>7. Accurate(p)' /\ Placed(p)'
  BY <1>0, <1>1, <1>2, <1>3, <1>4, <1>5 DEF Moves, Accurate, Placed, Where, OnRun, InRunOf,
     Attempting,
     Closing, Forgetful
<1>8. Verdict(p)'
  BY <1>1, <1>2 DEF Moves, Verdict, Planning
<1>9. Unsettled(p)'
  BY <1>0, <1>a, <1>1, <1>2, <1>5 DEF Moves, Local, Unsettled, Live, Advancing, OnRun, InRunOf,
     Attempting, Closing
<1>. QED
  BY <1>6, <1>7, <1>8, <1>9 DEF Local

LEMMA RunOnLocal == ASSUME Inv, NEW p \in Process, RunOn(p) PROVE Local(p)'
<1>0. Base /\ Local(p) /\ Course(p) /\ fence' = fence /\ sub' = sub
      /\ (\A r : Recorded(r)' = Recorded(r))
      /\ job[p].at = "model" /\ p \in Worker /\ job[p].s \in Submission
  BY InvFacts, RunOnMoves, StoresKept DEF Course, ForWorkers, OnRun, InRunOf
<1>a. PICK s \in Submission : s = job[p].s
  BY <1>0
<1>1. PICK at \in Ways(job[p].knows) : Moves(p, at, job[p].knows, "completed")
  BY <1>0, RunOnMoves
<1>2. /\ at = "reserve" => "final" \in job[p].knows
      /\ at # "reserve" => "final" \notin job[p].knows
      /\ at = "prepare" => "response" \in job[p].knows
      /\ at = "execute" => "prepared" \in job[p].knows
      /\ at = "complete" => "response" \notin job[p].knows \/ "closed" \in job[p].knows
      /\ at \in {"reserve", "respond", "complete", "prepare", "execute"}
  BY DEF Ways
<1>3. job'[p].s = s /\ Recorded(s)' = Recorded(s) /\ sub' = sub /\ fence' = fence
  BY <1>0, <1>a, <1>1 DEF Moves
<1>4. Knows(p) /\ Accurate(p) /\ Placed(p) /\ Unsettled(p)
  BY <1>0 DEF Local
<1>5. Knows(p)' /\ Accurate(p)'
  BY <1>0, <1>a, <1>1, <1>2, <1>3, <1>4 DEF Knows, Accurate, Live, OnRun, InRunOf, Attempting,
     Closing, Forgetful,
     Moves
<1>6. Placed(p)'
  BY <1>0, <1>1, <1>2, <1>4 DEF Placed, Where, OnRun, InRunOf, Attempting, Closing, Forgetful, Moves
<1>7. Verdict(p)'
  BY <1>0, <1>a, <1>1, <1>2, <1>3, <1>4 DEF Verdict, Knows, Planning, OnRun, InRunOf, Closing,
     Forgetful, Moves
<1>8. Unsettled(p)'
  BY <1>0, <1>a, <1>1, <1>2, <1>3, <1>4 DEF Unsettled, Live, Advancing, OnRun, InRunOf, Attempting,
     Closing, Moves
<1>. QED
  BY <1>5, <1>6, <1>7, <1>8 DEF Local

LEMMA RunFailsLocal == ASSUME Inv, NEW p \in Process, RunFails(p) PROVE Local(p)'
<1>1. job'[p].at = "reserve" /\ job'[p].outcome = "failed"
  BY RunFailsMoves, InvFacts DEF Moves, Closing
<1>. QED
  BY <1>1 DEF Local, Knows, Accurate, Placed, Verdict, Unsettled, Where, Live, Course, WithClaim,
     OnRun, InRunOf, Attempting, Advancing, Planning, RunKinds, Closing, Forgetful, Moves

LEMMA HaltLocal == ASSUME Inv, NEW p \in Process, Halt(p) PROVE Local(p)'
<1>1. job'[p].at = "reserve" /\ job'[p].outcome = "aborted"
  BY HaltMoves, InvFacts DEF Moves, Closing
<1>. QED
  BY <1>1 DEF Local, Knows, Accurate, Placed, Verdict, Unsettled, Where, Live, Course, WithClaim,
     OnRun, InRunOf, Attempting, Advancing, Planning, RunKinds, Closing, Forgetful, Moves

LEMMA ExecuteLocal == ASSUME Inv, NEW p \in Process, Execute(p) PROVE Local(p)'
<1>0. Base /\ Local(p) /\ Course(p) /\ fence' = fence /\ sub' = sub
      /\ (\A r : Recorded(r)' = Recorded(r))
      /\ job[p].at = "execute" /\ Moves(p, "close", job[p].knows, job[p].outcome)
  BY InvFacts, ExecuteMoves, StoresKept
<1>. QED
  BY <1>0 DEF Local, Knows, Accurate, Placed, Verdict, Unsettled, Where, Live, Course, WithClaim,
     OnRun, InRunOf, Attempting, Advancing, Planning, RunKinds, Closing, Forgetful, Moves

LEMMA WatchLocal == ASSUME Inv, NEW p \in Process, Watch(p) PROVE Local(p)'
<1>0. Base /\ Local(p) /\ Course(p) /\ fence' = fence /\ sub' = sub
      /\ (\A r : Recorded(r)' = Recorded(r))
      /\ job[p].at \in InRunOf /\ Moves(p, "halt", job[p].knows, job[p].outcome)
         /\ job'[p].plan = job[p].at
  BY InvFacts, WatchMoves, StoresKept DEF InRun, InRunOf
<1>. QED
  BY <1>0 DEF Local, Knows, Accurate, Placed, Verdict, Unsettled, Where, Live, Course, WithClaim,
     OnRun, InRunOf, Attempting, Advancing, Planning, RunKinds, Closing, Forgetful, Moves

LEMMA RenewLocal == ASSUME Inv, NEW p \in Process, Renew(p) PROVE Local(p)'
<1>0. Base /\ Local(p) /\ Course(p) /\ LedgerInv /\ job[p].s \in Submission
      /\ job[p].token \in 0..minted
      /\ fence' = fence /\ (\A r : Recorded(r)' = Recorded(r)) /\ job[p].at \in InRunOf
  BY InvFacts, BaseTypes, RenewMoves, StoresKept DEF InRun, InRunOf
<1>1. CASE Goes(p, "release")
  BY <1>1, QuietLocal DEF Goes, Moves
<1>2. CASE L!RenewOwnership(job[p].s, job[p].token) /\ Goes(p, job[p].at)
  <2>1. sub'[job[p].s].reserved = sub[job[p].s].reserved
    BY <1>0, <1>2, RenewEffect DEF SameRow
  <2>. QED
    BY <1>0, <1>2, <2>1 DEF Goes, Keeps, Local, Knows, Accurate, Placed, Verdict, Unsettled, Where,
       Live, Course, WithClaim, OnRun, InRunOf, Attempting, Advancing, Planning, RunKinds, Closing,
       Forgetful, Moves
<1>. QED
  BY <1>0, <1>1, <1>2, RenewMoves

LEMMA RecordAbortLocal == ASSUME Inv, NEW p \in Process, RecordAbort(p) PROVE Local(p)'
<1>1. CASE Goes(p, "audit")
  BY <1>1, QuietLocal DEF Goes, Moves
<1>2. CASE AppendOutcome(p, "abort", "-", TRUE, "audit")
  <2>1. CASE UNCHANGED canon /\ Stays(p)
    BY <1>2, <2>1, StaysLocal, InvFacts DEF AppendOutcome, ledger
  <2>. QED
    BY <1>2, <2>1, QuietLocal DEF AppendOutcome, Written, Goes, Moves
<1>. QED
  BY <1>1, <1>2, RecordAbortMoves, InvFacts

LEMMA AuditLocal == ASSUME Inv, NEW p \in Process, AuditOpenCalls(p) PROVE Local(p)'
<1>0. job[p].at = "audit" /\ job[p].outcome = "aborted"
  BY AuditMoves, InvFacts DEF Course
<1>1. ASSUME Moves(p, "reserve", job[p].knows, job[p].outcome) \/ Written(p, "unknown",
             "reserve") PROVE Local(p)'
  <2>1. job'[p].at = "reserve" /\ job'[p].outcome = "aborted"
    BY <1>0, <1>1 DEF Moves, Written, Closing
  <2>. QED
    BY <2>1 DEF Local, Knows, Accurate, Placed, Verdict, Unsettled, Where, Live, Course, WithClaim,
       OnRun, InRunOf, Attempting, Advancing, Planning, RunKinds, Closing, Forgetful, Moves
<1>2. CASE AppendOutcome(p, "unknown", "-", TRUE, "reserve")
  <2>1. CASE UNCHANGED canon /\ Stays(p)
    BY <1>2, <2>1, StaysLocal, InvFacts DEF AppendOutcome, ledger
  <2>2. CASE Goes(p, "release")
    BY <2>2, QuietLocal DEF Goes, Moves
  <2>. QED
    BY <1>1, <1>2, <2>1, <2>2 DEF AppendOutcome
<1>. QED
  BY <1>1, <1>2, AuditMoves, InvFacts DEF Goes

LEMMA ReserveLocal == ASSUME Inv, NEW p \in Process, Reserve(p) PROVE Local(p)'
<1>0. Base /\ Course(p) /\ LedgerInv /\ job[p].s \in Submission /\ job[p].token \in 0..minted
      /\ job[p].at = "reserve" /\ job[p].outcome \in Outcome
  BY InvFacts, BaseTypes, ReserveMoves DEF Course
<1>1. CASE Goes(p, "release")
  BY <1>1, QuietLocal DEF Goes, Moves
<1>2. CASE /\ L!ReserveSettlement(job[p].s, job[p].token, job[p].outcome, None)
           /\ Goes(p, "record")
  <2>1. sub'[job[p].s].reserved # None /\ sub'[job[p].s].reserved.outcome = job[p].outcome
    BY <1>0, <1>2, ReservedEffect
  <2>2. job'[p].at = "record" /\ job'[p].outcome = job[p].outcome /\ job'[p].s = job[p].s
    BY <1>2 DEF Goes, Moves, Closing
  <2>. QED
    BY <2>1, <2>2 DEF Local, Knows, Accurate, Placed, Verdict, Unsettled, Where, Live, Course,
       WithClaim, OnRun, InRunOf, Attempting, Advancing, Planning, RunKinds, Closing, Forgetful,
       Moves
<1>. QED
  BY <1>0, <1>1, <1>2, ReserveMoves

LEMMA InspectLocal == ASSUME Inv, NEW p \in Process, Inspect(p) PROVE Local(p)'
<1>0. Base /\ Local(p) /\ LedgerInv /\ job[p].s \in Submission /\ RowHistory(job[p].s)
      /\ sub' = sub /\ (\A r : Recorded(r)' = Recorded(r)) /\ job[p].at = "inspect"
  BY InvFacts, BaseTypes, InspectMoves, StoresKept
<1>1. PICK s \in Submission : s = job[p].s
  BY <1>0
<1>. DEFINE row == SnapshotOf(s)
            plan == Repair(row, job[p].knows)
            at == IF plan \in {"wake", "finalize"} THEN plan ELSE "seek"
<1>2. row.reserved = IF sub[s].reserved = None THEN None ELSE sub[s].reserved.outcome
  BY <1>0, SnapshotType
<1>3. /\ plan = "record" => row.reserved # None /\ OutcomeOf(row) = row.reserved
      /\ plan = "finalize" => "settled" \in job[p].knows
      /\ at \in {"wake", "finalize", "seek"} /\ (at = "finalize" => plan = "finalize")
  BY RepairTargets, Targets DEF PlanOf, OutcomeOf
<1>4. job[p].knows \subseteq Recorded(s)
  BY <1>0, <1>1 DEF Local, Knows
<1>5. "settled" \in Recorded(s) => sub[s].reserved # None
  BY <1>0, <1>1, Places DEF RowHistory, Kind
<1>6. \/ Rests(p)
      \/ Moves(p, at, job[p].knows, OutcomeOf(row)) /\ job'[p].plan = plan
  BY <1>0, <1>1, InspectMoves
<1>. DEFINE out == OutcomeOf(row)
<1>. HIDE DEF row, plan, at, out
<1>7. CASE Rests(p)
  BY <1>7, QuietLocal DEF Rests
<1>8. CASE Moves(p, at, job[p].knows, out) /\ job'[p].plan = plan
  <2>1. job'[p].s = s /\ Recorded(s)' = Recorded(s) /\ job'[p].at = at
        /\ (at = "seek" => job'[p].knows = job[p].knows /\ job'[p].outcome = out
           /\ job'[p].plan = plan)
    BY <1>0, <1>1, <1>8 DEF Moves, Closing, Forgetful
  <2>2. at = "seek" => plan # "record" \/ (sub[s].reserved # None /\ sub[s].reserved.outcome = out)
    BY <1>2, <1>3 DEF out
  <2>3. at = "finalize" => sub[s].reserved # None
    BY <1>3, <1>4, <1>5
  <2>. QED
    BY <1>0, <1>3, <1>4, <2>1, <2>2, <2>3 DEF Local, Knows, Accurate, Placed, Verdict, Unsettled,
       Where, Live, Course, WithClaim, OnRun, InRunOf, Attempting, Advancing, Planning, RunKinds,
       Closing, Forgetful, Moves
<1>. QED
  BY <1>6, <1>7, <1>8 DEF out

LEMMA SeekLocal == ASSUME Inv, NEW p \in Process, Seek(p) PROVE Local(p)'
<1>0. Base /\ Local(p) /\ sub' = sub /\ (\A r : Recorded(r)' = Recorded(r)) /\ job[p].at = "seek"
  BY InvFacts, SeekMoves, StoresKept
<1>1. CASE Rests(p)
  BY <1>1, QuietLocal DEF Rests
<1>2. CASE Goes(p, "acquire")
  BY <1>0, <1>2 DEF Goes, Keeps, Local, Knows, Accurate, Placed, Verdict, Unsettled, Where, Live,
     Course, WithClaim, OnRun, InRunOf, Attempting, Advancing, Planning, RunKinds, Closing,
     Forgetful, Moves
<1>3. CASE Moves(p, "attend", job[p].knows, job[p].outcome) /\ job'[p].plan = job[p].plan
  BY <1>0, <1>3 DEF Local, Knows, Accurate, Placed, Verdict, Unsettled, Where, Live, Course,
     WithClaim, OnRun, InRunOf, Attempting, Advancing, Planning, RunKinds, Closing, Forgetful, Moves
<1>. QED
  BY <1>0, <1>1, <1>2, <1>3, SeekMoves

LEMMA AcquireLocal == ASSUME Inv, NEW p \in Process, Acquire(p) PROVE Local(p)'
<1>0. Base /\ Local(p) /\ LedgerInv /\ (\A r : Recorded(r)' = Recorded(r)) /\ job[p].at = "acquire"
  BY InvFacts, BaseTypes, AcquireMoves, StoresKept
<1>1. CASE Rests(p)
  BY <1>1, QuietLocal DEF Rests
<1>2. CASE UNCHANGED ledger /\ Moves(p, "attend", job[p].knows, job[p].outcome)
           /\ job'[p].plan = job[p].plan
  BY <1>0, <1>2 DEF ledger, Local, Knows, Accurate, Placed, Verdict, Unsettled, Where, Live,
     Course, WithClaim, OnRun, InRunOf, Attempting, Advancing, Planning, RunKinds, Closing,
     Forgetful, Moves
<1>3. ASSUME NEW h \in Submission,
             /\ L!Claim(h) /\ Apart(p) /\ job'[p].s = h
             /\ job'[p].at = IF h = job[p].s THEN "claimed" ELSE "release"
             /\ job'[p].knows = job[p].knows /\ job'[p].outcome = job[p].outcome /\ Keeps(p)
      PROVE  Local(p)'
  <2>1. CASE h # job[p].s
    BY <1>3, <2>1, QuietLocal
  <2>2. CASE h = job[p].s
    <3>1. sub'[h].reserved = sub[h].reserved
      BY <1>0, <1>3, ClaimEffect
    <3>. QED
      BY <1>0, <1>3, <2>2, <3>1 DEF Keeps, Local, Knows, Accurate, Placed, Verdict, Unsettled,
         Where, Live, Course, WithClaim, OnRun, InRunOf, Attempting, Advancing, Planning, RunKinds,
         Closing, Forgetful, Moves
  <2>. QED
    BY <2>1, <2>2
<1>. QED
  BY <1>0, <1>1, <1>2, <1>3, AcquireMoves

LEMMA ReadTailLocal == ASSUME Inv, NEW p \in Process, ReadTail(p) PROVE Local(p)'
<1>0. Base /\ Local(p) /\ Course(p) /\ sub' = sub /\ (\A r : Recorded(r)' = Recorded(r))
      /\ job[p].at = "tail"
      /\ ~(p \in Worker /\ p \in Recoverer)
  BY InvFacts, ReadTailMoves, StoresKept
<1>. DEFINE again == job[p].plan \in {"input", "marker"}
            kinds == IF again THEN Recorded(job[p].s) ELSE job[p].knows
<1>1. PICK at \in Position :
        /\ Moves(p, at, kinds, job[p].outcome)
        /\ ~again => at = job[p].plan
        /\ again => \/ at = "input"
                    \/ at = "marker" /\ "input" \in kinds
                    \/ at = "release"
  BY <1>0, ReadTailMoves
<1>2. p \in Recoverer /\ job[p].plan \in Plans
  BY <1>0 DEF Course, ForRecovery, Planning
<1>3. kinds \subseteq Recorded(job[p].s)
  BY <1>0 DEF Local, Knows
<1>4. at \in {"input", "marker", "release", "record", "abort", "reconcile"}
      /\ (at = "marker" => "input" \in kinds) /\ (at = "record" => job[p].plan = "record")
  BY <1>1, <1>2 DEF Plans
<1>. HIDE DEF again, kinds
<1>. QED
  BY <1>0, <1>1, <1>2, <1>3, <1>4 DEF Local, Knows, Accurate, Placed, Verdict, Unsettled, Where,
     Live, Course, WithClaim, OnRun, InRunOf, Attempting, Advancing, Planning, RunKinds, Closing,
     Forgetful, Moves

LEMMA AttendLocal == ASSUME Inv, NEW p \in Process, Attend(p) PROVE Local(p)'
<1>0. Base /\ Local(p) /\ Course(p) /\ sub' = sub /\ job[p].at = "attend"
  BY InvFacts, AttendMoves, StoresKept
<1>1. job'[p].at = job[p].plan /\ job'[p].s = job[p].s /\ job'[p].outcome = job[p].outcome
      /\ job'[p].plan = job[p].plan
  BY <1>0, AttendMoves
<1>2. job[p].plan \in {"abort", "record"}
  BY <1>0 DEF Course
<1>. QED
  BY <1>0, <1>1, <1>2 DEF Local, Knows, Accurate, Placed, Verdict, Unsettled, Where, Live, Course,
     WithClaim, OnRun, InRunOf, Attempting, Advancing, Planning, RunKinds, Closing, Forgetful, Moves

-----------------------------------------------------------------------------
(***************************************************************************)
(* What a step leaves in the stores.  Each record has the positions it is   *)
(* written from; each change of a row has the position it is made at.       *)
(***************************************************************************)
Sites ==
  {<<"input", "input">>, <<"respond", "response">>, <<"prepare", "prepared">>, <<"close",
  "closed">>,
   <<"answer", "closed">>, <<"unknown", "unknown">>, <<"audit", "unknown">>, <<"complete",
   "final">>,
   <<"halt", "abort">>, <<"abort", "abort">>, <<"record", "settled">>}
Writes(p) ==
  \/ log' = log
  \/ \E k \in Kind, s \in Submission, b \in Saying :
       /\ s = job[p].s /\ Lands(k, s, job[p].epoch, b) /\ sub' = sub
       /\ <<job[p].at, k>> \in Sites
       /\ k = "settled" => b = job[p].outcome

Same(r) ==
  /\ sub'[r].applied = sub[r].applied /\ sub'[r].reserved = sub[r].reserved
  /\ sub'[r].outcome = sub[r].outcome
  /\ sub'[r].state \in {"unknown", "settled"} => sub'[r].state = sub[r].state
Marked(p, r) ==
  /\ job[p].at = "marker" /\ sub'[r].applied /\ sub'[r].reserved = sub[r].reserved
  /\ sub'[r].outcome = sub[r].outcome
  /\ sub'[r].state \in {"unknown", "settled"} => sub'[r].state = sub[r].state
Parked(p, r) ==
  /\ job[p].at = "park" /\ sub'[r].applied = sub[r].applied /\ sub'[r].reserved = sub[r].reserved
  /\ sub'[r].state = "unknown" /\ sub'[r].outcome = sub[r].outcome
Reserved(p, r) ==
  /\ job[p].at = "reserve" /\ sub'[r].applied = sub[r].applied
  /\ sub[r].reserved = None /\ sub'[r].reserved # None /\ sub'[r].reserved.outcome = job[p].outcome
  /\ sub'[r].state = "terminalizing" /\ sub'[r].outcome = sub[r].outcome
  /\ L!OwnsLane(r, job[p].token) \/ sub[r].state = "ready"
Finalized(p, r) ==
  /\ job[p].at = "finalize" /\ sub'[r].applied = sub[r].applied
  /\ sub[r].reserved # None /\ sub'[r].reserved = sub[r].reserved
  /\ sub[r].state # "settled" /\ sub'[r].state = "settled"
  /\ sub'[r].outcome = sub[r].reserved.outcome
Touches(p) ==
  \A r \in Submission :
    \/ Same(r)
    \/ r = job[p].s /\ (Marked(p, r) \/ Parked(p, r) \/ Reserved(p, r) \/ Finalized(p, r))
Prints(p) == Writes(p) /\ Touches(p)

LEMMA Untouched ==
  /\ \A r : sub'[r] = sub[r] => Same(r)
  /\ \A r : SameRow(r) => Same(r)
  /\ UNCHANGED ledger => \A r : Same(r)
  BY DEF Same, SameRow, ledger

LEMMA Wrote ==
  ASSUME Base, NEW p \in Process, NEW k \in Kind, NEW b \in Saying, NEW tolerant, NEW then,
         AppendOutcome(p, k, b, tolerant, then), <<job[p].at, k>> \in Sites,
         k = "settled" => b = job[p].outcome
  PROVE  Prints(p)
<1>1. Touches(p) /\ sub' = sub
  BY Untouched DEF AppendOutcome, Touches, ledger
<1>2. Writes(p)
  <2>1. CASE \E s \in Submission : s = job[p].s /\ Lands(k, s, job[p].epoch, b)
    BY <1>1, <2>1 DEF Writes
  <2>2. CASE UNCHANGED canon
    BY <2>2 DEF Writes, canon
  <2>. QED
    BY <2>1, <2>2 DEF AppendOutcome
<1>. QED
  BY <1>1, <1>2 DEF Prints

LEMMA ProcessPrints ==
  ASSUME Base, NEW p \in Process,
         \/ Step(p) \/ Watch(p) \/ Halt(p) \/ Renew(p) \/ Crash(p) \/ Fail(p)
         \/ \E s \in Submission : Claim(p, s) \/ Sweep(p, s)
  PROVE  Prints(p)
<1>a. \A k : k \in {"input", "response", "prepared", "closed", "unknown", "final", "abort",
      "settled"} => k \in Kind
  BY DEF Kind
<1>b. "-" \in Saying /\ (job[p].at = "record" => job[p].outcome \in Saying)
  BY CourseOf DEF Saying, Course
<1>c. log' = log /\ UNCHANGED ledger => Prints(p)
  BY Untouched DEF Prints, Writes, Touches
<1>d. Calm => Prints(p)
  BY <1>c DEF Calm, canon
<1>e. UNCHANGED canon => Writes(p)
  BY DEF canon, Writes
<1>f. LedgerInv /\ job[p].s \in Submission /\ job[p].token \in 0..minted
  BY BaseTypes
<1>1. CASE ApplyInput(p)
  BY <1>a, <1>b, <1>1, ApplyInputMoves, Wrote DEF Sites
<1>2. CASE AppendClosedCall(p)
  BY <1>a, <1>b, <1>2, AppendClosedCallMoves, Wrote DEF Sites
<1>3. CASE AppendUnknown(p)
  BY <1>a, <1>b, <1>3, AppendUnknownMoves, Wrote DEF Sites
<1>4. CASE CommitResponse(p)
  BY <1>a, <1>b, <1>4, CommitResponseMoves, Wrote DEF Sites
<1>5. CASE PrepareCall(p)
  BY <1>a, <1>b, <1>5, PrepareCallMoves, Wrote DEF Sites
<1>6. CASE CommitResults(p)
  BY <1>a, <1>b, <1>6, CommitResultsMoves, Wrote DEF Sites
<1>7. CASE CompleteRun(p)
  BY <1>a, <1>b, <1>7, CompleteRunMoves, Wrote DEF Sites
<1>8. CASE RecordHalt(p)
  BY <1>a, <1>b, <1>8, RecordHaltMoves, Wrote DEF Sites
<1>9. CASE RecordSettlement(p)
  BY <1>a, <1>b, <1>9, RecordSettlementMoves, Wrote DEF Sites
<1>10. CASE RecordAbort(p)
  BY <1>a, <1>b, <1>d, <1>10, RecordAbortMoves, Wrote DEF Sites
<1>11. CASE AuditOpenCalls(p)
  BY <1>a, <1>b, <1>d, <1>11, AuditMoves, Wrote DEF Sites
<1>12. CASE Load(p)
  BY <1>c, <1>d, <1>12, LoadMoves DEF canon
<1>13. CASE Read(p)
  BY <1>c, <1>d, <1>13, ReadMoves DEF canon
<1>14. CASE Reconcile(p)
  BY <1>c, <1>d, <1>14, ReconcileMoves DEF canon
<1>15. CASE RunOn(p)
  BY <1>c, <1>d, <1>15, RunOnMoves DEF canon
<1>16. CASE RunFails(p)
  BY <1>c, <1>d, <1>16, RunFailsMoves DEF canon
<1>17. CASE Execute(p)
  BY <1>c, <1>d, <1>17, ExecuteMoves DEF canon, ledger
<1>18. CASE Watch(p)
  BY <1>c, <1>d, <1>18, WatchMoves DEF canon
<1>19. CASE Halt(p)
  BY <1>c, <1>d, <1>19, HaltMoves DEF canon
<1>20. CASE Inspect(p)
  BY <1>c, <1>d, <1>20, InspectMoves DEF canon
<1>21. CASE Seek(p)
  BY <1>c, <1>d, <1>21, SeekMoves DEF canon
<1>22. CASE ReadTail(p)
  BY <1>c, <1>d, <1>22, ReadTailMoves DEF canon
<1>23. CASE Attend(p)
  BY <1>c, <1>d, <1>23, AttendMoves DEF canon
<1>24. CASE Attach(p)
  BY <1>c, <1>d, <1>24, AttachMoves DEF canon
<1>25. CASE MarkInput(p)
  <2>1. UNCHANGED canon /\ job[p].at = "marker"
        /\ (L!MarkInputApplied(job[p].s, job[p].token) \/ UNCHANGED ledger)
    BY <1>25, MarkMoves
  <2>2. CASE UNCHANGED ledger
    BY <1>c, <2>1, <2>2 DEF canon
  <2>3. CASE L!MarkInputApplied(job[p].s, job[p].token)
    <3>1. Touches(p)
      BY <1>f, <2>1, <2>3, MarkEffect, Untouched DEF Touches, Same, Marked
    <3>. QED
      BY <1>e, <2>1, <3>1 DEF Prints
  <2>. QED
    BY <2>1, <2>2, <2>3
<1>26. CASE Park(p)
  <2>1. UNCHANGED canon /\ job[p].at = "park"
        /\ (L!MarkUnknown(job[p].s, {Call}) \/ UNCHANGED ledger)
    BY <1>26, ParkMoves
  <2>2. CASE UNCHANGED ledger
    BY <1>c, <2>1, <2>2 DEF canon
  <2>3. CASE L!MarkUnknown(job[p].s, {Call})
    <3>1. Touches(p)
      BY <1>f, <2>1, <2>3, ParkEffect, Untouched DEF Touches, Parked
    <3>. QED
      BY <1>e, <2>1, <3>1 DEF Prints
  <2>. QED
    BY <2>1, <2>2, <2>3
<1>27. CASE Renew(p)
  <2>1. UNCHANGED canon /\ InRun(p)
        /\ (L!RenewOwnership(job[p].s, job[p].token) \/ UNCHANGED ledger)
    BY <1>27, RenewMoves
  <2>2. CASE UNCHANGED ledger
    BY <1>c, <2>1, <2>2 DEF canon
  <2>3. CASE L!RenewOwnership(job[p].s, job[p].token)
    <3>1. Touches(p)
      BY <1>f, <2>1, <2>3, RenewEffect, Untouched DEF Touches
    <3>. QED
      BY <1>e, <2>1, <3>1 DEF Prints
  <2>. QED
    BY <2>1, <2>2, <2>3
<1>28. CASE Reserve(p)
  <2>1. UNCHANGED canon /\ job[p].at = "reserve"
        /\ (L!ReserveSettlement(job[p].s, job[p].token, job[p].outcome, None) \/ UNCHANGED ledger)
    BY <1>28, ReserveMoves
  <2>0. job[p].outcome \in Outcome
    BY <1>28, ReserveMoves, CourseOf DEF Course
  <2>2. CASE UNCHANGED ledger
    BY <1>c, <2>1, <2>2 DEF canon
  <2>3. CASE L!ReserveSettlement(job[p].s, job[p].token, job[p].outcome, None)
    <3>1. Touches(p)
      BY <1>f, <2>1, <2>0, <2>3, ReservedEffect, Untouched DEF Touches, Reserved
    <3>. QED
      BY <1>e, <2>1, <3>1 DEF Prints
  <2>. QED
    BY <2>1, <2>2, <2>3
<1>29. CASE Finalize(p)
  <2>1. UNCHANGED canon /\ job[p].at = "finalize"
        /\ (L!FinalizeSettlement(job[p].s) \/ UNCHANGED ledger)
    BY <1>29, FinalizeMoves
  <2>2. CASE UNCHANGED ledger
    BY <1>c, <2>1, <2>2 DEF canon
  <2>3. CASE L!FinalizeSettlement(job[p].s)
    <3>1. Touches(p)
      BY <1>f, <2>1, <2>3, FinalizedEffect, Untouched DEF Touches, Finalized
    <3>. QED
      BY <1>e, <2>1, <3>1 DEF Prints
  <2>. QED
    BY <2>1, <2>2, <2>3
<1>30. CASE Release(p)
  <2>1. UNCHANGED canon /\ job[p].at = "release"
        /\ (L!ReleaseOwnership(job[p].s, job[p].token) \/ UNCHANGED ledger)
    BY <1>30, ReleaseMoves
  <2>2. CASE UNCHANGED ledger
    BY <1>c, <2>1, <2>2 DEF canon
  <2>3. CASE L!ReleaseOwnership(job[p].s, job[p].token)
    <3>1. Touches(p)
      BY <1>f, <2>1, <2>3, ReleaseEffect, Untouched DEF Touches, Same
    <3>. QED
      BY <1>e, <2>1, <3>1 DEF Prints
  <2>. QED
    BY <2>1, <2>2, <2>3
<1>31. CASE Wake(p)
  <2>1. UNCHANGED canon /\ job[p].at = "wake"
        /\ (L!RecordUnknownResolution(job[p].s, Call) \/ UNCHANGED ledger)
    BY <1>31, WakeMoves
  <2>2. CASE UNCHANGED ledger
    BY <1>c, <2>1, <2>2 DEF canon
  <2>3. CASE L!RecordUnknownResolution(job[p].s, Call)
    <3>1. Touches(p)
      BY <1>f, <2>1, <2>3, ResolveEffect, Untouched DEF Touches, Same
    <3>. QED
      BY <1>e, <2>1, <3>1 DEF Prints
  <2>. QED
    BY <2>1, <2>2, <2>3
<1>32. ASSUME NEW s \in Submission, L!Claim(s) PROVE Touches(p)
  BY <1>f, <1>32, ClaimEffect, Untouched DEF Touches, Same
<1>33. CASE Acquire(p)
  BY <1>c, <1>d, <1>e, <1>32, <1>33, AcquireMoves DEF Prints, canon
<1>34. ASSUME NEW s \in Submission, Claim(p, s) PROVE Prints(p)
  BY <1>e, <1>32, <1>34, ClaimMoves DEF Prints
<1>35. ASSUME NEW s \in Submission, Sweep(p, s) PROVE Prints(p)
  BY <1>c, <1>35, SweepMoves DEF canon, ledger
<1>36. CASE Crash(p) \/ Fail(p)
  BY <1>c, <1>36, FaultMoves DEF canon, ledger
<1>. QED
  BY <1>1, <1>2, <1>3, <1>4, <1>5, <1>6, <1>7, <1>8, <1>9, <1>10, <1>11, <1>12, <1>13, <1>14,
     <1>15, <1>16, <1>17, <1>18, <1>19, <1>20, <1>21, <1>22, <1>23, <1>24, <1>25, <1>26, <1>27,
     <1>28, <1>29, <1>30, <1>31, <1>33, <1>34, <1>35, <1>36 DEF Step

-----------------------------------------------------------------------------
(***************************************************************************)
(* What one process leaves in the stores does not disturb another, and the  *)
(* rows stay in line with history.                                          *)
(***************************************************************************)
\* What is new in the history of r was written by the process that stepped.
LEMMA NewlyWritten ==
  ASSUME NEW p \in Process, Writes(p), NEW r \in Submission, NEW k \in Kind,
         k \in Recorded(r)', k \notin Recorded(r)
  PROVE  r = job[p].s /\ <<job[p].at, k>> \in Sites /\ job[p].epoch = fence[Lane]
<1>1. CASE log' = log
  BY <1>1, LogKept
<1>2. ASSUME NEW l \in Kind, NEW s \in Submission, NEW b \in Saying,
             s = job[p].s, Lands(l, s, job[p].epoch, b), <<job[p].at, l>> \in Sites
      PROVE  r = job[p].s /\ <<job[p].at, k>> \in Sites /\ job[p].epoch = fence[Lane]
  <2>1. r = s
    BY <1>2 DEF Lands
  <2>2. k = l
    BY <1>2, <2>1 DEF Lands
  <2>. QED
    BY <1>2, <2>1, <2>2 DEF Lands
<1>. QED
  BY <1>1, <1>2 DEF Writes

\* A record of the Run itself is written by the live claim.
LEMMA RunWritten ==
  ASSUME Inv, NEW p \in Process, Writes(p), NEW r \in Submission, NEW k \in RunKinds,
         k \in Recorded(r)', k \notin Recorded(r)
  PROVE  r = job[p].s /\ <<job[p].at, k>> \in Sites /\ Live(p)
         /\ job[p].at \notin Closing \cup {"claimed"}
<1>1. k \in Kind
  BY DEF RunKinds, Kind
<1>2. r = job[p].s /\ <<job[p].at, k>> \in Sites /\ job[p].epoch = fence[Lane]
  BY <1>1, NewlyWritten
<1>3. job[p].at \in {"respond", "prepare", "close", "answer", "complete"}
  BY <1>2 DEF Sites, RunKinds
<1>4. job[p].token # 0
  BY <1>3, InvFacts DEF Course, WithClaim, OnRun, InRunOf, Attempting
<1>. QED
  BY <1>2, <1>3, <1>4 DEF Live, Closing

\* A row is reserved by the live claim, or before there was any.
LEMMA ReservedBy ==
  ASSUME Inv, Forward, NEW p \in Process, Touches(p), NEW r \in Submission,
         sub[r].reserved = None, sub'[r].reserved # None
  PROVE  /\ r = job[p].s /\ Reserved(p, r)
         /\ (Live(p) /\ job[p].at \notin Closing \cup {"claimed"}) \/ sub[r].state = "ready"
<1>1. r = job[p].s /\ Reserved(p, r)
  BY DEF Touches, Same, Marked, Parked, Finalized
<1>2. job[p].at = "reserve"
  BY <1>1 DEF Reserved
<1>3. CASE L!OwnsLane(r, job[p].token)
  <2>1. LedgerInv /\ Base /\ ClaimInv /\ Claims(p)
    BY InvFacts, BaseTypes
  <2>2. adm[r].thread = Lane
    BY <2>1, RowTypes
  <2>3. sub[r].token # 0 /\ sub[r].token = job[p].token /\ sub[r].epoch = epoch[Lane]
    BY <1>3, <2>2 DEF L!OwnsLane, L!Owned
  <2>4. job[p].epoch # 0 /\ sub[r].epoch = job[p].epoch /\ job[p].epoch <= fence[Lane]
    BY <1>2, <2>1, <2>3 DEF Claims, Closing
  <2>5. job[p].epoch = fence[Lane]
    BY <2>1, <2>3, <2>4, Numbers DEF ClaimInv
  <2>. QED
    BY <1>1, <1>2, <2>3, <2>5 DEF Live, Closing
<1>. QED
  BY <1>1, <1>3 DEF Reserved

Undisturbed(q) ==
  Live(q) /\ job[q].at \notin Closing \cup {"claimed"} =>
    /\ \A r \in Submission : Recorded(r)' \cap RunKinds \subseteq Recorded(r)
    /\ sub[job[q].s].reserved = None => sub'[job[q].s].reserved = None

LEMMA Undisturbs ==
  ASSUME Inv, Forward, NEW p \in Process, Prints(p), NEW q \in Process, q # p
  PROVE  Undisturbed(q)
<1>. SUFFICES ASSUME Live(q), job[q].at \notin Closing \cup {"claimed"}
              PROVE  /\ \A r \in Submission : Recorded(r)' \cap RunKinds \subseteq Recorded(r)
                     /\ sub[job[q].s].reserved = None => sub'[job[q].s].reserved = None
  BY DEF Undisturbed
<1>1. Distinct(q, p) /\ Claims(q) /\ job[q].s \in Submission
  BY InvFacts DEF ClaimInv
<1>2. job[q].token # 0 /\ job[q].epoch # 0 /\ sub[job[q].s].state # "ready"
  BY <1>1 DEF Live, Claims
<1>3. ~Live(p)
  BY <1>1, <1>2 DEF Live, Distinct
<1>4. \A r \in Submission : Recorded(r)' \cap RunKinds \subseteq Recorded(r)
  BY <1>3, RunWritten DEF Prints
<1>5. sub[job[q].s].reserved = None => sub'[job[q].s].reserved = None
  BY <1>1, <1>2, <1>3, ReservedBy DEF Prints
<1>. QED
  BY <1>4, <1>5

LEMMA OthersLocal ==
  ASSUME Inv, Forward, NEW q \in Process, job'[q] = job[q], Undisturbed(q)
  PROVE  Local(q)'
<1>0. Local(q) /\ Base /\ ClaimInv /\ Claims(q) /\ Course(q)
  BY InvFacts
<1>1. PICK s \in Submission : s = job[q].s
  BY InvFacts
<1>2. Recorded(s) \subseteq Recorded(s)' /\ RowForward(s) /\ job'[q].s = s
  BY <1>1 DEF Forward, LogForward, LedgerForward
<1>3. job[q].at \notin Closing \cup {"claimed"} /\ Live(q)' => Live(q)
  BY <1>0, Numbers DEF Live, Claims
<1>4. Knows(q)'
  BY <1>0, <1>1, <1>2 DEF Local, Knows
<1>5. Accurate(q)'
  BY <1>0, <1>1, <1>2, <1>3 DEF Local, Accurate, Undisturbed, OnRun, InRunOf, Attempting, Closing
<1>6. Placed(q)'
  BY <1>0 DEF Local, Placed, Where
<1>7. Verdict(q)'
  BY <1>0, <1>1, <1>2 DEF Local, Verdict, RowForward
<1>8. Unsettled(q)'
  BY <1>0, <1>1, <1>2, <1>3 DEF Local, Unsettled, Undisturbed, Advancing, OnRun, InRunOf,
     Attempting, Closing
<1>. QED
  BY <1>4, <1>5, <1>6, <1>7, <1>8 DEF Local

-----------------------------------------------------------------------------
\* What may be added to the rows and to history, as far as one tells of the
\* other.
Honest(r) ==
  /\ sub'[r].applied /\ ~sub[r].applied => "input" \in Recorded(r)
  /\ sub'[r].state = "unknown" /\ sub[r].state # "unknown" => "input" \in Recorded(r)
  /\ sub'[r].reserved # None /\ sub[r].reserved = None /\ sub'[r].reserved.outcome = "completed" =>
       "final" \in Recorded(r)
  /\ "prepared" \in Recorded(r)' /\ "prepared" \notin Recorded(r) => "response" \in Recorded(r)
  /\ "response" \in Recorded(r)' /\ "response" \notin Recorded(r) => "input" \in Recorded(r)
  /\ \A i \in At("settled", r)' :
       \/ i \in At("settled", r) /\ log'[Lane][i].body = log[Lane][i].body
       \/ sub[r].reserved # None /\ log'[Lane][i].body = sub[r].reserved.outcome

LEMMA HonestRow ==
  ASSUME Inv, Forward, NEW r \in Submission, Honest(r)
  PROVE  RowHistory(r)'
<1>1. RowHistory(r) /\ RowForward(r) /\ Recorded(r) \subseteq Recorded(r)'
  BY DEF Inv, RowInv, Forward, LogForward, LedgerForward
<1>2. \A i \in At("settled", r)' : sub'[r].reserved # None
      /\ log'[Lane][i].body = sub'[r].reserved.outcome
  BY <1>1 DEF Honest, RowHistory, RowForward
<1>3. /\ sub'[r].applied => "input" \in Recorded(r)'
      /\ sub'[r].state = "unknown" => "input" \in Recorded(r)'
      /\ sub'[r].reserved # None /\ sub'[r].reserved.outcome = "completed"
         => "final" \in Recorded(r)'
      /\ "prepared" \in Recorded(r)' => "response" \in Recorded(r)'
      /\ "response" \in Recorded(r)' => "input" \in Recorded(r)'
  BY <1>1 DEF Honest, RowHistory, RowForward
<1>. QED
  BY <1>2, <1>3 DEF RowHistory

LEMMA ProcessHonest ==
  ASSUME Inv, Forward, NEW p \in Process, Prints(p), NEW r \in Submission
  PROVE  Honest(r)
<1>0. Local(p) /\ Course(p) /\ RowHistory(r) /\ LedgerInv /\ job[p].s \in Submission
  BY InvFacts, BaseTypes DEF Inv, RowInv
<1>1. sub'[r].applied /\ ~sub[r].applied => "input" \in Recorded(r)
  <2>1. ASSUME r = job[p].s, job[p].at = "marker" PROVE "input" \in Recorded(r)
    BY <1>0, <2>1 DEF Local, Knows
  <2>. QED
    BY <2>1 DEF Prints, Touches, Same, Marked, Parked, Reserved, Finalized
<1>2. sub'[r].state = "unknown" /\ sub[r].state # "unknown" => "input" \in Recorded(r)
  <2>1. ASSUME r = job[p].s, job[p].at = "park" PROVE "input" \in Recorded(r)
    BY <1>0, <2>1 DEF Local, Knows
  <2>. QED
    BY <2>1 DEF Prints, Touches, Same, Marked, Parked, Reserved, Finalized
<1>3. sub'[r].reserved # None /\ sub[r].reserved = None /\ sub'[r].reserved.outcome = "completed" =>
        "final" \in Recorded(r)
  <2>. SUFFICES ASSUME sub'[r].reserved # None, sub[r].reserved = None,
                       sub'[r].reserved.outcome = "completed"
                PROVE  "final" \in Recorded(r)
    OBVIOUS
  <2>1. r = job[p].s /\ job[p].at = "reserve" /\ job[p].outcome = "completed"
    BY ReservedBy DEF Prints, Reserved
  <2>. QED
    BY <1>0, <2>1 DEF Local, Verdict
<1>4. "prepared" \in Recorded(r)' /\ "prepared" \notin Recorded(r) => "response" \in Recorded(r)
  <2>. SUFFICES ASSUME "prepared" \in Recorded(r)', "prepared" \notin Recorded(r)
                PROVE  "response" \in Recorded(r)
    OBVIOUS
  <2>1. r = job[p].s /\ job[p].at = "prepare"
    BY RunWritten DEF Prints, RunKinds, Sites
  <2>2. "response" \in job[p].knows
    BY <1>0, <2>1 DEF Local, Placed, Where
  <2>. QED
    BY <1>0, <2>1, <2>2 DEF Local, Knows, OnRun, InRunOf, Attempting
<1>5. "response" \in Recorded(r)' /\ "response" \notin Recorded(r) => "input" \in Recorded(r)
  <2>. SUFFICES ASSUME "response" \in Recorded(r)', "response" \notin Recorded(r)
                PROVE  "input" \in Recorded(r)
    OBVIOUS
  <2>1. r = job[p].s /\ job[p].at = "respond"
    BY RunWritten DEF Prints, RunKinds, Sites
  <2>. QED
    BY <1>0, <2>1 DEF Local, Knows, OnRun, InRunOf, Attempting
<1>6. ASSUME NEW i \in At("settled", r)'
      PROVE  \/ i \in At("settled", r) /\ log'[Lane][i].body = log[Lane][i].body
             \/ sub[r].reserved # None /\ log'[Lane][i].body = sub[r].reserved.outcome
  <2>1. CASE log' = log
    BY <1>6, <2>1, LogKept
  <2>2. ASSUME NEW k \in Kind, NEW s \in Submission, NEW b \in Saying,
               s = job[p].s, Lands(k, s, job[p].epoch, b), <<job[p].at, k>> \in Sites,
               k = "settled" => b = job[p].outcome
        PROVE  \/ i \in At("settled", r) /\ log'[Lane][i].body = log[Lane][i].body
               \/ sub[r].reserved # None /\ log'[Lane][i].body = sub[r].reserved.outcome
    <3>0. "settled" \in Kind
      BY DEF Kind
    <3>1. CASE k # "settled" \/ s # r
      <4>1. At("settled", r)' = At("settled", r)
        BY <2>2, <3>0, <3>1 DEF Lands
      <4>2. i \in 1..Length
        BY <1>6, <4>1, Places, <3>0
      <4>. QED
        BY <1>6, <2>2, <4>1, <4>2 DEF Lands
    <3>2. CASE k = "settled" /\ s = r
      <4>1. job[p].at = "record" /\ i = Length + 1 /\ log'[Lane][Length + 1].body = job[p].outcome
        BY <1>6, <2>2, <3>2 DEF Lands, Sites
      <4>2. sub[r].reserved # None /\ sub[r].reserved.outcome = job[p].outcome
        BY <1>0, <2>2, <3>2, <4>1 DEF Local, Verdict
      <4>. QED
        BY <4>1, <4>2
    <3>. QED
      BY <3>1, <3>2
  <2>. QED
    BY <2>1, <2>2 DEF Prints, Writes
<1>. QED
  BY <1>1, <1>2, <1>3, <1>4, <1>5, <1>6 DEF Honest

-----------------------------------------------------------------------------
\* Steps outside the processes: nothing that a process relies on changes.
LEMMA OthersQuiet ==
  ASSUME Base,
         \/ Operate
         \/ \E s \in Submission : LeaseExpires(s)
         \/ \E i \in 1..MaxForeign : ForeignAppend(i)
  PROVE  /\ \A r \in Submission : Same(r) /\ Recorded(r)' = Recorded(r)
         /\ \A k \in Kind, r \in Submission : At(k, r)' = At(k, r)
         /\ \A i \in 1..Length : log'[Lane][i] = log[Lane][i]
<1>0. LedgerInv /\ T!TypeOK /\ "-" \in Saying
  BY DEF Base, TypeOK, Saying
<1>1. ASSUME UNCHANGED canon
      PROVE  /\ \A r \in Submission : Recorded(r)' = Recorded(r)
             /\ \A k \in Kind, r \in Submission : At(k, r)' = At(k, r)
             /\ \A i \in 1..Length : log'[Lane][i] = log[Lane][i]
  BY <1>1, LogKept DEF canon
<1>2. ASSUME NEW s \in Submission, RequestAbort(s)
      PROVE UNCHANGED canon /\ \A r \in Submission : Same(r)
  BY <1>0, <1>2, AbortEffect, Untouched DEF RequestAbort
<1>3. ASSUME NEW s \in Submission, NEW answer \in Choice \cap Answers, ResolveUnknown(s, answer)
      PROVE  UNCHANGED canon /\ \A r \in Submission : Same(r)
  BY <1>0, <1>3, ResolveEffect, Untouched DEF ResolveUnknown, Same
<1>4. ASSUME NEW s \in Submission, LeaseExpires(s)
      PROVE UNCHANGED canon /\ \A r \in Submission : Same(r)
  BY <1>0, <1>4, ExpiryEffect, Untouched DEF LeaseExpires
<1>5. ASSUME NEW i \in 1..MaxForeign, ForeignAppend(i)
      PROVE  /\ \A r \in Submission : Same(r) /\ Recorded(r)' = Recorded(r)
             /\ \A k \in Kind, r \in Submission : At(k, r)' = At(k, r)
             /\ \A j \in 1..Length : log'[Lane][j] = log[Lane][j]
  <2>1. fence[Lane] \in Nat /\ Length \in Nat
    BY <1>0, <1>5, LogTypes DEF ForeignAppend
  <2>. QED
    BY <1>0, <1>5, <2>1, LandOther, Untouched DEF ForeignAppend
<1>. QED
  BY <1>1, <1>2, <1>3, <1>4, <1>5 DEF Operate

LEMMA OthersHonest ==
  ASSUME Inv, NEW r \in Submission, Same(r), Recorded(r)' = Recorded(r),
         At("settled", r)' = At("settled", r), \A i \in 1..Length : log'[Lane][i] = log[Lane][i]
  PROVE  Honest(r)
<1>1. \A i \in At("settled", r) : i \in 1..Length
  BY DEF At
<1>2. RowHistory(r) /\ LedgerInv /\ sub[r].applied \in BOOLEAN
  BY RowTypes DEF Inv, RowInv, Base
<1>. QED
  BY <1>1, <1>2 DEF Honest, Same

LEMMA StepLocal ==
  ASSUME Inv, NEW p \in Process,
         \/ Step(p) \/ Watch(p) \/ Halt(p) \/ Renew(p) \/ Crash(p) \/ Fail(p)
         \/ \E s \in Submission : Claim(p, s) \/ Sweep(p, s)
  PROVE  Local(p)'
  BY AttachLocal, LoadLocal, ReadLocal, ApplyInputLocal, MarkInputLocal, ReconcileLocal,
     AppendClosedCallLocal, AppendUnknownLocal, ParkLocal, RunOnLocal, RunFailsLocal,
     CommitResponseLocal, PrepareCallLocal, ExecuteLocal, CommitResultsLocal, CompleteRunLocal,
     RecordHaltLocal, RecordAbortLocal, AuditLocal, ReserveLocal, RecordSettlementLocal,
     FinalizeLocal, ReleaseLocal, InspectLocal, WakeLocal, SeekLocal, AcquireLocal, ReadTailLocal,
     AttendLocal, WatchLocal, HaltLocal, RenewLocal, FaultLocal, ClaimLocal, SweepLocal
  DEF Step

LEMMA InvInit == Init => Inv
<1>. SUFFICES ASSUME Init PROVE Inv
  OBVIOUS
<1>1. Base /\ ClaimInv
  BY BaseInit, ClaimInit
<1>2. \A p \in Process : job[p].at = "idle"
  BY IdleType DEF Init
<1>3. RunInv
  BY <1>2 DEF RunInv, Local, Knows, Accurate, Placed, Verdict, Unsettled, Where, OnRun, InRunOf,
     Attempting,
     Advancing, Planning
<1>4. \A s \in Submission : sub[s].state = "ready" /\ sub[s].applied = FALSE
      /\ sub[s].reserved = None
  BY DEF Init, L!Fresh
<1>5. \A k \in Kind, s \in Submission : k \notin Recorded(s) /\ At(k, s) = {}
  <2>1. Length = 0
    BY DEF Init, T!Init, Length
  <2>. QED
    BY <2>1 DEF Recorded, At
<1>6. RowInv
  BY <1>4, <1>5 DEF RowInv, RowHistory, Kind
<1>. QED
  BY <1>1, <1>3, <1>6 DEF Inv

LEMMA InvStep == Inv /\ [Next]_vars => Inv'
<1>. SUFFICES ASSUME Inv, [Next]_vars PROVE Inv'
  OBVIOUS
<1>1. Base' /\ ClaimInv'
  BY BaseStep, ClaimStep DEF Inv
<1>2. ASSUME NEW p \in Process, Next,
             \/ Step(p) \/ Watch(p) \/ Halt(p) \/ Renew(p) \/ Crash(p) \/ Fail(p)
             \/ \E s \in Submission : Claim(p, s) \/ Sweep(p, s)
      PROVE  RunInv' /\ RowInv'
  <2>1. Forward /\ Regular(p) /\ Prints(p)
    BY <1>2, NextForward, StepRegular, WatchRegular, HaltRegular, RenewRegular, FaultRegular,
       ClaimRegular, SweepRegular, ProcessPrints DEF Inv
  <2>2. ASSUME NEW q \in Process, q # p PROVE Local(q)'
    BY <2>1, <2>2, Undisturbs, OthersLocal DEF Regular, Apart
  <2>3. Local(p)'
    BY <1>2, StepLocal
  <2>4. \A r \in Submission : RowHistory(r)'
    BY <2>1, ProcessHonest, HonestRow
  <2>. QED
    BY <2>2, <2>3, <2>4 DEF RunInv, RowInv
<1>3. ASSUME Next,
             \/ Operate
             \/ \E s \in Submission : LeaseExpires(s)
             \/ \E i \in 1..MaxForeign : ForeignAppend(i)
      PROVE  RunInv' /\ RowInv'
  <2>1. Forward /\ job' = job
    BY <1>3, OthersForward DEF Inv
  <2>2. /\ \A r \in Submission : Same(r) /\ Recorded(r)' = Recorded(r)
        /\ \A r \in Submission : At("settled", r)' = At("settled", r)
        /\ \A i \in 1..Length : log'[Lane][i] = log[Lane][i]
    BY <1>3, OthersQuiet DEF Inv, Kind
  <2>3. \A q \in Process : Undisturbed(q)
    BY <2>2, InvFacts DEF Undisturbed, Same
  <2>4. \A q \in Process : Local(q)'
    BY <2>1, <2>3, OthersLocal
  <2>5. \A r \in Submission : RowHistory(r)'
    BY <2>1, <2>2, OthersHonest, HonestRow
  <2>. QED
    BY <2>4, <2>5 DEF RunInv, RowInv
<1>4. CASE UNCHANGED vars
  <2>1. job' = job /\ sub' = sub /\ fence' = fence /\ log' = log
    BY <1>4 DEF vars, ledger, canon
  <2>2. \A r : Recorded(r)' = Recorded(r) /\ At("settled", r)' = At("settled", r)
    BY <2>1, LogKept
  <2>3. ASSUME NEW q \in Process PROVE Local(q)'
    <3>1. Local(q)
      BY InvFacts
    <3>2. PICK s \in Submission : s = job[q].s
      BY InvFacts
    <3>. QED
      BY <2>1, <2>2, <3>1, <3>2 DEF Local, Knows, Accurate, Placed, Verdict, Unsettled, Where, Live
  <2>4. \A r \in Submission : RowHistory(r)'
    BY <2>1, <2>2 DEF Inv, RowInv, RowHistory
  <2>. QED
    BY <1>1, <2>3, <2>4 DEF Inv, RunInv, RowInv
<1>. QED
  BY <1>1, <1>2, <1>3, <1>4 DEF Next, Inv

LEMMA AlwaysInv == Spec => []Inv
  BY InvInit, InvStep, PTL DEF Spec

\* The consumed-input marker of a row is only ever evidence of a canonical
\* input, whoever set it and whatever failed in between (markInputApplied).
THEOREM MarkersFollowHistory == Spec => []MarkerFollowsHistory
<1>1. Inv => MarkerFollowsHistory
  BY DEF Inv, RowInv, RowHistory, MarkerFollowsHistory, Holds
<1>. QED
  BY <1>1, AlwaysInv, PTL

-----------------------------------------------------------------------------
\* Where a record lands, and where the others stay.
LEMMA LogOrder ==
  ASSUME Base, NEW p \in Process, Writes(p), NEW s \in Submission
  PROVE  \/ \A k \in Kind : At(k, s)' = At(k, s)
         \/ \E l \in Kind :
              /\ s = job[p].s /\ l \notin Recorded(s) /\ l \in Recorded(s)'
              /\ <<job[p].at, l>> \in Sites /\ At(l, s)' = {Length + 1}
              /\ \A k \in Kind \ {l} : At(k, s)' = At(k, s)
<1>1. CASE log' = log
  BY <1>1, LogKept
<1>2. ASSUME NEW l \in Kind, NEW r \in Submission, NEW b \in Saying,
             r = job[p].s, Lands(l, r, job[p].epoch, b), <<job[p].at, l>> \in Sites
      PROVE  \/ \A k \in Kind : At(k, s)' = At(k, s)
             \/ \E m \in Kind :
                  /\ s = job[p].s /\ m \notin Recorded(s) /\ m \in Recorded(s)'
                  /\ <<job[p].at, m>> \in Sites /\ At(m, s)' = {Length + 1}
                  /\ \A k \in Kind \ {m} : At(k, s)' = At(k, s)
  <2>1. CASE r # s
    BY <1>2, <2>1 DEF Lands
  <2>2. CASE r = s
    BY <1>2, <2>2 DEF Lands
  <2>. QED
    BY <2>1, <2>2
<1>. QED
  BY <1>1, <1>2 DEF Writes

LEMMA EndInit == Init => SettlementEndsTheRun
<1>. SUFFICES ASSUME Init PROVE SettlementEndsTheRun
  OBVIOUS
<1>1. Length = 0
  BY DEF Init, T!Init, Length
<1>2. \A k, s : At(k, s) = {}
  BY <1>1 DEF At
<1>. QED
  BY <1>2 DEF SettlementEndsTheRun, Precedes

LEMMA EndStep == Inv /\ SettlementEndsTheRun /\ [Next]_vars => SettlementEndsTheRun'
<1>. SUFFICES ASSUME Inv, SettlementEndsTheRun, [Next]_vars,
                     NEW s \in Submission, NEW k \in {"response", "prepared", "final"},
                     NEW i \in At("settled", s)', NEW j \in At(k, s)'
              PROVE  ~(i < j)
  BY DEF SettlementEndsTheRun, Precedes
<1>0. k \in Kind /\ "settled" \in Kind /\ k # "settled" /\ k \in RunKinds
  BY DEF Kind, RunKinds
<1>a. Length \in Nat /\ \A l, n : n \in At(l, s) => n \in 1..Length
  BY LogTypes DEF Inv, Base, TypeOK, At
<1>1. ASSUME \A l \in Kind : At(l, s)' = At(l, s) PROVE ~(i < j)
  BY <1>0, <1>1 DEF SettlementEndsTheRun, Precedes
<1>2. ASSUME NEW p \in Process,
             \/ Step(p) \/ Watch(p) \/ Halt(p) \/ Renew(p) \/ Crash(p) \/ Fail(p)
             \/ \E r \in Submission : Claim(p, r) \/ Sweep(p, r)
      PROVE  ~(i < j)
  <2>1. Prints(p) /\ Base
    BY <1>2, ProcessPrints DEF Inv
  <2>2. ASSUME NEW l \in Kind, s = job[p].s, l \notin Recorded(s), l \in Recorded(s)',
               <<job[p].at, l>> \in Sites, At(l, s)' = {Length + 1},
               \A m \in Kind \ {l} : At(m, s)' = At(m, s)
        PROVE  ~(i < j)
    <3>1. CASE l = "settled"
      <4>1. i = Length + 1 /\ j \in 1..Length
        BY <1>0, <1>a, <2>2, <3>1
      <4>. QED
        BY <1>a, <4>1
    <3>2. CASE l = k
      <4>1. Live(p) /\ job[p].at \in {"respond", "prepare", "complete"}
        BY <1>0, <2>1, <2>2, <3>2, RunWritten DEF Prints, Sites
      <4>2. p \in Worker
        BY <4>1, InvFacts DEF Course, ForWorkers, OnRun, InRunOf, Attempting
      <4>3. sub[s].reserved = None
        BY <2>2, <4>1, <4>2, InvFacts DEF Local, Unsettled, Advancing, OnRun, InRunOf, Attempting
      <4>4. At("settled", s) = {}
        BY <4>3 DEF Inv, RowInv, RowHistory
      <4>. QED
        BY <1>0, <2>2, <3>2, <4>4
    <3>3. CASE l # "settled" /\ l # k
      <4>1. At("settled", s)' = At("settled", s) /\ At(k, s)' = At(k, s)
        BY <1>0, <2>2, <3>3
      <4>. QED
        BY <4>1 DEF SettlementEndsTheRun, Precedes
    <3>. QED
      BY <3>1, <3>2, <3>3
  <2>. QED
    BY <1>1, <2>1, <2>2, LogOrder DEF Prints
<1>3. ASSUME \/ Operate
             \/ \E r \in Submission : LeaseExpires(r)
             \/ \E n \in 1..MaxForeign : ForeignAppend(n)
      PROVE  ~(i < j)
  BY <1>1, <1>3, OthersQuiet DEF Inv
<1>4. CASE UNCHANGED vars
  BY <1>1, <1>4, LogKept DEF vars, canon
<1>. QED
  BY <1>2, <1>3, <1>4 DEF Next

\* A settled Run does not run: no Attempt, however late, gets a Turn, a
\* prepared Call or a completion into history behind the settlement record
\* (terminalize, and the plan every Attempt and repair starts from).
THEOREM SettlementsEndRuns == Spec => []SettlementEndsTheRun
  BY AlwaysInv, EndInit, EndStep, PTL DEF Spec

-----------------------------------------------------------------------------
(***************************************************************************)
(* The handler of a Call: who is about to start it, and whether anybody     *)
(* may without an operator's word.                                          *)
(***************************************************************************)
Starts(s) == {p \in Process : job[p].s = s /\ Where(p) = "execute"}
Unanswered(s) == consent[s] \in {None, "CompletedWithResult"}
Poised(p) ==
  /\ Where(p) \in {"respond", "prepare"} => "prepared" \notin job[p].knows
  /\ Where(p) = "model" /\ OpenIn(job[p].knows) => ~Unanswered(job[p].s)
Started(s) ==
  /\ "prepared" \notin Recorded(s) => ran[s] = 0
  /\ consent[s] = "CompletedWithResult" => ran[s] > 0
  /\ Unanswered(s) =>
       /\ ran[s] <= 1
       /\ ran[s] > 0 => Starts(s) = {}
       /\ \A p, q \in Starts(s) : p = q
ToolInv ==
  /\ \A p \in Process : Poised(p)
  /\ \A s \in Submission : Started(s)

\* How a process comes to, goes through and leaves its Run.
GoesOn(p) == Where(p)' = Where(p) /\ job'[p].knows \in {job[p].knows, job[p].knows \cup {"abort"}}
Chooses(p) ==
  job[p].at = "model" /\ job'[p].at \in Ways(job[p].knows) /\ job'[p].knows = job[p].knows
Responds(p) ==
  job[p].at = "respond" /\ job'[p].at = "model" /\ job'[p].knows = job[p].knows \cup {"response"}
Prepares(p) ==
  job[p].at = "prepare" /\ job'[p].at = "execute" /\ job[p].epoch = fence[Lane]
Resumes(p) ==
  job'[p].at = "model" /\ (OpenIn(job'[p].knows) => ~Unanswered(job[p].s))
Leaves(p) == job'[p].at \notin OnRun
Runs(p) ==
  \/ Leaves(p)
  \/ job'[p].s = job[p].s /\ (GoesOn(p) \/ Chooses(p) \/ Responds(p) \/ Prepares(p) \/ Resumes(p))
Handles(p) ==
  /\ consent' = consent
  /\ \/ ran' = ran /\ Runs(p)
     \/ /\ job[p].at = "execute" /\ ran' = [ran EXCEPT ![job[p].s] = @ + 1]
        /\ job'[p].at = "close"

LEMMA Pauses ==
  ASSUME Base, NEW p \in Process
  PROVE  /\ Stays(p) => Runs(p)
         /\ Rests(p) => Runs(p)
         /\ \A at : Goes(p, at) /\ at \notin OnRun => Runs(p)
         /\ \A at, kinds, o : Moves(p, at, kinds, o) /\ at \notin OnRun => Runs(p)
         /\ \A k, at : Written(p, k, at) /\ at \notin OnRun => Runs(p)
  BY DEF Stays, Goes, Rests, Moves, Keeps, Written, Runs, Leaves, GoesOn, Where, OnRun, InRunOf,
     Attempting

\* After an append only the position it leads to matters.
LEMMA AppendRuns ==
  ASSUME Base, NEW p \in Process, NEW k, NEW b, NEW tolerant, NEW then,
         AppendOutcome(p, k, b, tolerant, then),
         Written(p, k, then) /\ job[p].epoch = fence[Lane] => Runs(p)
  PROVE  Handles(p)
<1>1. ran' = ran /\ consent' = consent
  BY DEF AppendOutcome, Elsewhere
<1>2. CASE Stays(p)
  BY <1>1, <1>2, Pauses DEF Handles
<1>3. CASE Goes(p, "release")
  BY <1>1, <1>3, Pauses DEF Handles, OnRun, InRunOf, Attempting
<1>4. ASSUME NEW s \in Submission, s = job[p].s, Lands(k, s, job[p].epoch, b), Written(p, k, then)
      PROVE  Handles(p)
  BY <1>1, <1>4 DEF Handles, Lands
<1>5. CASE Assumed(p, k, tolerant) /\ UNCHANGED canon /\ Written(p, k, then)
  BY <1>1, <1>5 DEF Handles, Assumed
<1>. QED
  BY <1>2, <1>3, <1>4, <1>5 DEF AppendOutcome

LEMMA ProcessHandles ==
  ASSUME Base, NEW p \in Process,
         \/ Step(p) \/ Watch(p) \/ Halt(p) \/ Renew(p) \/ Crash(p) \/ Fail(p)
         \/ \E s \in Submission : Claim(p, s) \/ Sweep(p, s)
  PROVE  Handles(p)
<1>a. Elsewhere => consent' = consent /\ ran' = ran
  BY DEF Elsewhere
<1>b. Calm => consent' = consent /\ ran' = ran
  BY DEF Calm, Elsewhere
<1>c. ran' = ran /\ consent' = consent /\ Runs(p) => Handles(p)
  BY DEF Handles
<1>d. \A at : at \in OnRun <=> at \in {"respond", "prepare", "execute", "close", "complete",
      "model", "halt"}
  BY DEF OnRun, InRunOf, Attempting
<1>1. CASE ApplyInput(p)
  BY <1>d, <1>1, ApplyInputMoves, AppendRuns, Pauses
<1>2. CASE AppendUnknown(p)
  BY <1>d, <1>2, AppendUnknownMoves, AppendRuns, Pauses
<1>3. CASE CompleteRun(p)
  BY <1>d, <1>3, CompleteRunMoves, AppendRuns, Pauses
<1>4. CASE RecordSettlement(p)
  BY <1>d, <1>4, RecordSettlementMoves, AppendRuns, Pauses
<1>5. CASE RecordAbort(p)
  <2>1. \A k : Written(p, k, "audit") => Runs(p)
    BY <1>d, Pauses
  <2>2. Goes(p, "audit") => Runs(p)
    BY <1>d, Pauses
  <2>. QED
    BY <1>b, <1>c, <1>5, <2>1, <2>2, RecordAbortMoves, AppendRuns
<1>6. CASE AuditOpenCalls(p)
  <2>1. \A k : Written(p, k, "reserve") => Runs(p)
    BY <1>d, Pauses
  <2>2. Goes(p, "reserve") => Runs(p)
    BY <1>d, Pauses
  <2>. QED
    BY <1>b, <1>c, <1>6, <2>1, <2>2, AuditMoves, AppendRuns
<1>7. CASE CommitResponse(p)
  <2>1. Written(p, "response", "model") /\ job[p].at = "respond" => Runs(p)
    BY DEF Written, Moves, Closing, Forgetful, Runs, Responds
  <2>. QED
    BY <1>7, <2>1, CommitResponseMoves, AppendRuns
<1>8. CASE PrepareCall(p)
  <2>1. Written(p, "prepared", "execute") /\ job[p].at = "prepare" /\ job[p].epoch = fence[Lane]
        => Runs(p)
    BY DEF Written, Moves, Runs, Prepares
  <2>. QED
    BY <1>8, <2>1, PrepareCallMoves, AppendRuns
<1>9. CASE CommitResults(p)
  <2>1. Written(p, "closed", "model") => Runs(p)
    BY DEF Written, Moves, Closing, Forgetful, Runs, Resumes, OpenIn
  <2>. QED
    BY <1>9, <2>1, CommitResultsMoves, AppendRuns
<1>10. CASE AppendClosedCall(p)
  <2>1. Written(p, "closed", "model") => Runs(p)
    BY DEF Written, Moves, Closing, Forgetful, Runs, Resumes, OpenIn
  <2>2. Written(p, "closed", "release") => Runs(p)
    BY <1>d, Pauses
  <2>. QED
    BY <1>10, <2>1, <2>2, AppendClosedCallMoves, AppendRuns
<1>11. CASE RecordHalt(p)
  <2>1. job[p].at = "halt" /\ job[p].plan \in InRunOf
    BY <1>11, RecordHaltMoves, CourseOf DEF Course
  <2>2. Written(p, "abort", job[p].plan) => Runs(p)
    BY <2>1 DEF Written, Moves, Closing, Forgetful, Runs, GoesOn, Where, InRunOf, Attempting
  <2>. QED
    BY <1>11, <2>2, RecordHaltMoves, AppendRuns
<1>12. CASE Attach(p)
  BY <1>a, <1>b, <1>c, <1>d, <1>12, AttachMoves, Pauses
<1>13. CASE Load(p)
  BY <1>a, <1>b, <1>c, <1>d, <1>13, LoadMoves, Pauses
<1>14. CASE MarkInput(p)
  BY <1>a, <1>b, <1>c, <1>d, <1>14, MarkMoves, Pauses
<1>15. CASE Park(p)
  BY <1>a, <1>b, <1>c, <1>d, <1>15, ParkMoves, Pauses
<1>16. CASE RunFails(p)
  BY <1>a, <1>b, <1>c, <1>d, <1>16, RunFailsMoves, Pauses
<1>17. CASE Reserve(p)
  BY <1>a, <1>b, <1>c, <1>d, <1>17, ReserveMoves, Pauses
<1>18. CASE Finalize(p)
  BY <1>a, <1>b, <1>c, <1>d, <1>18, FinalizeMoves, Pauses
<1>19. CASE Release(p)
  BY <1>a, <1>b, <1>c, <1>d, <1>19, ReleaseMoves, Pauses
<1>20. CASE Wake(p)
  BY <1>a, <1>b, <1>c, <1>d, <1>20, WakeMoves, Pauses
<1>21. CASE Seek(p)
  BY <1>a, <1>b, <1>c, <1>d, <1>21, SeekMoves, Pauses
<1>22. CASE Halt(p)
  BY <1>a, <1>b, <1>c, <1>d, <1>22, HaltMoves, Pauses
<1>23. CASE Read(p)
  BY <1>b, <1>c, <1>d, <1>23, ReadMoves, Pauses, Targets
<1>24. CASE Inspect(p)
  <2>. DEFINE plan == Repair(SnapshotOf(job[p].s), job[p].knows)
              at == IF plan \in {"wake", "finalize"} THEN plan ELSE "seek"
  <2>1. at \notin OnRun
    BY <1>d
  <2>. QED
    BY <1>b, <1>c, <1>24, <2>1, InspectMoves, Pauses
<1>25. CASE ReadTail(p)
  <2>1. Moves(p, job'[p].at, job'[p].knows, job'[p].outcome) \/ job'[p].at \notin OnRun
    BY <1>d, <1>25, ReadTailMoves DEF Moves
  <2>2. job[p].plan \notin OnRun
    BY <1>d, <1>25, ReadTailMoves, CourseOf DEF Course, ForRecovery, Planning, Plans
  <2>3. job'[p].at \notin OnRun
    BY <1>d, <1>25, <2>2, ReadTailMoves DEF Moves
  <2>. QED
    BY <1>b, <1>c, <1>25, <2>3, ReadTailMoves DEF Runs, Leaves
<1>26. CASE Attend(p)
  <2>1. job'[p].at \notin OnRun
    BY <1>d, <1>26, AttendMoves, CourseOf DEF Course
  <2>. QED
    BY <1>a, <1>c, <1>26, <2>1, AttendMoves DEF Runs, Leaves
<1>27. CASE Acquire(p)
  <2>1. job'[p].at \notin OnRun \/ Runs(p)
    BY <1>d, <1>27, AcquireMoves, Pauses
  <2>. QED
    BY <1>a, <1>c, <1>27, <2>1, AcquireMoves DEF Runs, Leaves
<1>28. CASE Reconcile(p)
  <2>. DEFINE kinds == IF Repairing(p) THEN job[p].knows ELSE Recorded(job[p].s)
              answer == IF Repairing(p) /\ ~job[p].row.answered THEN None ELSE consent[job[p].s]
              at == Triage(p, kinds, answer)
  <2>1. Moves(p, at, kinds, job[p].outcome) /\ Calm
    BY <1>28, ReconcileMoves
  <2>2. at \in {"park", "unknown", "answer", "release", "model"}
    BY Targets
  <2>3. at = "model" /\ OpenIn(kinds) => ~Unanswered(job[p].s)
    BY DEF Triage, Unanswered
  <2>. HIDE DEF at, kinds, answer
  <2>4. Runs(p)
    BY <1>d, <2>1, <2>2, <2>3 DEF Moves, Closing, Forgetful, Runs, Leaves, Resumes
  <2>. QED
    BY <1>b, <1>c, <2>1, <2>4
<1>29. CASE RunOn(p)
  <2>1. Runs(p)
    BY <1>29, RunOnMoves, Targets DEF Moves, Closing, Forgetful, Runs, Chooses, Leaves, OnRun,
       InRunOf, Attempting
  <2>. QED
    BY <1>b, <1>c, <1>29, <2>1, RunOnMoves
<1>30. CASE Execute(p)
  BY <1>30, ExecuteMoves DEF Moves, Handles
<1>31. CASE Watch(p)
  <2>1. Runs(p)
    BY <1>31, WatchMoves DEF Moves, Closing, Forgetful, Runs, GoesOn, Where, InRun, Attempting
  <2>. QED
    BY <1>b, <1>c, <1>31, <2>1, WatchMoves
<1>32. CASE Renew(p)
  <2>1. Runs(p)
    BY <1>d, <1>32, RenewMoves, Pauses DEF Goes, Keeps, Moves, Closing, Forgetful, Runs, GoesOn,
       Where, InRun, Attempting
  <2>. QED
    BY <1>a, <1>c, <1>32, <2>1, RenewMoves
<1>33. CASE Crash(p) \/ Fail(p)
  BY <1>c, <1>d, <1>33, FaultMoves, Pauses
<1>34. ASSUME NEW s \in Submission, Claim(p, s) PROVE Handles(p)
  BY <1>a, <1>c, <1>d, <1>34, ClaimMoves DEF Runs, Leaves
<1>35. ASSUME NEW s \in Submission, Sweep(p, s) PROVE Handles(p)
  BY <1>c, <1>d, <1>35, SweepMoves DEF Runs, Leaves
<1>. QED
  BY <1>1, <1>2, <1>3, <1>4, <1>5, <1>6, <1>7, <1>8, <1>9, <1>10, <1>11, <1>12, <1>13, <1>14,
     <1>15, <1>16, <1>17, <1>18, <1>19, <1>20, <1>21, <1>22, <1>23, <1>24, <1>25, <1>26, <1>27,
     <1>28, <1>29, <1>30, <1>31, <1>32, <1>33, <1>34, <1>35 DEF Step

LEMMA PoisedStep ==
  ASSUME Inv, ToolInv, NEW p \in Process, Handles(p)
  PROVE  Poised(p)'
<1>0. Poised(p) /\ Placed(p) /\ Course(p) /\ consent' = consent
  BY InvFacts DEF ToolInv, Local, Handles
<1>1. PICK s \in Submission : s = job[p].s
  BY InvFacts
<1>2. CASE Leaves(p) \/ job'[p].at = "close"
  BY <1>2 DEF Leaves, Poised, Where, OnRun, InRunOf, Attempting
<1>3. CASE job'[p].s = s /\ GoesOn(p)
  BY <1>0, <1>1, <1>3 DEF GoesOn, Poised, OpenIn, Unanswered
<1>4. CASE job'[p].s = s /\ Chooses(p)
  <2>1. p \in Worker
    BY <1>0, <1>4 DEF Chooses, Course, ForWorkers, OnRun, InRunOf
  <2>. QED
    BY <1>0, <1>1, <1>4, <2>1 DEF Chooses, Poised, Placed, Ways, Where, OnRun, InRunOf
<1>5. CASE job'[p].s = s /\ Responds(p)
  BY <1>0, <1>1, <1>5 DEF Responds, Poised, Where, OpenIn
<1>6. CASE job'[p].s = s /\ Prepares(p)
  BY <1>6 DEF Prepares, Poised, Where
<1>7. CASE job'[p].s = s /\ Resumes(p)
  BY <1>0, <1>1, <1>7 DEF Resumes, Poised, Where, Unanswered
<1>. QED
  BY <1>1, <1>2, <1>3, <1>4, <1>5, <1>6, <1>7 DEF Handles, Runs

\* The handlers that are about to start after a step were so before, but for
\* the one this step prepared, or was told to start.
LEMMA StartsStep ==
  ASSUME Inv, ToolInv, NEW p \in Process, Apart(p), Handles(p), NEW r \in Submission
  PROVE  \/ Starts(r)' \subseteq Starts(r)
         \/ /\ Starts(r)' \subseteq Starts(r) \cup {p} /\ r = job[p].s
            /\ ~Unanswered(r) \/ (Prepares(p) /\ ran' = ran)
<1>0. Poised(p)
  BY DEF ToolInv
<1>1. \A q \in Process : q # p => (q \in Starts(r)' <=> q \in Starts(r))
  BY DEF Apart, Starts, Where
<1>2. \A q : q \in Starts(r)' \/ q \in Starts(r) => q \in Process
  BY DEF Starts
<1>3. ASSUME p \in Starts(r)', p \notin Starts(r)
      PROVE  r = job[p].s /\ (~Unanswered(r) \/ (Prepares(p) /\ ran' = ran))
  <2>1. job'[p].s = r /\ Where(p)' = "execute"
    BY <1>3 DEF Starts
  <2>2. ~Leaves(p) /\ job'[p].at # "close"
    BY <2>1 DEF Leaves, Where, OnRun, InRunOf, Attempting
  <2>3. job'[p].s = job[p].s /\ ran' = ran
        /\ (GoesOn(p) \/ Chooses(p) \/ Responds(p) \/ Prepares(p) \/ Resumes(p))
    BY <2>2 DEF Handles, Runs
  <2>4. ~GoesOn(p)
    BY <1>3, <2>1, <2>3 DEF GoesOn, Starts
  <2>5. ~Responds(p) /\ ~Resumes(p)
    BY <2>1 DEF Responds, Resumes, Where
  <2>6. Chooses(p) => ~Unanswered(r)
    BY <1>0, <2>1, <2>3 DEF Chooses, Ways, Poised, OpenIn, Where
  <2>. QED
    BY <2>1, <2>3, <2>4, <2>5, <2>6
<1>. QED
  BY <1>1, <1>2, <1>3

LEMMA StartedStep ==
  ASSUME Inv, ToolInv, Forward, NEW p \in Process, Apart(p), Handles(p), NEW r \in Submission
  PROVE  Started(r)'
<1>0. Started(r) /\ consent' = consent /\ Recorded(r) \subseteq Recorded(r)'
      /\ ran \in [Submission -> Nat]
  BY Bounded DEF ToolInv, Handles, Forward, LogForward, Inv
<1>1. CASE ran' = ran /\ Starts(r)' \subseteq Starts(r)
  BY <1>0, <1>1 DEF Started, Unanswered
<1>2. CASE ran' = ran /\ ~Unanswered(r)
  BY <1>0, <1>2 DEF Started, Unanswered
<1>3. CASE ran' = ran /\ Prepares(p) /\ r = job[p].s /\ Starts(r)' \subseteq Starts(r) \cup {p}
  <2>1. "prepared" \notin Recorded(r)
    <3>1. Poised(p) /\ Local(p) /\ Course(p)
      BY InvFacts DEF ToolInv
    <3>2. p \in Worker /\ job[p].token # 0
      BY <1>3, <3>1 DEF Prepares, Course, ForWorkers, WithClaim, OnRun, InRunOf, Attempting
    <3>3. Live(p) /\ "prepared" \notin job[p].knows
      BY <1>3, <3>1, <3>2 DEF Prepares, Poised, Where, Live
    <3>. QED
      BY <1>3, <3>1, <3>2, <3>3 DEF Prepares, Local, Accurate, OnRun, InRunOf, Attempting, RunKinds
  <2>2. ran[r] = 0
    BY <1>0, <2>1 DEF Started
  <2>3. Starts(r) = {}
    <3>1. \A q \in Starts(r) : "prepared" \in Recorded(r)
      <4>. SUFFICES ASSUME NEW q \in Starts(r) PROVE "prepared" \in Recorded(r)
        OBVIOUS
      <4>1. q \in Process /\ job[q].s = r /\ Where(q) = "execute"
        BY DEF Starts
      <4>2. Local(q) /\ Course(q)
        BY <4>1, InvFacts
      <4>3. job[q].at \in OnRun
        BY <4>1 DEF Where, OnRun, InRunOf, Attempting
      <4>. QED
        BY <4>1, <4>2, <4>3 DEF Local, Placed, Knows
    <3>. QED
      BY <2>1, <3>1
  <2>. QED
    BY <1>0, <1>3, <2>2, <2>3 DEF Started, Unanswered, Prepares
<1>4. CASE job[p].at = "execute" /\ ran' = [ran EXCEPT ![job[p].s] = @ + 1] /\ job'[p].at = "close"
  <2>1. job[p].s \in Submission /\ Local(p)
    BY InvFacts
  <2>2. CASE r # job[p].s
    <3>1. ran'[r] = ran[r]
      BY <1>0, <1>4, <2>1, <2>2
    <3>2. Starts(r)' \subseteq Starts(r)
      BY <2>2, <1>4, StartsStep DEF Prepares
    <3>. QED
      BY <1>0, <3>1, <3>2 DEF Started, Unanswered
  <2>3. CASE r = job[p].s
    <3>1. p \in Starts(r)
      BY <2>3, <1>4 DEF Starts, Where
    <3>2. ran'[r] = ran[r] + 1 /\ ran[r] \in Nat
      BY <1>0, <1>4, <2>1, <2>3
    <3>3. Starts(r)' \subseteq Starts(r) \ {p}
      <4>1. p \notin Starts(r)'
        BY <1>4 DEF Starts, Where
      <4>2. \A q \in Process : q # p => (q \in Starts(r)' <=> q \in Starts(r))
        BY DEF Apart, Starts, Where
      <4>3. \A q : q \in Starts(r)' => q \in Process
        BY DEF Starts
      <4>. QED
        BY <4>1, <4>2, <4>3
    <3>4. "prepared" \in Recorded(r)
      BY <1>4, <2>1, <2>3 DEF Local, Placed, Knows, Where, OnRun, InRunOf, Attempting
    <3>5. CASE Unanswered(r)
      <4>1. ran[r] = 0 /\ Starts(r)' = {}
        BY <1>0, <3>1, <3>2, <3>3, <3>5 DEF Started
      <4>. QED
        BY <1>0, <3>2, <3>4, <4>1 DEF Started, Unanswered
    <3>6. CASE ~Unanswered(r)
      BY <1>0, <3>2, <3>4, <3>6 DEF Started, Unanswered
    <3>. QED
      BY <3>5, <3>6
  <2>. QED
    BY <2>2, <2>3
<1>. QED
  BY <1>1, <1>2, <1>3, <1>4, StartsStep DEF Handles

\* Outside the processes only the operators' answers count.
LEMMA OthersTool ==
  ASSUME Inv, ToolInv,
         \/ Operate
         \/ \E s \in Submission : LeaseExpires(s)
         \/ \E i \in 1..MaxForeign : ForeignAppend(i)
  PROVE  ToolInv'
<1>1. Forward /\ job' = job /\ ran' = ran
  BY OthersForward DEF Inv
<1>2. \A r \in Submission : Recorded(r) \subseteq Recorded(r)'
  BY <1>1 DEF Forward, LogForward
<1>3. \A r \in Submission : Starts(r)' = Starts(r)
  BY <1>1 DEF Starts, Where
<1>4. ASSUME \A r \in Submission :
               \/ consent'[r] = consent[r]
               \/ consent[r] = None /\ (consent'[r] = "CompletedWithResult" => ran[r] > 0)
      PROVE  ToolInv'
  <2>1. \A r \in Submission : ~Unanswered(r) => ~Unanswered(r)'
    BY <1>4 DEF Unanswered
  <2>2. \A q \in Process : Poised(q)'
    <3>. SUFFICES ASSUME NEW q \in Process PROVE Poised(q)'
      OBVIOUS
    <3>1. PICK s \in Submission : s = job[q].s
      BY InvFacts
    <3>2. Poised(q)
      BY DEF ToolInv
    <3>. QED
      BY <1>1, <2>1, <3>1, <3>2 DEF Poised, Where
  <2>3. \A r \in Submission : Started(r)'
    <3>. SUFFICES ASSUME NEW r \in Submission PROVE Started(r)'
      OBVIOUS
    <3>1. Started(r)
      BY DEF ToolInv
    <3>2. Unanswered(r)' => Unanswered(r)
      BY <2>1
    <3>3. consent'[r] = "CompletedWithResult" => ran[r] > 0
      BY <1>4, <3>1 DEF Started
    <3>. QED
      BY <1>1, <1>2, <1>3, <3>1, <3>2, <3>3 DEF Started
  <2>. QED
    BY <2>2, <2>3 DEF ToolInv
<1>5. ASSUME NEW s \in Submission, NEW answer \in Choice \cap Answers, ResolveUnknown(s, answer)
      PROVE  ToolInv'
  <2>1. consent \in [Submission -> Answers \cup {None}]
    BY Bounded DEF Inv
  <2>2. ASSUME NEW r \in Submission
        PROVE  \/ consent'[r] = consent[r]
               \/ consent[r] = None /\ (consent'[r] = "CompletedWithResult" => ran[r] > 0)
    BY <1>5, <2>1 DEF ResolveUnknown
  <2>. QED
    BY <1>4, <2>2
<1>6. CASE \/ \E s \in Submission : RequestAbort(s) \/ LeaseExpires(s)
           \/ \E i \in 1..MaxForeign : ForeignAppend(i)
  BY <1>4, <1>6 DEF RequestAbort, LeaseExpires, ForeignAppend
<1>. QED
  BY <1>5, <1>6 DEF Operate

LEMMA ToolInit == Init => ToolInv
<1>. SUFFICES ASSUME Init PROVE ToolInv
  OBVIOUS
<1>1. \A p \in Process : job[p].at = "idle"
  BY IdleType DEF Init
<1>2. \A s \in Submission : ran[s] = 0 /\ consent[s] = None
  BY DEF Init
<1>3. None # "CompletedWithResult"
  BY AttemptConstants DEF Answers
<1>. QED
  BY <1>1, <1>2, <1>3 DEF ToolInv, Poised, Started, Starts, Where

LEMMA ToolStep == Inv /\ ToolInv /\ [Next]_vars => ToolInv'
<1>. SUFFICES ASSUME Inv, ToolInv, [Next]_vars PROVE ToolInv'
  OBVIOUS
<1>1. ASSUME NEW p \in Process, Next,
             \/ Step(p) \/ Watch(p) \/ Halt(p) \/ Renew(p) \/ Crash(p) \/ Fail(p)
             \/ \E s \in Submission : Claim(p, s) \/ Sweep(p, s)
      PROVE  ToolInv'
  <2>1. Forward /\ Regular(p) /\ Handles(p)
    BY <1>1, NextForward, StepRegular, WatchRegular, HaltRegular, RenewRegular, FaultRegular,
       ClaimRegular, SweepRegular, ProcessHandles DEF Inv
  <2>2. Apart(p) /\ consent' = consent
    BY <2>1 DEF Regular, Handles
  <2>3. ASSUME NEW q \in Process, q # p PROVE Poised(q)'
    <3>1. Poised(q) /\ job'[q] = job[q]
      BY <2>2, <2>3 DEF ToolInv, Apart
    <3>2. PICK s \in Submission : s = job[q].s
      BY InvFacts
    <3>. QED
      BY <2>2, <3>1, <3>2 DEF Poised, Where, Unanswered
  <2>. QED
    BY <2>1, <2>2, <2>3, PoisedStep, StartedStep DEF ToolInv
<1>2. CASE UNCHANGED vars
  <2>1. job' = job /\ ran' = ran /\ consent' = consent /\ log' = log
    BY <1>2 DEF vars, canon
  <2>2. \A r : Recorded(r)' = Recorded(r) /\ Starts(r)' = Starts(r)
    BY <2>1, LogKept DEF Starts, Where
  <2>. QED
    BY <2>1, <2>2 DEF ToolInv, Poised, Started, Unanswered, Where
<1>. QED
  BY <1>1, <1>2, OthersTool DEF Next

\* Whatever crashes, is superseded or recovers, the handler of an ordinary Call
\* starts at most once until an operator's answer lets it start again, and
\* never before its preparation is canonical (toolExecution, the default
\* reconciler).
THEOREM ToolsRunOnce == Spec => []RunsToolOnce
<1>1. Inv /\ ToolInv => RunsToolOnce
  <2>. SUFFICES ASSUME Inv, ToolInv, NEW s \in Submission
                PROVE  /\ ran[s] > 0 => Holds("prepared", s)
                       /\ consent[s] \in {None, "CompletedWithResult"} => ran[s] <= 1
    BY DEF RunsToolOnce
  <2>1. Started(s) /\ ran[s] \in Nat
    BY Bounded DEF ToolInv, Inv
  <2>. QED
    BY <2>1 DEF Started, Unanswered, Holds
<1>. QED
  BY <1>1, AlwaysInv, ToolInit, ToolStep, PTL DEF Spec

-----------------------------------------------------------------------------
(***************************************************************************)
(* The queue: whoever holds a claim, or is recorded, was the head once; and *)
(* a claim whose input is still to come is older than any claim behind it.  *)
(***************************************************************************)
Passed(s) == \A r \in Submission : r < s => sub[r].state = "settled" \/ "input" \in Recorded(r)
Holding(p) == job[p].token # 0 /\ job[p].epoch # 0
Older(q) ==
  \A r \in Submission :
    Holding(q) /\ r = job[q].s /\ "input" \notin Recorded(r) =>
      /\ \A p \in Process : Holding(p) /\ r < job[p].s => job[q].epoch < job[p].epoch
      /\ \A s \in Submission : "input" \in Recorded(s) /\ r < s => job[q].epoch < fence[Lane]
QueueInv ==
  /\ \A s \in Submission : "input" \in Recorded(s) => Passed(s)
  /\ \A p \in Process, s \in Submission : job[p].token # 0 /\ s = job[p].s => Passed(s)
  /\ \A q \in Process : Older(q)

LEMMA HeadPassed ==
  ASSUME Inv, NEW s \in Submission, L!Claim(s)
  PROVE  Passed(s) /\ sub[s].state # "settled"
<1>1. LedgerInv /\ (\A r \in Submission : RowHistory(r))
  BY DEF Inv, Base, RowInv
<1>2. \A r \in Submission : adm[r].thread = Lane /\ adm[r].seq = r /\ sub[r].state \in PlainStates
  BY <1>1, RowTypes DEF LedgerInv
<1>3. L!IsHead(s)
  BY DEF L!Claim
<1>4. sub[s].state # "settled"
  BY <1>3 DEF L!IsHead, L!Candidate, L!Active
<1>5. ASSUME NEW r \in Submission, r < s PROVE sub[r].state = "settled" \/ "input" \in Recorded(r)
  <2>1. L!Earlier(r, s)
    BY <1>2, <1>5 DEF L!Earlier, L!Present, L!SameLane, PlainStates
  <2>2. ~L!Candidate(r)
    BY <1>3, <2>1 DEF L!IsHead
  <2>3. sub[r].state \in {"settled", "unknown"}
    BY <1>2, <2>2 DEF L!Candidate, L!Active, L!Parked, PlainStates
  <2>. QED
    BY <1>1, <2>3 DEF RowHistory
<1>. QED
  BY <1>4, <1>5 DEF Passed

LEMMA PassedStays ==
  ASSUME Forward, NEW s \in Submission, Passed(s)
  PROVE  Passed(s)'
  BY DEF Passed, Forward, LogForward, LedgerForward, RowForward

\* A step of nobody, or one that neither claims nor records an input.
LEMMA QueueQuiet ==
  ASSUME Inv, QueueInv, Forward,
         \A r \in Submission : "input" \in Recorded(r)' <=> "input" \in Recorded(r),
         \A q \in Process : job'[q].token # 0 =>
           job'[q].token = job[q].token /\ job'[q].s = job[q].s
           /\ job'[q].epoch \in {0, job[q].epoch}
  PROVE  QueueInv'
<1>0. Base /\ ClaimInv
  BY DEF Inv
<1>1. \A s \in Submission : "input" \in Recorded(s)' => Passed(s)'
  BY PassedStays DEF QueueInv
<1>2. \A q \in Process, s \in Submission : job'[q].token # 0 /\ s = job'[q].s => Passed(s)'
  BY PassedStays DEF QueueInv
<1>3. ASSUME NEW q \in Process PROVE Older(q)'
  <2>1. Holding(q)' => Holding(q) /\ job'[q].s = job[q].s /\ job'[q].epoch = job[q].epoch
    BY DEF Holding
  <2>2. \A p \in Process : Holding(p)' => Holding(p) /\ job'[p].s = job[p].s
        /\ job'[p].epoch = job[p].epoch
    BY DEF Holding
  <2>3. Older(q)
    BY DEF QueueInv
  <2>4. job[q].epoch \in Nat
    BY <1>0, BaseTypes
  <2>. QED
    BY <1>0, <2>1, <2>2, <2>3, <2>4, Numbers DEF Older
<1>. QED
  BY <1>1, <1>2, <1>3 DEF QueueInv

\* A claim: its row is the head, so nothing behind it was ever claimed.
LEMMA QueueClaim ==
  ASSUME Inv, QueueInv, Forward, NEW p \in Process, Apart(p), Granted(p),
         \A r \in Submission : "input" \in Recorded(r)' <=> "input" \in Recorded(r)
  PROVE  QueueInv'
<1>0. Base /\ ClaimInv
  BY DEF Inv
<1>1. PICK h \in Submission : job'[p].s = h /\ L!Claim(h)
  BY DEF Granted
<1>2. Passed(h) /\ sub[h].state # "settled"
  BY <1>1, HeadPassed
<1>3. \A q \in Process : q # p => job'[q] = job[q]
  BY DEF Apart
<1>4. \A s \in Submission : "input" \in Recorded(s)' => Passed(s)'
  BY PassedStays DEF QueueInv
<1>5. \A q \in Process, s \in Submission : job'[q].token # 0 /\ s = job'[q].s => Passed(s)'
  BY <1>1, <1>2, <1>3, PassedStays DEF QueueInv
<1>6. Older(p)'
  <2>1. ASSUME "input" \notin Recorded(h), NEW q \in Process, q # p, Holding(q)
        PROVE ~(h < job[q].s)
    <3>1. PICK s \in Submission : s = job[q].s
      BY InvFacts
    <3>. QED
      BY <1>2, <2>1, <3>1 DEF QueueInv, Holding, Passed
  <2>2. ASSUME "input" \notin Recorded(h), NEW s \in Submission, "input" \in Recorded(s)
        PROVE ~(h < s)
    BY <1>2, <2>2 DEF QueueInv, Passed
  <2>3. \A q \in Process : q # p => (Holding(q)' <=> Holding(q))
    BY <1>3 DEF Holding
  <2>4. h \in Nat /\ ~(h < h)
    BY DEF Submission
  <2>. QED
    BY <1>1, <1>3, <2>1, <2>2, <2>3, <2>4 DEF Older
<1>7. ASSUME NEW q \in Process, q # p PROVE Older(q)'
  <2>1. job'[q] = job[q] /\ Older(q) /\ (Holding(q)' <=> Holding(q))
    BY <1>3, <1>7 DEF QueueInv, Holding
  <2>2. job[q].epoch \in Nat /\ job[q].epoch <= epoch[Lane] /\ job'[p].epoch = epoch[Lane] + 1
    BY <1>0, BaseTypes DEF ClaimInv, Claims, Granted
  <2>3. \A w \in Process : w # p => (Holding(w)' <=> Holding(w)) /\ job'[w] = job[w]
    BY <1>3 DEF Holding
  <2>4. job[q].epoch < job'[p].epoch
    BY <1>0, <2>2, Numbers
  <2>. QED
    BY <1>0, <2>1, <2>2, <2>3, <2>4, Numbers DEF Older
<1>. QED
  BY <1>4, <1>5, <1>6, <1>7 DEF QueueInv

\* An input lands: its claim is the live one, so every older one is past.
LEMMA QueueInput ==
  ASSUME Inv, QueueInv, Forward, NEW p \in Process, NEW s \in Submission, s = job[p].s,
         job[p].at = "input", job[p].epoch = fence[Lane], fence' = fence,
         \A r \in Submission : "input" \in Recorded(r)' <=> "input" \in Recorded(r) \/ r = s,
         \A q \in Process : job'[q].token # 0 =>
           job'[q].token = job[q].token /\ job'[q].s = job[q].s
           /\ job'[q].epoch \in {0, job[q].epoch}
  PROVE  QueueInv'
<1>0. Base /\ ClaimInv /\ Claims(p) /\ Course(p)
  BY InvFacts
<1>1. Holding(p)
  BY <1>0 DEF Holding, Claims, Course, WithClaim, Closing
<1>2. \A r \in Submission : "input" \in Recorded(r)' => Passed(r)'
  BY <1>1, PassedStays DEF QueueInv, Holding
<1>3. \A q \in Process, r \in Submission : job'[q].token # 0 /\ r = job'[q].s => Passed(r)'
  BY PassedStays DEF QueueInv
<1>4. ASSUME NEW q \in Process PROVE Older(q)'
  <2>1. Holding(q)' => Holding(q) /\ job'[q].s = job[q].s /\ job'[q].epoch = job[q].epoch
    BY DEF Holding
  <2>2. \A w \in Process : Holding(w)' => Holding(w) /\ job'[w].s = job[w].s
        /\ job'[w].epoch = job[w].epoch
    BY DEF Holding
  <2>3. Older(q)
    BY DEF QueueInv
  <2>. QED
    BY <1>1, <2>1, <2>2, <2>3 DEF Older
<1>. QED
  BY <1>2, <1>3, <1>4 DEF QueueInv

LEMMA QueueInit == Init => QueueInv
<1>. SUFFICES ASSUME Init PROVE QueueInv
  OBVIOUS
<1>1. \A p \in Process : job[p].token = 0
  BY IdleType DEF Init
<1>2. \A s \in Submission : "input" \notin Recorded(s)
  BY DEF Init, T!Init, Length, Recorded
<1>. QED
  BY <1>1, <1>2 DEF QueueInv, Older, Holding

LEMMA QueueStep == Inv /\ QueueInv /\ [Next]_vars => QueueInv'
<1>. SUFFICES ASSUME Inv, QueueInv, [Next]_vars PROVE QueueInv'
  OBVIOUS
<1>0. "input" \in Kind
  BY DEF Kind
<1>1. ASSUME NEW p \in Process, Next,
             \/ Step(p) \/ Watch(p) \/ Halt(p) \/ Renew(p) \/ Crash(p) \/ Fail(p)
             \/ \E s \in Submission : Claim(p, s) \/ Sweep(p, s)
      PROVE  QueueInv'
  <2>1. Forward /\ Regular(p) /\ Prints(p) /\ Carried(p)
    BY <1>1, NextForward, StepRegular, WatchRegular, HaltRegular, RenewRegular, FaultRegular,
       ClaimRegular, SweepRegular, ProcessPrints, ProcessCarries DEF Inv
  <2>2. Apart(p)
    BY <2>1 DEF Regular
  <2>3. \A r \in Submission : Recorded(r) \subseteq Recorded(r)'
    BY <2>1 DEF Forward, LogForward
  <2>4. CASE Granted(p)
    <3>1. ASSUME NEW r \in Submission, "input" \in Recorded(r)', "input" \notin Recorded(r)
          PROVE FALSE
      <4>1. job[p].at = "input"
        BY <1>0, <2>1, <3>1, NewlyWritten DEF Prints, Sites
      <4>. QED
        BY <2>4, <4>1, InvFacts DEF Granted, Course, WithClaim
    <3>. QED
      BY <2>1, <2>2, <2>3, <2>4, <3>1, QueueClaim
  <2>5. CASE Carries(p)
    <3>1. \A q \in Process : job'[q].token # 0 =>
            job'[q].token = job[q].token /\ job'[q].s = job[q].s
            /\ job'[q].epoch \in {0, job[q].epoch}
      BY <2>2, <2>5 DEF Carries, Apart
    <3>2. CASE \A r \in Submission : "input" \in Recorded(r)' <=> "input" \in Recorded(r)
      BY <2>1, <3>1, <3>2, QueueQuiet
    <3>3. ASSUME NEW s \in Submission, "input" \in Recorded(s)', "input" \notin Recorded(s)
          PROVE  QueueInv'
      <4>1. s = job[p].s /\ job[p].at = "input" /\ job[p].epoch = fence[Lane]
        BY <1>0, <2>1, <3>3, NewlyWritten DEF Prints, Sites
      <4>2. \A r \in Submission : "input" \in Recorded(r)' <=> "input" \in Recorded(r) \/ r = s
        <5>1. \A r \in Submission : "input" \in Recorded(r)' /\ "input" \notin Recorded(r) => r = s
          BY <1>0, <2>1, <4>1, NewlyWritten DEF Prints
        <5>. QED
          BY <2>3, <3>3, <5>1
      <4>3. fence' = fence
        BY <2>1, <3>3, LogKept DEF Prints, Writes, Lands
      <4>. QED
        BY <2>1, <3>1, <4>1, <4>2, <4>3, QueueInput
    <3>. QED
      BY <2>3, <3>2, <3>3
  <2>. QED
    BY <2>1, <2>4, <2>5 DEF Carried
<1>2. ASSUME Next,
             \/ Operate
             \/ \E s \in Submission : LeaseExpires(s)
             \/ \E i \in 1..MaxForeign : ForeignAppend(i)
      PROVE  QueueInv'
  <2>1. Forward /\ job' = job
    BY <1>2, OthersForward DEF Inv
  <2>2. \A r \in Submission : Recorded(r)' = Recorded(r)
    BY <1>2, OthersQuiet DEF Inv
  <2>. QED
    BY <2>1, <2>2, QueueQuiet
<1>3. CASE UNCHANGED vars
  <2>1. job' = job /\ sub' = sub /\ log' = log /\ fence' = fence
    BY <1>3 DEF vars, canon, ledger
  <2>2. \A r : Recorded(r)' = Recorded(r)
    BY <2>1, LogKept
  <2>. QED
    BY <2>1, <2>2 DEF QueueInv, Passed, Older, Holding
<1>. QED
  BY <1>1, <1>2, <1>3 DEF Next

-----------------------------------------------------------------------------
LEMMA FifoStep == Inv /\ QueueInv /\ FifoInputOrder /\ [Next]_vars => FifoInputOrder'
<1>. SUFFICES ASSUME Inv, QueueInv, FifoInputOrder, [Next]_vars, NEW r \in Submission,
                     NEW s \in Submission,
                     r < s, "input" \in Recorded(r)', "input" \in Recorded(s)'
              PROVE  \E i \in At("input", r)', j \in At("input", s)' : i < j
  BY DEF FifoInputOrder, Precedes, Holds
<1>0. "input" \in Kind /\ Length \in Nat /\ \A t, n : n \in At("input", t) => n \in 1..Length
  BY LogTypes DEF Kind, Inv, Base, TypeOK, At
<1>1. ASSUME \A t \in Submission : At("input", t)' = At("input", t) /\ Recorded(t)' = Recorded(t)
      PROVE  \E i \in At("input", r)', j \in At("input", s)' : i < j
  BY <1>1 DEF FifoInputOrder, Precedes, Holds
<1>2. ASSUME NEW p \in Process,
             \/ Step(p) \/ Watch(p) \/ Halt(p) \/ Renew(p) \/ Crash(p) \/ Fail(p)
             \/ \E t \in Submission : Claim(p, t) \/ Sweep(p, t)
      PROVE  \E i \in At("input", r)', j \in At("input", s)' : i < j
  <2>1. Writes(p) /\ Base
    BY <1>2, ProcessPrints DEF Inv, Prints
  <2>2. CASE log' = log
    BY <1>1, <2>2, LogKept
  <2>3. ASSUME NEW k \in Kind, NEW t \in Submission, NEW b \in Saying,
               t = job[p].s, Lands(k, t, job[p].epoch, b), <<job[p].at, k>> \in Sites
        PROVE  \E i \in At("input", r)', j \in At("input", s)' : i < j
    <3>1. CASE k # "input" \/ t \notin {r, s}
      <4>1. At("input", r)' = At("input", r) /\ At("input", s)' = At("input", s)
        BY <1>0, <2>3, <3>1 DEF Lands
      <4>2. "input" \in Recorded(r) /\ "input" \in Recorded(s)
        BY <1>0, <2>3, <3>1 DEF Lands
      <4>. QED
        BY <4>1, <4>2 DEF FifoInputOrder, Precedes, Holds
    <3>2. CASE k = "input" /\ t = s
      <4>1. r # s
        BY DEF Submission
      <4>2. At("input", s)' = {Length + 1} /\ At("input", r)' = At("input", r)
            /\ "input" \in Recorded(r)
        BY <1>0, <2>3, <3>2, <4>1 DEF Lands
      <4>3. PICK i \in At("input", r) : i \in 1..Length
        BY <1>0, <4>2, Places
      <4>. QED
        BY <1>0, <4>2, <4>3
    <3>3. CASE k = "input" /\ t = r
      <4>1. r # s
        BY DEF Submission
      <4>2. "input" \in Recorded(s) /\ "input" \notin Recorded(r) /\ job[p].epoch = fence[Lane]
        BY <1>0, <2>3, <3>3, <4>1 DEF Lands
      <4>3. job[p].at = "input"
        BY <2>3, <3>3 DEF Sites
      <4>4. Holding(p)
        BY <4>3, InvFacts DEF Holding, Claims, Course, WithClaim, Closing
      <4>5. job[p].epoch < fence[Lane]
        BY <2>3, <3>3, <4>2, <4>4 DEF QueueInv, Older
      <4>. QED
        BY <2>1, <4>2, <4>5, BaseTypes
    <3>. QED
      BY <3>1, <3>2, <3>3
  <2>. QED
    BY <2>1, <2>2, <2>3 DEF Writes
<1>3. ASSUME \/ Operate
             \/ \E t \in Submission : LeaseExpires(t)
             \/ \E n \in 1..MaxForeign : ForeignAppend(n)
      PROVE  \E i \in At("input", r)', j \in At("input", s)' : i < j
  BY <1>0, <1>1, <1>3, OthersQuiet DEF Inv
<1>4. CASE UNCHANGED vars
  BY <1>1, <1>4, LogKept DEF vars, canon
<1>. QED
  BY <1>2, <1>3, <1>4 DEF Next

LEMMA FifoInit == Init => FifoInputOrder
<1>. SUFFICES ASSUME Init PROVE FifoInputOrder
  OBVIOUS
<1>1. \A s \in Submission : "input" \notin Recorded(s)
  BY DEF Init, T!Init, Length, Recorded
<1>. QED
  BY <1>1 DEF FifoInputOrder, Holds

\* Canonical inputs follow the queue, although several processes claim, lose
\* their claims and recover in any order: a claim that has yet to record its
\* input is fenced off before any later input becomes canonical.
THEOREM InputsFollowTheQueue == Spec => []FifoInputOrder
  BY AlwaysInv, QueueInit, QueueStep, FifoInit, FifoStep, PTL DEF Spec

-----------------------------------------------------------------------------
(***************************************************************************)
(* What the ledger settles is canonical, and a completion is whole: as long *)
(* as no append uses up its refreshes, for a tolerant caller takes such a   *)
(* conflict for a record that is there already.                             *)
(***************************************************************************)
RefreshSuffices == \A p \in Process : job[p].refresh < MaxRefresh

\* What a process builds on is recorded.
Trusts(p) ==
  /\ job[p].at = "finalize" => "settled" \in Recorded(job[p].s)
  /\ job[p].at \in OnRun /\ "closed" \in job[p].knows => "closed" \in Recorded(job[p].s)
Sealed(s) ==
  sub[s].state = "settled" =>
    /\ "settled" \in Recorded(s)
    /\ sub[s].reserved # None /\ sub[s].outcome = sub[s].reserved.outcome
Rounded(s) ==
  "final" \in Recorded(s) /\ "prepared" \in Recorded(s) => Precedes("closed", s, "final", s)
CanonInv ==
  /\ \A p \in Process : Trusts(p)
  /\ \A s \in Submission : Sealed(s) /\ Rounded(s)

LEMMA TrustsKept ==
  ASSUME Base, Forward, NEW p \in Process, Trusts(p), NEW s \in Submission, s = job[p].s
  PROVE  /\ Stays(p) => Trusts(p)'
         /\ job'[p].at \notin OnRun \cup {"finalize"} => Trusts(p)'
         /\ \A o : Moves(p, "finalize", job[p].knows, o) /\ "settled" \in Recorded(s)' => Trusts(p)'
         /\ /\ job'[p].s = s /\ job'[p].at \in OnRun /\ job[p].at \in OnRun
            /\ "closed" \in job'[p].knows => "closed" \in job[p].knows
            => Trusts(p)'
<1>1. Recorded(s) \subseteq Recorded(s)'
  BY DEF Forward, LogForward
<1>2. ASSUME job'[p].s = s,
             job'[p].at = "finalize" => "settled" \in Recorded(s)',
             job'[p].at \in OnRun /\ "closed" \in job'[p].knows => "closed" \in Recorded(s)'
      PROVE  Trusts(p)'
  BY <1>2 DEF Trusts
<1>3. Stays(p) => Trusts(p)'
  BY <1>1, <1>2 DEF Stays, Moves, Trusts
<1>4. job'[p].at \notin OnRun \cup {"finalize"} => Trusts(p)'
  BY DEF Trusts
<1>5. ASSUME NEW o, Moves(p, "finalize", job[p].knows, o), "settled" \in Recorded(s)'
      PROVE Trusts(p)'
  BY <1>2, <1>5 DEF Moves, OnRun, InRunOf, Attempting
<1>6. ASSUME job'[p].s = s, job'[p].at \in OnRun, job[p].at \in OnRun,
             "closed" \in job'[p].knows => "closed" \in job[p].knows
      PROVE  Trusts(p)'
  BY <1>1, <1>2, <1>6 DEF Trusts, OnRun, InRunOf, Attempting
<1>. QED
  BY <1>3, <1>4, <1>5, <1>6

\* An append that leads on leads from a record that is there.
Leads(p, k, then) ==
  \/ then \notin {"finalize"} \cup OnRun
  \/ then = "finalize" /\ k = "settled"
  \/ then \in OnRun /\ (k = "closed" \/ job[p].at \in OnRun)

LEMMA AppendTrusts ==
  ASSUME Base, Forward, NEW p \in Process, Trusts(p), job[p].refresh < MaxRefresh,
         NEW k \in Kind, NEW b, NEW tolerant, NEW then, AppendOutcome(p, k, b, tolerant, then),
         NEW s \in Submission, s = job[p].s,
         Leads(p, k, then)
  PROVE  Trusts(p)'
<1>1. CASE Stays(p)
  BY <1>1, TrustsKept
<1>0. \/ then \notin {"finalize"} \cup OnRun
      \/ then = "finalize" /\ k = "settled"
      \/ then \in OnRun /\ (k = "closed" \/ job[p].at \in OnRun)
  BY DEF Leads
<1>2. CASE Goes(p, "release")
  BY <1>2, TrustsKept DEF Goes, Moves, OnRun, InRunOf, Attempting
<1>3. CASE Written(p, k, then) /\ k \in Recorded(s)'
  <2>1. job'[p].at = then /\ job'[p].s = s
        /\ (then \notin Forgetful => job'[p].knows = job[p].knows \cup {k})
    BY <1>3 DEF Written, Moves
  <2>2. CASE then = "finalize" /\ k = "settled"
    BY <1>3, <2>1, <2>2 DEF Trusts, OnRun, InRunOf, Attempting
  <2>3. CASE then \in OnRun /\ k = "closed"
    BY <1>3, <2>1, <2>3 DEF Trusts, OnRun, InRunOf, Attempting
  <2>4. CASE then \in OnRun /\ job[p].at \in OnRun /\ k # "closed"
    <3>1. then \notin Forgetful
      BY <2>4 DEF OnRun, InRunOf, Attempting, Forgetful, Closing
    <3>. QED
      BY <2>1, <2>4, <3>1, TrustsKept
  <2>5. CASE then \notin {"finalize"} \cup OnRun
    BY <2>1, <2>5, TrustsKept
  <2>. QED
    BY <1>0, <2>2, <2>3, <2>4, <2>5
<1>4. job[p].refresh # MaxRefresh
  BY AttemptConstants, BaseTypes DEF Job
<1>. QED
  BY <1>1, <1>2, <1>3, <1>4, WrittenFacts DEF AppendOutcome, Assumed

LEMMA ProcessTrusts ==
  ASSUME Inv, Forward, NEW p \in Process, Trusts(p), job[p].refresh < MaxRefresh,
         \/ Step(p) \/ Watch(p) \/ Halt(p) \/ Renew(p) \/ Crash(p) \/ Fail(p)
         \/ \E s \in Submission : Claim(p, s) \/ Sweep(p, s)
  PROVE  Trusts(p)'
<1>0. PICK s \in Submission : s = job[p].s
  BY BaseTypes DEF Inv
<1>a. Base /\ Local(p) /\ Course(p)
  BY InvFacts
<1>b. /\ \A at : at \in OnRun <=> at \in {"respond", "prepare", "execute", "close", "complete",
         "model", "halt"}
      /\ \A k : k \in {"input", "response", "prepared", "closed", "unknown", "final", "abort",
         "settled"} => k \in Kind
  BY DEF OnRun, InRunOf, Attempting, Kind
<1>c. job'[p].at \notin OnRun \cup {"finalize"} => Trusts(p)'
  BY <1>0, <1>a, TrustsKept
<1>d. /\ \A at, kinds, o : Moves(p, at, kinds, o) /\ at \notin OnRun \cup {"finalize"} => Trusts(p)'
      /\ \A at : Goes(p, at) /\ at \notin OnRun \cup {"finalize"} => Trusts(p)'
      /\ Rests(p) => Trusts(p)'
  BY <1>b, <1>c DEF Moves, Goes, Rests
<1>1. CASE ApplyInput(p)
  <2>1. Leads(p, "input", "marker")
    BY <1>b DEF Leads
  <2>. QED
    BY <1>0, <1>a, <1>b, <1>d, <1>1, <2>1, ApplyInputMoves, AppendTrusts
<1>2. CASE AppendUnknown(p)
  <2>1. Leads(p, "unknown", "park")
    BY <1>b DEF Leads
  <2>. QED
    BY <1>0, <1>a, <1>b, <1>d, <1>2, <2>1, AppendUnknownMoves, AppendTrusts
<1>3. CASE CompleteRun(p)
  <2>1. Leads(p, "final", "reserve")
    BY <1>b DEF Leads
  <2>. QED
    BY <1>0, <1>a, <1>b, <1>d, <1>3, <2>1, CompleteRunMoves, AppendTrusts
<1>4. CASE RecordSettlement(p)
  <2>1. Leads(p, "settled", "finalize")
    BY <1>b DEF Leads
  <2>. QED
    BY <1>0, <1>a, <1>b, <1>d, <1>4, <2>1, RecordSettlementMoves, AppendTrusts
<1>5. CASE RecordAbort(p)
  <2>1. Leads(p, "abort", "audit")
    BY <1>b DEF Leads
  <2>. QED
    BY <1>0, <1>a, <1>b, <1>d, <1>5, <2>1, RecordAbortMoves, AppendTrusts
<1>6. CASE AuditOpenCalls(p)
  <2>1. Leads(p, "unknown", "reserve")
    BY <1>b DEF Leads
  <2>. QED
    BY <1>0, <1>a, <1>b, <1>d, <1>6, <2>1, AuditMoves, AppendTrusts
<1>7. CASE CommitResponse(p)
  <2>1. job[p].at = "respond" => Leads(p, "response", "model")
    BY <1>b DEF Leads
  <2>. QED
    BY <1>0, <1>a, <1>b, <1>d, <1>7, <2>1, CommitResponseMoves, AppendTrusts
<1>8. CASE PrepareCall(p)
  <2>1. job[p].at = "prepare" => Leads(p, "prepared", "execute")
    BY <1>b DEF Leads
  <2>. QED
    BY <1>0, <1>a, <1>b, <1>d, <1>8, <2>1, PrepareCallMoves, AppendTrusts
<1>9. CASE CommitResults(p)
  <2>1. Leads(p, "closed", "model")
    BY <1>b DEF Leads
  <2>. QED
    BY <1>0, <1>a, <1>b, <1>d, <1>9, <2>1, CommitResultsMoves, AppendTrusts
<1>10. CASE AppendClosedCall(p)
  <2>1. Leads(p, "closed", IF Repairing(p) THEN "release" ELSE "model")
    BY <1>b DEF Leads
  <2>. QED
    BY <1>0, <1>a, <1>b, <1>d, <1>10, <2>1, AppendClosedCallMoves, AppendTrusts
<1>11. CASE RecordHalt(p)
  <2>1. job[p].at = "halt" /\ job[p].plan \in InRunOf
    BY <1>a, <1>11, RecordHaltMoves DEF Course
  <2>2. Leads(p, "abort", job[p].plan)
    BY <2>1 DEF Leads, OnRun, InRunOf, Attempting
  <2>. QED
    BY <1>0, <1>a, <1>b, <1>11, <2>1, <2>2, RecordHaltMoves, AppendTrusts
<1>12. CASE Attach(p)
  BY <1>a, <1>b, <1>d, <1>12, AttachMoves
<1>13. CASE Load(p)
  BY <1>a, <1>b, <1>d, <1>13, LoadMoves
<1>14. CASE MarkInput(p)
  BY <1>a, <1>b, <1>d, <1>14, MarkMoves
<1>15. CASE Park(p)
  BY <1>a, <1>b, <1>d, <1>15, ParkMoves
<1>16. CASE RunFails(p)
  BY <1>a, <1>b, <1>d, <1>16, RunFailsMoves
<1>17. CASE Reserve(p)
  BY <1>a, <1>b, <1>d, <1>17, ReserveMoves
<1>18. CASE Finalize(p)
  BY <1>a, <1>b, <1>d, <1>18, FinalizeMoves
<1>19. CASE Release(p)
  BY <1>a, <1>b, <1>d, <1>19, ReleaseMoves
<1>20. CASE Wake(p)
  BY <1>a, <1>b, <1>d, <1>20, WakeMoves
<1>21. CASE Seek(p)
  BY <1>a, <1>b, <1>d, <1>21, SeekMoves
<1>22. CASE Halt(p)
  BY <1>a, <1>b, <1>d, <1>22, HaltMoves
<1>23. CASE Read(p)
  <2>. DEFINE at == PlanOf(job[p].row, Recorded(s))
  <2>1. Moves(p, at, Recorded(s), OutcomeOf(job[p].row)) /\ Recorded(s)' = Recorded(s)
    BY <1>0, <1>a, <1>23, ReadMoves, StoresKept
  <2>2. at \in {"finalize", "record", "abort", "input", "marker", "reconcile"}
    BY Targets
  <2>3. at = "finalize" => "settled" \in Recorded(s)
    BY DEF PlanOf
  <2>. HIDE DEF at
  <2>4. job'[p].at = at /\ job'[p].s = s
    BY <1>0, <2>1 DEF Moves
  <2>. QED
    BY <1>0, <1>b, <1>c, <2>1, <2>2, <2>3, <2>4 DEF Trusts
<1>24. CASE Inspect(p)
  <2>. DEFINE row == SnapshotOf(s)
              plan == Repair(row, job[p].knows)
              at == IF plan \in {"wake", "finalize"} THEN plan ELSE "seek"
              out == OutcomeOf(row)
  <2>1. /\ Rests(p) \/ Moves(p, at, job[p].knows, out)
        /\ job[p].at = "inspect" /\ Recorded(s)' = Recorded(s)
    BY <1>0, <1>a, <1>24, InspectMoves, StoresKept
  <2>2. at \in {"wake", "finalize", "seek"}
    OBVIOUS
  <2>3. at = "finalize" => "settled" \in job[p].knows
    <3>1. plan = "finalize" => PlanOf(row, job[p].knows) = "finalize"
      BY DEF Repair
    <3>. QED
      BY <3>1 DEF PlanOf
  <2>4. job[p].knows \subseteq Recorded(s)
    BY <1>0, <1>a, <2>1 DEF Local, Knows
  <2>. HIDE DEF at, out
  <2>. QED
    BY <1>0, <1>a, <1>b, <1>d, <2>1, <2>2, <2>3, <2>4, TrustsKept
<1>25. CASE ReadTail(p)
  <2>1. job[p].at = "tail" /\ \E at \in Position, kinds \in {job[p].knows, Recorded(job[p].s)} :
          /\ Moves(p, at, kinds, job[p].outcome)
          /\ at \in {"input", "marker", "release"} \/ at = job[p].plan
    BY <1>a, <1>25, ReadTailMoves
  <2>2. p \in Recoverer /\ job[p].plan \in Plans
    BY <1>a, <2>1 DEF Course, ForRecovery, Planning
  <2>3. job'[p].at \in {"input", "marker", "release"} \cup Plans
    BY <2>1, <2>2 DEF Moves
  <2>. QED
    BY <1>b, <1>c, <2>3 DEF Plans
<1>26. CASE Attend(p)
  BY <1>a, <1>b, <1>c, <1>26, AttendMoves DEF Course
<1>27. CASE Acquire(p)
  BY <1>a, <1>b, <1>c, <1>d, <1>27, AcquireMoves
<1>28. CASE Reconcile(p)
  <2>. DEFINE kinds == IF Repairing(p) THEN job[p].knows ELSE Recorded(s)
              answer == IF Repairing(p) /\ ~job[p].row.answered THEN None ELSE consent[s]
              at == Triage(p, kinds, answer)
  <2>1. Moves(p, at, kinds, job[p].outcome) /\ Recorded(s)' = Recorded(s)
    BY <1>0, <1>a, <1>28, ReconcileMoves, StoresKept
  <2>2. at \in {"park", "unknown", "answer", "release", "model"}
    BY Targets
  <2>3. at = "model" => kinds = Recorded(s)
    BY DEF Triage
  <2>. HIDE DEF at, kinds, answer
  <2>4. job'[p].at = at /\ job'[p].s = s /\ (at = "model" => job'[p].knows = kinds)
    BY <1>0, <2>1 DEF Moves, Forgetful, Closing
  <2>. QED
    BY <1>0, <1>b, <1>c, <2>1, <2>2, <2>3, <2>4 DEF Trusts
<1>29. CASE RunOn(p)
  <2>1. PICK at \in Ways(job[p].knows) : Moves(p, at, job[p].knows, "completed")
    BY <1>a, <1>29, RunOnMoves
  <2>2. at \in {"reserve", "respond", "complete", "prepare", "execute"} /\ job[p].at = "model"
    BY <1>a, <1>29, <2>1, RunOnMoves, Targets
  <2>3. job'[p].at = at /\ job'[p].s = s /\ (at # "reserve" => job'[p].knows = job[p].knows)
    BY <1>0, <2>1, <2>2 DEF Moves, Forgetful, Closing
  <2>. QED
    BY <1>0, <1>a, <1>b, <2>2, <2>3, TrustsKept
<1>30. CASE Execute(p)
  <2>1. job'[p].at = "close" /\ job'[p].s = s /\ job'[p].knows = job[p].knows
        /\ job[p].at = "execute"
    BY <1>0, <1>a, <1>30, ExecuteMoves DEF Moves, Forgetful, Closing
  <2>. QED
    BY <1>0, <1>a, <1>b, <2>1, TrustsKept
<1>31. CASE Watch(p)
  <2>1. job'[p].at = "halt" /\ job'[p].s = s /\ job'[p].knows = job[p].knows /\ job[p].at \in OnRun
    BY <1>0, <1>a, <1>31, WatchMoves DEF Moves, Forgetful, Closing, InRun, OnRun, InRunOf
  <2>. QED
    BY <1>0, <1>a, <1>b, <2>1, TrustsKept
<1>32. CASE Renew(p)
  <2>1. job[p].at \in OnRun /\ (Goes(p, job[p].at) \/ Goes(p, "release"))
    BY <1>a, <1>32, RenewMoves DEF InRun, OnRun, InRunOf
  <2>2. Goes(p, job[p].at) =>
          job'[p].at = job[p].at /\ job'[p].s = s /\ job'[p].knows = job[p].knows
    BY <1>0, <1>b, <2>1 DEF Goes, Moves, Forgetful, Closing
  <2>. QED
    BY <1>0, <1>a, <1>b, <1>d, <2>1, <2>2, TrustsKept
<1>33. CASE Crash(p) \/ Fail(p)
  BY <1>a, <1>b, <1>d, <1>33, FaultMoves
<1>34. ASSUME NEW r \in Submission, Claim(p, r) PROVE Trusts(p)'
  BY <1>a, <1>b, <1>c, <1>34, ClaimMoves
<1>35. ASSUME NEW r \in Submission, Sweep(p, r) PROVE Trusts(p)'
  BY <1>a, <1>b, <1>c, <1>35, SweepMoves
<1>. QED
  BY <1>1, <1>2, <1>3, <1>4, <1>5, <1>6, <1>7, <1>8, <1>9, <1>10, <1>11, <1>12, <1>13, <1>14,
     <1>15, <1>16, <1>17, <1>18, <1>19, <1>20, <1>21, <1>22, <1>23, <1>24, <1>25, <1>26, <1>27,
     <1>28, <1>29, <1>30, <1>31, <1>32, <1>33, <1>34, <1>35 DEF Step

LEMMA CanonInit == Init => CanonInv
<1>. SUFFICES ASSUME Init PROVE CanonInv
  OBVIOUS
<1>1. \A p \in Process : job[p].at = "idle"
  BY DEF Init, Idle
<1>2. \A s \in Submission : sub[s].state = "ready"
  BY DEF Init, L!Fresh
<1>3. \A s : Recorded(s) = {}
  BY Places DEF Init, T!Init, Length, At
<1>. QED
  BY <1>1, <1>2, <1>3 DEF CanonInv, Trusts, Sealed, Rounded, OnRun, InRunOf, Attempting

\* A settlement is finalized from its record.
LEMMA SealedStep ==
  ASSUME Inv, CanonInv, Forward, NEW p \in Process, Touches(p), NEW s \in Submission
  PROVE  Sealed(s)'
<1>1. Sealed(s) /\ Trusts(p) /\ RowForward(s) /\ Recorded(s) \subseteq Recorded(s)'
  BY DEF CanonInv, Forward, LedgerForward, LogForward
<1>2. CASE Same(s)
  BY <1>1, <1>2 DEF Same, Sealed, RowForward
<1>3. CASE s = job[p].s /\ (Marked(p, s) \/ Parked(p, s) \/ Reserved(p, s))
  BY <1>1, <1>3 DEF Marked, Parked, Reserved, Sealed, RowForward
<1>4. CASE s = job[p].s /\ Finalized(p, s)
  BY <1>1, <1>4 DEF Finalized, Trusts, Sealed
<1>. QED
  BY <1>2, <1>3, <1>4 DEF Touches

\* A completion is recorded by the live Attempt, which knows its Call closed;
\* and no Call is prepared behind a completion.
LEMMA RoundedStep ==
  ASSUME Inv, CanonInv, Forward, NEW p \in Process, Prints(p), NEW s \in Submission
  PROVE  Rounded(s)'
<1>0. {"closed", "final", "prepared"} \subseteq Kind
      /\ {"closed", "final", "prepared"} \subseteq RunKinds
  BY DEF Kind, RunKinds
<1>1. Base /\ Rounded(s) /\ Trusts(p) /\ Local(p)
  BY InvFacts DEF CanonInv
<1>a. Length \in Nat /\ \A l, n : n \in At(l, s) => n \in 1..Length
  BY <1>1, LogTypes DEF Base, TypeOK, At
<1>b. \A k \in Kind : (k \in Recorded(s) <=> At(k, s) # {})
      /\ (k \in Recorded(s)' <=> At(k, s)' # {})
  <2>1. \A k \in Kind : k \in Recorded(s) <=> At(k, s) # {}
    BY Places
  <2>2. \A k \in Kind : k \in Recorded(s)' <=> At(k, s)' # {}
    BY DEF Recorded, At
  <2>. QED
    BY <2>1, <2>2
<1>2. ASSUME \A k \in Kind : At(k, s)' = At(k, s) PROVE Rounded(s)'
  BY <1>0, <1>1, <1>2, <1>b DEF Rounded, Precedes
<1>3. ASSUME NEW l \in Kind, s = job[p].s, l \notin Recorded(s), l \in Recorded(s)',
             <<job[p].at, l>> \in Sites, At(l, s)' = {Length + 1},
             \A m \in Kind \ {l} : At(m, s)' = At(m, s)
      PROVE  Rounded(s)'
  <2>1. CASE l \notin {"final", "prepared", "closed"}
    <3>1. \A k \in {"closed", "final", "prepared"} : At(k, s)' = At(k, s)
      BY <1>0, <1>3, <2>1
    <3>. QED
      BY <1>0, <1>1, <1>b, <3>1 DEF Rounded, Precedes
  <2>2. CASE l = "closed"
    <3>1. At("final", s)' = At("final", s) /\ At("prepared", s)' = At("prepared", s)
      BY <1>0, <1>3, <2>2
    <3>2. At("closed", s) = {}
      BY <1>0, <1>3, <1>b, <2>2
    <3>3. ~("final" \in Recorded(s) /\ "prepared" \in Recorded(s))
      BY <1>1, <3>2 DEF Rounded, Precedes
    <3>. QED
      BY <1>0, <1>b, <3>1, <3>3 DEF Rounded
  <2>3. CASE l \in {"final", "prepared"}
    <3>1. Live(p) /\ job[p].at \in {"complete", "prepare"}
          /\ (l = "final" <=> job[p].at = "complete")
      BY <1>0, <1>3, <2>3, RunWritten DEF Prints, Sites
    <3>2. p \in Worker /\ job[p].at \in OnRun /\ Where(p) = job[p].at
      BY <3>1, InvFacts DEF Course, ForWorkers, OnRun, InRunOf, Attempting, Where
    <3>3. Recorded(s) \cap RunKinds \subseteq job[p].knows
      BY <1>1, <1>3, <3>1, <3>2 DEF Local, Accurate
    <3>4. CASE l = "prepared"
      <4>1. "final" \notin Recorded(s)
        BY <1>0, <1>1, <3>1, <3>2, <3>3, <3>4 DEF Local, Placed
      <4>. QED
        BY <1>0, <1>3, <1>b, <3>4, <4>1 DEF Rounded
    <3>5. CASE l = "final"
      <4>1. At("closed", s)' = At("closed", s) /\ At("prepared", s)' = At("prepared", s)
        BY <1>0, <1>3, <3>5
      <4>2. "prepared" \in Recorded(s) => "closed" \in Recorded(s)
        BY <1>0, <1>1, <1>3, <3>1, <3>2, <3>3, <3>5 DEF Local, Placed, Trusts
      <4>3. ASSUME "prepared" \in Recorded(s) PROVE Precedes("closed", s, "final", s)'
        <5>1. PICK i \in At("closed", s) : TRUE
          BY <1>0, <1>b, <4>2, <4>3
        <5>2. i \in At("closed", s)' /\ Length + 1 \in At("final", s)' /\ i < Length + 1
          BY <1>3, <1>a, <3>5, <4>1, <5>1
        <5>. QED
          BY <5>2 DEF Precedes
      <4>. QED
        BY <1>0, <1>b, <4>1, <4>3 DEF Rounded
    <3>. QED
      BY <2>3, <3>4, <3>5
  <2>. QED
    BY <2>1, <2>2, <2>3
<1>. QED
  BY <1>1, <1>2, <1>3, LogOrder DEF Prints

LEMMA CanonStep == Inv /\ CanonInv /\ RefreshSuffices /\ [Next]_vars => CanonInv'
<1>. SUFFICES ASSUME Inv, CanonInv, RefreshSuffices, [Next]_vars PROVE CanonInv'
  OBVIOUS
<1>0. Base
  BY DEF Inv
<1>1. ASSUME NEW p \in Process,
             \/ Step(p) \/ Watch(p) \/ Halt(p) \/ Renew(p) \/ Crash(p) \/ Fail(p)
             \/ \E s \in Submission : Claim(p, s) \/ Sweep(p, s)
      PROVE  CanonInv'
  <2>1. Regular(p) /\ Prints(p)
    BY <1>0, <1>1, StepRegular, WatchRegular, HaltRegular, RenewRegular, FaultRegular, ClaimRegular,
       SweepRegular, ProcessPrints
  <2>2. Forward /\ Apart(p)
    BY <2>1 DEF Regular
  <2>3. Trusts(p)'
    BY <1>1, <2>2, ProcessTrusts DEF CanonInv, RefreshSuffices
  <2>4. ASSUME NEW q \in Process, q # p PROVE Trusts(q)'
    <3>1. PICK r \in Submission : r = job[q].s
      BY <1>0, BaseTypes
    <3>2. job'[q] = job[q] /\ Recorded(r) \subseteq Recorded(r)' /\ Trusts(q)
      BY <2>2, <2>4 DEF Apart, Forward, LogForward, CanonInv
    <3>. QED
      BY <3>1, <3>2 DEF Trusts
  <2>5. \A s \in Submission : Sealed(s)' /\ Rounded(s)'
    BY <2>1, <2>2, SealedStep, RoundedStep DEF Prints
  <2>. QED
    BY <2>3, <2>4, <2>5 DEF CanonInv
<1>2. ASSUME job' = job, \A r \in Submission : Same(r) /\ Recorded(r)' = Recorded(r),
             \A k \in Kind, r \in Submission : At(k, r)' = At(k, r),
             \A r \in Submission : sub[r].reserved # None => sub'[r].reserved = sub[r].reserved
      PROVE  CanonInv'
  <2>1. ASSUME NEW p \in Process PROVE Trusts(p)'
    <3>1. PICK r \in Submission : r = job[p].s
      BY <1>0, BaseTypes
    <3>. QED
      BY <1>2, <3>1 DEF CanonInv, Trusts
  <2>2. ASSUME NEW s \in Submission PROVE Sealed(s)'
    BY <1>2, <2>2 DEF CanonInv, Sealed, Same
  <2>3. ASSUME NEW s \in Submission PROVE Rounded(s)'
    <3>1. {"closed", "final"} \subseteq Kind
      BY DEF Kind
    <3>. QED
      BY <1>2, <2>3, <3>1 DEF CanonInv, Rounded, Precedes
  <2>. QED
    BY <2>1, <2>2, <2>3 DEF CanonInv
<1>3. ASSUME \/ Operate
             \/ \E s \in Submission : LeaseExpires(s)
             \/ \E i \in 1..MaxForeign : ForeignAppend(i)
      PROVE  CanonInv'
  <2>1. Forward /\ job' = job
    BY <1>0, <1>3, OthersForward
  <2>. QED
    BY <1>0, <1>2, <1>3, <2>1, OthersQuiet DEF Forward, LedgerForward, RowForward
<1>4. CASE UNCHANGED vars
  <2>1. /\ job' = job /\ \A r \in Submission : Recorded(r)' = Recorded(r)
        /\ \A k \in Kind, r \in Submission : At(k, r)' = At(k, r)
    BY <1>4, LogKept DEF vars, canon
  <2>2. sub' = sub
    BY <1>4 DEF vars, ledger
  <2>. QED
    BY <1>2, <2>1, <2>2, Untouched
<1>. QED
  BY <1>1, <1>3, <1>4 DEF Next

LEMMA AlwaysCanon == Spec /\ []RefreshSuffices => []CanonInv
  BY AlwaysInv, CanonInit, CanonStep, PTL DEF Spec

\* The ledger never runs ahead of history: a row is settled from its canonical
\* settlement record, with the outcome that was reserved for it (terminalize,
\* finalizeSettlement) - unless a tolerant append used up its refreshes.
THEOREM SettlementsAreCanonical == Spec /\ []RefreshSuffices => []SettlementIsCanonical
<1>1. Inv /\ CanonInv => SettlementIsCanonical
  <2>. SUFFICES ASSUME Inv, CanonInv, NEW s \in Submission, sub[s].state = "settled"
                PROVE  \E i \in At("settled", s) : log[Lane][i].body = sub[s].outcome
    BY DEF SettlementIsCanonical
  <2>1. "settled" \in Kind /\ RowHistory(s) /\ Sealed(s)
    BY DEF Kind, Inv, RowInv, CanonInv
  <2>2. At("settled", s) # {}
    BY <2>1, Places DEF Sealed
  <2>. QED
    BY <2>1, <2>2 DEF Sealed, RowHistory
<1>. QED
  BY <1>1, AlwaysInv, AlwaysCanon, PTL

\* A completed Run is whole: its completion is recorded before a completed
\* outcome is reserved, and behind the close of every Call it prepared.
THEOREM CompletionsAreWhole == Spec /\ []RefreshSuffices => []CompletionIsWhole
<1>1. Inv /\ CanonInv => CompletionIsWhole
  BY DEF Inv, RowInv, RowHistory, CanonInv, Rounded, CompletionIsWhole, Holds
<1>. QED
  BY <1>1, AlwaysInv, AlwaysCanon, PTL

-----------------------------------------------------------------------------
(***************************************************************************)
(* Why a process is where it is: aborts are recorded because they were      *)
(* asked for, outcomes other than an abort are reserved by Runs that have   *)
(* an input, and a Run is parked because its Call is open and recorded so.  *)
(***************************************************************************)
Means(p) ==
  /\ job[p].at = "park" => "unknown" \in Recorded(job[p].s)
  /\ p \in Worker /\ job[p].at \in {"unknown", "park"} /\ Live(p) => OpenIn(Recorded(job[p].s))
  /\ job[p].at = "read" /\ job[p].row.abort => sub[job[p].s].abort
  /\ job[p].at \in {"abort", "halt"} => sub[job[p].s].abort
  /\ job[p].at \in Planning /\ job[p].plan = "abort" => sub[job[p].s].abort
  /\ job[p].at = "reserve" /\ job[p].outcome # "aborted" => "input" \in Recorded(job[p].s)
  /\ p \in Worker /\ job[p].at \notin {"idle", "release"} => job[p].token # 0
RowMeans(s) ==
  /\ "abort" \in Recorded(s) => sub[s].abort
  /\ sub[s].reserved # None /\ sub[s].reserved.outcome # "aborted" => "input" \in Recorded(s)
MeansInv ==
  /\ \A p \in Process : Means(p)
  /\ \A s \in Submission : RowMeans(s)

\* An abort intent is never withdrawn.
LEMMA AbortStays ==
  ASSUME Base, Forward, NEW s \in Submission, sub[s].abort
  PROVE  sub'[s].abort
<1>1. [LP!Next]_(LP!vars)
  BY DEF Forward, LedgerForward
<1>2. [LP!Durable]_(LP!vars)
  BY <1>1, NoneAbsent, LedgerConstants, LP!NextDurable DEF Base, LedgerInv
<1>. QED
  BY <1>2 DEF LP!Durable, LP!vars

\* Positions that ask for nothing.
Plain ==
  {"idle", "load", "input", "marker", "reconcile", "answer", "model", "respond", "prepare",
   "execute", "close", "complete", "audit", "record", "finalize", "release", "wake", "inspect"}

LEMMA MeansQuiet ==
  ASSUME NEW p \in Process, job'[p].at \in Plain,
         p \in Worker /\ job'[p].at \notin {"idle", "release"} => job'[p].token # 0
  PROVE  Means(p)'
  BY DEF Means, Plain, Planning

LEMMA MeansKept ==
  ASSUME Base, Forward, NEW p \in Process, Means(p), job[p].at \notin {"idle", "release"}
  PROVE  /\ \A at, kinds, o : Moves(p, at, kinds, o) /\ at \in Plain => Means(p)'
         /\ \A at : Goes(p, at) /\ at \in Plain => Means(p)'
         /\ Rests(p) => Means(p)'
         /\ Stays(p) /\ UNCHANGED canon => Means(p)'
<1>1. ASSUME NEW at, NEW kinds, NEW o, Moves(p, at, kinds, o), at \in Plain PROVE Means(p)'
  BY <1>1, MeansQuiet DEF Moves, Means
<1>2. Rests(p) => Means(p)'
  BY MeansQuiet DEF Rests, Plain
<1>3. ASSUME Stays(p), UNCHANGED canon PROVE Means(p)'
  <2>1. PICK s \in Submission : s = job[p].s
    BY BaseTypes
  <2>2. Recorded(s)' = Recorded(s) /\ fence' = fence /\ (sub[s].abort => sub'[s].abort)
    BY <1>3, LogKept, AbortStays DEF canon
  <2>. QED
    BY <1>3, <2>1, <2>2 DEF Stays, Moves, Keeps, Means, Live
<1>. QED
  BY <1>1, <1>2, <1>3 DEF Goes

LEMMA AppendMeans ==
  ASSUME Base, Forward, NEW p \in Process, Means(p), job[p].at \notin {"idle", "release"},
         job[p].refresh < MaxRefresh,
         NEW k \in Kind, NEW b, NEW tolerant, NEW then, AppendOutcome(p, k, b, tolerant, then),
         NEW s \in Submission, s = job[p].s
  PROVE  \/ Means(p)'
         \/ /\ Written(p, k, then) /\ k \in Recorded(s)' /\ fence' = fence
            /\ Recorded(s)' \in {Recorded(s), Recorded(s) \cup {k}}
<1>1. job[p].refresh # MaxRefresh
  BY AttemptConstants, BaseTypes DEF Job
<1>2. CASE UNCHANGED canon /\ Stays(p)
  BY <1>2, MeansKept
<1>3. CASE Goes(p, "release")
  BY <1>3, MeansKept DEF Plain
<1>. QED
  BY <1>1, <1>2, <1>3, WrittenFacts

LEMMA ProcessMeans ==
  ASSUME Inv, Forward, NEW p \in Process, Means(p), job[p].refresh < MaxRefresh,
         \/ Step(p) \/ Watch(p) \/ Halt(p) \/ Renew(p) \/ Crash(p) \/ Fail(p)
         \/ \E s \in Submission : Claim(p, s) \/ Sweep(p, s)
  PROVE  Means(p)'
<1>0. PICK s \in Submission : s = job[p].s
  BY BaseTypes DEF Inv
<1>a. /\ Base /\ Local(p) /\ Course(p) /\ LedgerInv /\ job[p].row \in Snapshot
      /\ (p \in Worker => ~Repairing(p)) /\ (p \in Recoverer <=> Repairing(p))
  BY InvFacts, BaseTypes
<1>b. /\ \A k : k \in {"input", "response", "prepared", "closed", "unknown", "final", "abort",
         "settled"} => k \in Kind
      /\ "input" \notin RunKinds
  BY DEF Kind, RunKinds
<1>c. Recorded(s) \subseteq Recorded(s)' /\ (sub[s].abort => sub'[s].abort)
  BY <1>a, AbortStays DEF Forward, LogForward
<1>d. ASSUME job[p].at \notin {"idle", "release"}
      PROVE  /\ \A at, kinds, o : Moves(p, at, kinds, o) /\ at \in Plain => Means(p)'
             /\ \A at : Goes(p, at) /\ at \in Plain => Means(p)'
             /\ Rests(p) => Means(p)'
  BY <1>a, <1>d, MeansKept
\* A plan that is kept keeps its reason.
<1>e. ASSUME job'[p].s = s, job'[p].at \in Planning, job'[p].plan = job[p].plan,
             job[p].at \in Planning, p \in Worker => job'[p].token # 0
      PROVE  Means(p)'
  BY <1>0, <1>c, <1>e DEF Means, Planning
\* An outcome that needs an input is reserved by a Run.
<1>f. ASSUME job'[p].s = s, job'[p].at = "reserve", job'[p].token = job[p].token,
             job[p].at \notin {"idle", "release"},
             job'[p].outcome = "aborted" \/ job[p].at \in OnRun
      PROVE  Means(p)'
  BY <1>0, <1>a, <1>c, <1>f DEF Means, Planning, Local, Knows
<1>1. CASE ApplyInput(p)
  <2>1. job[p].at = "input" /\ AppendOutcome(p, "input", "-", FALSE, "marker")
    BY <1>a, <1>1, ApplyInputMoves
  <2>2. Written(p, "input", "marker") => Means(p)'
    BY <1>d, <2>1 DEF Written, Plain
  <2>. QED
    BY <1>0, <1>a, <1>b, <2>1, <2>2, AppendMeans
<1>2. CASE AppendUnknown(p)
  <2>1. job[p].at = "unknown" /\ AppendOutcome(p, "unknown", "-", TRUE, "park")
    BY <1>a, <1>2, AppendUnknownMoves
  <2>2. ASSUME Written(p, "unknown", "park"), "unknown" \in Recorded(s)', fence' = fence,
               Recorded(s)' \in {Recorded(s), Recorded(s) \cup {"unknown"}}
        PROVE  Means(p)'
    <3>1. /\ job'[p].at = "park" /\ job'[p].s = s /\ job'[p].token = job[p].token
          /\ job'[p].epoch = job[p].epoch
      BY <1>0, <2>2 DEF Written, Moves, Closing
    <3>2. OpenIn(Recorded(s)) => OpenIn(Recorded(s)')
      BY <2>2 DEF OpenIn
    <3>3. Live(p)' => Live(p)
      BY <2>2, <3>1 DEF Live
    <3>. QED
      BY <1>0, <2>1, <2>2, <3>1, <3>2, <3>3 DEF Means, Planning
  <2>. QED
    BY <1>0, <1>a, <1>b, <2>1, <2>2, AppendMeans
<1>3. CASE CompleteRun(p)
  <2>1. job[p].at = "complete" /\ AppendOutcome(p, "final", "-", FALSE, "reserve")
    BY <1>a, <1>3, CompleteRunMoves
  <2>2. Written(p, "final", "reserve") => Means(p)'
    BY <1>0, <1>f, <2>1 DEF Written, Moves, Closing, OnRun, InRunOf, Attempting
  <2>. QED
    BY <1>0, <1>a, <1>b, <2>1, <2>2, AppendMeans
<1>4. CASE RecordSettlement(p)
  <2>1. job[p].at = "record" /\ AppendOutcome(p, "settled", job[p].outcome, TRUE, "finalize")
    BY <1>a, <1>4, RecordSettlementMoves
  <2>2. Written(p, "settled", "finalize") => Means(p)'
    BY <1>d, <2>1 DEF Written, Plain
  <2>. QED
    BY <1>0, <1>a, <1>b, <2>1, <2>2, AppendMeans
<1>5. CASE RecordAbort(p)
  <2>1. job[p].at = "abort" /\ (Goes(p, "audit") \/ AppendOutcome(p, "abort", "-", TRUE, "audit"))
    BY <1>a, <1>5, RecordAbortMoves
  <2>2. Written(p, "abort", "audit") \/ Goes(p, "audit") => Means(p)'
    BY <1>d, <2>1 DEF Written, Plain
  <2>. QED
    BY <1>0, <1>a, <1>b, <2>1, <2>2, AppendMeans
<1>6. CASE AuditOpenCalls(p)
  <2>1. job[p].at = "audit" /\ job[p].outcome = "aborted"
    BY <1>a, <1>6, AuditMoves DEF Course
  <2>2. Written(p, "unknown", "reserve") \/ Goes(p, "reserve") => Means(p)'
    BY <1>0, <1>f, <2>1 DEF Written, Goes, Moves, Closing
  <2>. QED
    BY <1>0, <1>a, <1>b, <1>6, <2>1, <2>2, AuditMoves, AppendMeans
<1>7. CASE CommitResponse(p)
  <2>1. job[p].at = "respond" /\ AppendOutcome(p, "response", "-", FALSE, "model")
    BY <1>a, <1>7, CommitResponseMoves
  <2>2. Written(p, "response", "model") => Means(p)'
    BY <1>d, <2>1 DEF Written, Plain
  <2>. QED
    BY <1>0, <1>a, <1>b, <2>1, <2>2, AppendMeans
<1>8. CASE PrepareCall(p)
  <2>1. job[p].at = "prepare" /\ AppendOutcome(p, "prepared", "-", FALSE, "execute")
    BY <1>a, <1>8, PrepareCallMoves
  <2>2. Written(p, "prepared", "execute") => Means(p)'
    BY <1>d, <2>1 DEF Written, Plain
  <2>. QED
    BY <1>0, <1>a, <1>b, <2>1, <2>2, AppendMeans
<1>9. CASE CommitResults(p)
  <2>1. job[p].at = "close" /\ AppendOutcome(p, "closed", "-", FALSE, "model")
    BY <1>a, <1>9, CommitResultsMoves
  <2>2. Written(p, "closed", "model") => Means(p)'
    BY <1>d, <2>1 DEF Written, Plain
  <2>. QED
    BY <1>0, <1>a, <1>b, <2>1, <2>2, AppendMeans
<1>10. CASE AppendClosedCall(p)
  <2>1. (IF Repairing(p) THEN "release" ELSE "model") \in Plain
    BY DEF Plain
  <2>. QED
    BY <1>0, <1>a, <1>b, <1>d, <1>10, <2>1, AppendClosedCallMoves, AppendMeans DEF Written
<1>11. CASE RecordHalt(p)
  <2>1. job[p].at = "halt" /\ job[p].plan \in Plain
    BY <1>a, <1>11, RecordHaltMoves DEF Course, InRunOf, Attempting, Plain
  <2>. QED
    BY <1>0, <1>a, <1>b, <1>d, <1>11, <2>1, RecordHaltMoves, AppendMeans DEF Written
<1>12. CASE Attach(p)
  <2>1. job[p].at = "claimed" /\ job[p].token # 0
    BY <1>a, <1>12, AttachMoves DEF Course, WithClaim
  <2>2. Goes(p, "tail") => Means(p)'
    BY <1>0, <1>e, <2>1 DEF Goes, Moves, Keeps, Planning, Forgetful, Closing
  <2>. QED
    BY <1>a, <1>d, <1>12, <2>1, <2>2, AttachMoves DEF Plain
<1>13. CASE Load(p)
  <2>1. /\ job'[p].at = "read" /\ job'[p].s = s /\ job'[p].token = job[p].token
        /\ job'[p].row = SnapshotOf(s) /\ job[p].at = "load"
    BY <1>0, <1>a, <1>13, LoadMoves DEF Moves
  <2>2. SnapshotOf(s).abort = sub[s].abort
    BY <1>a, SnapshotType
  <2>. QED
    BY <1>0, <1>c, <2>1, <2>2 DEF Means, Planning
<1>14. CASE Read(p)
  <2>. DEFINE at == PlanOf(job[p].row, Recorded(s))
  <2>1. Moves(p, at, Recorded(s), OutcomeOf(job[p].row)) /\ job[p].at = "read"
    BY <1>0, <1>a, <1>14, ReadMoves
  <2>2. at \in {"finalize", "record", "abort", "input", "marker", "reconcile"}
    BY Targets
  <2>3. at = "abort" => job[p].row.abort
    BY DEF PlanOf
  <2>. HIDE DEF at
  <2>4. job'[p].at = at /\ job'[p].s = s /\ job'[p].token = job[p].token
    BY <1>0, <2>1 DEF Moves
  <2>5. CASE at = "abort"
    BY <1>0, <1>c, <2>1, <2>3, <2>4, <2>5 DEF Means, Planning
  <2>6. CASE at # "abort"
    BY <1>d, <2>1, <2>2, <2>6 DEF Plain
  <2>. QED
    BY <2>5, <2>6
<1>15. CASE MarkInput(p)
  BY <1>a, <1>d, <1>15, MarkMoves DEF Plain
<1>16. CASE Park(p)
  BY <1>a, <1>d, <1>16, ParkMoves DEF Plain
<1>17. CASE RunFails(p)
  <2>1. Moves(p, "reserve", job[p].knows, "failed") /\ job[p].at \in OnRun
    BY <1>a, <1>17, RunFailsMoves DEF OnRun, InRunOf, Attempting
  <2>. QED
    BY <1>0, <1>f, <2>1 DEF Moves, OnRun, InRunOf, Attempting
<1>18. CASE Reserve(p)
  BY <1>a, <1>d, <1>18, ReserveMoves DEF Plain
<1>19. CASE Finalize(p)
  BY <1>a, <1>d, <1>19, FinalizeMoves DEF Plain
<1>20. CASE Release(p)
  BY <1>a, <1>20, ReleaseMoves, MeansQuiet DEF Plain, Rests
<1>21. CASE Wake(p)
  BY <1>a, <1>d, <1>21, WakeMoves DEF Plain
<1>22. CASE Seek(p)
  <2>1. p \in Recoverer /\ job[p].at = "seek"
    BY <1>a, <1>22, SeekMoves DEF Course, ForRecovery
  <2>2. Goes(p, "acquire") => Means(p)'
    BY <1>0, <1>a, <1>e, <2>1 DEF Goes, Moves, Keeps, Planning, Forgetful, Closing, Repairing
  <2>3. Moves(p, "attend", job[p].knows, job[p].outcome) /\ job'[p].plan = job[p].plan => Means(p)'
    BY <1>0, <1>a, <1>e, <2>1 DEF Moves, Planning
  <2>. QED
    BY <1>a, <1>d, <1>22, <2>1, <2>2, <2>3, SeekMoves
<1>23. CASE Halt(p)
  <2>1. Moves(p, "reserve", job[p].knows, "aborted") /\ job[p].at \notin {"idle", "release"}
    BY <1>a, <1>23, HaltMoves DEF InRun, Attempting
  <2>. QED
    BY <1>0, <1>f, <2>1 DEF Moves, Closing
<1>24. CASE Inspect(p)
  <2>. DEFINE row == SnapshotOf(s)
              plan == Repair(row, job[p].knows)
              at == IF plan \in {"wake", "finalize"} THEN plan ELSE "seek"
              out == OutcomeOf(row)
  <2>1. /\ job[p].at = "inspect" /\ p \in Recoverer
        /\ Rests(p) \/ (Moves(p, at, job[p].knows, out) /\ job'[p].plan = plan)
    BY <1>0, <1>a, <1>24, InspectMoves DEF Course, ForRecovery
  <2>2. plan = "abort" => sub[s].abort
    <3>1. plan = "abort" => PlanOf(row, job[p].knows) = "abort"
      BY DEF Repair
    <3>2. PlanOf(row, job[p].knows) = "abort" => row.abort
      BY DEF PlanOf
    <3>3. row.abort = sub[s].abort
      BY <1>a, SnapshotType
    <3>. QED
      BY <3>1, <3>2, <3>3
  <2>3. at \in {"wake", "finalize", "seek"}
    OBVIOUS
  <2>. HIDE DEF at, out, plan, row
  <2>4. CASE Moves(p, at, job[p].knows, out) /\ job'[p].plan = plan /\ at = "seek"
    BY <1>0, <1>a, <1>c, <2>1, <2>2, <2>4 DEF Moves, Means
  <2>. QED
    BY <1>d, <2>1, <2>3, <2>4 DEF Plain
<1>25. CASE ReadTail(p)
  <2>1. PICK at \in Position, kinds \in {job[p].knows, Recorded(job[p].s)} :
          /\ Moves(p, at, kinds, job[p].outcome)
          /\ at \in {"input", "marker", "release"} \/ at = job[p].plan
    BY <1>a, <1>25, ReadTailMoves
  <2>2. p \in Recoverer /\ job[p].plan \in Plans /\ job[p].at = "tail"
    BY <1>a, <1>25, ReadTailMoves DEF Course, ForRecovery, Planning
  <2>3. CASE at = "abort"
    BY <1>0, <1>a, <1>c, <2>1, <2>2, <2>3 DEF Moves, Means, Planning
  <2>4. CASE at # "abort"
    BY <1>d, <2>1, <2>2, <2>4 DEF Plans, Plain
  <2>. QED
    BY <2>3, <2>4
<1>26. CASE Attend(p)
  <2>1. /\ job[p].at = "attend" /\ job'[p].at = job[p].plan /\ job'[p].s = s
        /\ job[p].plan \in {"abort", "record"} /\ p \in Recoverer
    BY <1>0, <1>a, <1>26, AttendMoves DEF Course, ForRecovery
  <2>. QED
    BY <1>0, <1>a, <1>c, <2>1 DEF Means, Planning
<1>27. CASE Acquire(p)
  <2>1. p \in Recoverer /\ job[p].at = "acquire"
    BY <1>a, <1>27, AcquireMoves DEF Course, ForRecovery
  <2>2. ASSUME NEW h \in Submission, job'[p].s = h, Keeps(p),
               job'[p].at = IF h = job[p].s THEN "claimed" ELSE "release"
        PROVE  Means(p)'
    <3>1. CASE h = s
      BY <1>0, <1>a, <1>e, <2>1, <2>2, <3>1 DEF Keeps, Planning
    <3>2. CASE h # s
      BY <1>0, <1>a, <2>1, <2>2, <3>2, MeansQuiet DEF Plain
    <3>. QED
      BY <3>1, <3>2
  <2>3. Moves(p, "attend", job[p].knows, job[p].outcome) /\ job'[p].plan = job[p].plan => Means(p)'
    BY <1>0, <1>a, <1>e, <2>1 DEF Moves, Planning
  <2>. QED
    BY <1>a, <1>d, <1>27, <2>1, <2>2, <2>3, AcquireMoves
<1>28. CASE Reconcile(p)
  <2>. DEFINE kinds == IF Repairing(p) THEN job[p].knows ELSE Recorded(s)
              answer == IF Repairing(p) /\ ~job[p].row.answered THEN None ELSE consent[s]
              at == Triage(p, kinds, answer)
  <2>1. Moves(p, at, kinds, job[p].outcome) /\ Recorded(s)' = Recorded(s) /\ job[p].at = "reconcile"
    BY <1>0, <1>a, <1>28, ReconcileMoves, StoresKept
  <2>2. at \in {"park", "unknown", "answer", "release", "model"}
    BY Targets
  <2>3. /\ at = "park" => "unknown" \in kinds
        /\ at \in {"park", "unknown"} => OpenIn(kinds)
    BY DEF Triage
  <2>4. kinds \subseteq Recorded(s) /\ (p \in Worker => kinds = Recorded(s))
    BY <1>0, <1>a, <2>1 DEF Local, Knows
  <2>. HIDE DEF at, kinds, answer
  <2>5. job'[p].at = at /\ job'[p].s = s /\ job'[p].token = job[p].token
    BY <1>0, <2>1 DEF Moves
  <2>6. CASE at \in {"park", "unknown"}
    BY <1>0, <2>1, <2>3, <2>4, <2>5, <2>6 DEF Means, Planning
  <2>7. CASE at \notin {"park", "unknown"}
    BY <1>d, <2>1, <2>2, <2>7 DEF Plain
  <2>. QED
    BY <2>6, <2>7
<1>29. CASE RunOn(p)
  <2>1. PICK at \in Ways(job[p].knows) : Moves(p, at, job[p].knows, "completed")
    BY <1>a, <1>29, RunOnMoves
  <2>2. at \in {"reserve", "respond", "complete", "prepare", "execute"} /\ job[p].at = "model"
    BY <1>a, <1>29, <2>1, RunOnMoves, Targets
  <2>3. CASE at = "reserve"
    BY <1>0, <1>f, <2>1, <2>2, <2>3 DEF Moves, OnRun, InRunOf
  <2>4. CASE at # "reserve"
    BY <1>d, <2>1, <2>2, <2>4 DEF Plain
  <2>. QED
    BY <2>3, <2>4
<1>30. CASE Execute(p)
  BY <1>a, <1>d, <1>30, ExecuteMoves DEF Plain
<1>31. CASE Watch(p)
  <2>1. job'[p].at = "halt" /\ job'[p].s = s /\ job'[p].token = job[p].token /\ sub[s].abort
    BY <1>0, <1>a, <1>31, WatchMoves DEF Moves
  <2>2. job[p].at \notin {"idle", "release"}
    BY <1>a, <1>31, WatchMoves DEF InRun, Attempting
  <2>. QED
    BY <1>0, <1>c, <2>1, <2>2 DEF Means, Planning
<1>32. CASE Renew(p)
  <2>1. job[p].at \in Plain \ {"idle", "release"} /\ (Goes(p, job[p].at) \/ Goes(p, "release"))
    BY <1>a, <1>32, RenewMoves DEF InRun, Attempting, Plain
  <2>. QED
    BY <1>d, <2>1 DEF Plain
<1>33. CASE Crash(p) \/ Fail(p)
  BY <1>a, <1>33, FaultMoves, MeansQuiet DEF Plain, Rests, Moves
<1>34. ASSUME NEW r \in Submission, Claim(p, r) PROVE Means(p)'
  <2>1. job'[p].at = "claimed" /\ job'[p].plan = "idle" /\ job'[p].token = minted + 1
    BY <1>a, <1>34, ClaimMoves
  <2>2. minted \in Nat
    BY <1>a, BaseTypes
  <2>. QED
    BY <2>1, <2>2 DEF Means
<1>35. ASSUME NEW r \in Submission, Sweep(p, r) PROVE Means(p)'
  BY <1>a, <1>35, SweepMoves, MeansQuiet DEF Plain
<1>. QED
  BY <1>1, <1>2, <1>3, <1>4, <1>5, <1>6, <1>7, <1>8, <1>9, <1>10, <1>11, <1>12, <1>13, <1>14,
     <1>15, <1>16, <1>17, <1>18, <1>19, <1>20, <1>21, <1>22, <1>23, <1>24, <1>25, <1>26, <1>27,
     <1>28, <1>29, <1>30, <1>31, <1>32, <1>33, <1>34, <1>35 DEF Step

\* What one process does leaves the others' reasons as they are.
LEMMA OthersMean ==
  ASSUME Inv, Forward, NEW q \in Process, job'[q] = job[q], Means(q), Undisturbed(q)
  PROVE  Means(q)'
<1>0. Base /\ ClaimInv /\ Claims(q)
  BY InvFacts
<1>1. PICK s \in Submission : s = job[q].s
  BY InvFacts
<1>2. Recorded(s) \subseteq Recorded(s)' /\ (sub[s].abort => sub'[s].abort)
  BY <1>0, AbortStays DEF Forward, LogForward
<1>3. job[q].at \in {"unknown", "park"} /\ Live(q)' => Live(q)
  BY <1>0, Numbers DEF Live, Claims, Closing
<1>4. job[q].at \in {"unknown", "park"} /\ Live(q) /\ OpenIn(Recorded(s)) => OpenIn(Recorded(s)')
  BY <1>2 DEF Undisturbed, OpenIn, RunKinds, Closing
<1>. QED
  BY <1>1, <1>2, <1>3, <1>4 DEF Means

LEMMA RowMeansStep ==
  ASSUME Inv, Forward, NEW p \in Process, Prints(p), Means(p), NEW r \in Submission, RowMeans(r)
  PROVE  RowMeans(r)'
<1>0. Base /\ RowForward(r) /\ Recorded(r) \subseteq Recorded(r)' /\ "abort" \in Kind
  BY DEF Inv, Forward, LedgerForward, LogForward, Kind
<1>1. sub[r].abort => sub'[r].abort
  BY <1>0, AbortStays
<1>2. ASSUME "abort" \in Recorded(r)', "abort" \notin Recorded(r) PROVE sub[r].abort
  <2>1. r = job[p].s /\ job[p].at \in {"halt", "abort"}
    BY <1>0, <1>2, NewlyWritten DEF Prints, Sites
  <2>. QED
    BY <2>1 DEF Means
<1>3. ASSUME sub[r].reserved = None, sub'[r].reserved # None, sub'[r].reserved.outcome # "aborted"
      PROVE  "input" \in Recorded(r)
  <2>1. r = job[p].s /\ Reserved(p, r)
    BY <1>3, ReservedBy DEF Prints
  <2>. QED
    BY <1>3, <2>1 DEF Reserved, Means
<1>. QED
  BY <1>0, <1>1, <1>2, <1>3 DEF RowMeans, RowForward

LEMMA MeansInit == Init => MeansInv
<1>. SUFFICES ASSUME Init PROVE MeansInv
  OBVIOUS
<1>1. \A p \in Process : job[p].at = "idle"
  BY DEF Init, Idle
<1>2. \A s \in Submission : sub[s].reserved = None
  BY DEF Init, L!Fresh
<1>3. \A s : Recorded(s) = {}
  BY Places DEF Init, T!Init, Length, At
<1>. QED
  BY <1>1, <1>2, <1>3 DEF MeansInv, Means, RowMeans, Planning

LEMMA MeansStep == Inv /\ MeansInv /\ RefreshSuffices /\ [Next]_vars => MeansInv'
<1>. SUFFICES ASSUME Inv, MeansInv, RefreshSuffices, [Next]_vars PROVE MeansInv'
  OBVIOUS
<1>0. Base
  BY DEF Inv
<1>1. ASSUME NEW p \in Process,
             \/ Step(p) \/ Watch(p) \/ Halt(p) \/ Renew(p) \/ Crash(p) \/ Fail(p)
             \/ \E s \in Submission : Claim(p, s) \/ Sweep(p, s)
      PROVE  MeansInv'
  <2>1. Regular(p) /\ Prints(p)
    BY <1>0, <1>1, StepRegular, WatchRegular, HaltRegular, RenewRegular, FaultRegular, ClaimRegular,
       SweepRegular, ProcessPrints
  <2>2. Forward /\ Apart(p)
    BY <2>1 DEF Regular
  <2>3. Means(p)'
    BY <1>1, <2>2, ProcessMeans DEF MeansInv, RefreshSuffices
  <2>4. ASSUME NEW q \in Process, q # p PROVE Means(q)'
    BY <2>1, <2>2, <2>4, OthersMean, Undisturbs DEF Apart, MeansInv
  <2>5. \A s \in Submission : RowMeans(s)'
    BY <2>1, <2>2, RowMeansStep DEF MeansInv
  <2>. QED
    BY <2>3, <2>4, <2>5 DEF MeansInv
<1>2. ASSUME Forward, job' = job,
             \A r \in Submission : Same(r) /\ Recorded(r)' = Recorded(r)
      PROVE  MeansInv'
  <2>1. ASSUME NEW q \in Process PROVE Means(q)'
    <3>1. job[q].s \in Submission
      BY <1>0, BaseTypes
    <3>. QED
      BY <1>2, <2>1, <3>1, OthersMean DEF MeansInv, Undisturbed, Same
  <2>2. ASSUME NEW r \in Submission PROVE RowMeans(r)'
    BY <1>0, <1>2, <2>2, AbortStays DEF MeansInv, RowMeans, Same
  <2>. QED
    BY <2>1, <2>2 DEF MeansInv
<1>3. ASSUME \/ Operate
             \/ \E s \in Submission : LeaseExpires(s)
             \/ \E i \in 1..MaxForeign : ForeignAppend(i)
      PROVE  MeansInv'
  <2>1. Forward /\ job' = job
    BY <1>0, <1>3, OthersForward
  <2>. QED
    BY <1>0, <1>2, <1>3, <2>1, OthersQuiet
<1>4. CASE UNCHANGED vars
  <2>1. job' = job /\ \A r \in Submission : Recorded(r)' = Recorded(r)
    BY <1>4, LogKept DEF vars, canon
  <2>2. sub' = sub
    BY <1>4 DEF vars, ledger
  <2>3. fence' = fence
    BY <1>4 DEF vars, canon
  <2>4. ASSUME NEW q \in Process PROVE Means(q)'
    <3>1. PICK s \in Submission : s = job[q].s
      BY <1>0, BaseTypes
    <3>. QED
      BY <2>1, <2>2, <2>3, <3>1 DEF MeansInv, Means, Live
  <2>5. ASSUME NEW r \in Submission PROVE RowMeans(r)'
    BY <2>1, <2>2, <2>5 DEF MeansInv, RowMeans
  <2>. QED
    BY <2>4, <2>5 DEF MeansInv
<1>. QED
  BY <1>1, <1>3, <1>4 DEF Next

LEMMA AlwaysMeans == Spec /\ []RefreshSuffices => []MeansInv
  BY AlwaysInv, MeansInit, MeansStep, PTL DEF Spec

\* An abort is never made up and an outcome never comes from nowhere: a Run whose
\* abort is canonical was asked to abort, and one that was reserved any other
\* outcome had its input recorded (recordRunAbort, reserveSettlement) - unless a
\* tolerant append used up its refreshes.
THEOREM VerdictsHaveReasons == Spec /\ []RefreshSuffices => [](\A s \in Submission : RowMeans(s))
<1>1. MeansInv => \A s \in Submission : RowMeans(s)
  BY DEF MeansInv
<1>. QED
  BY <1>1, AlwaysMeans, PTL

-----------------------------------------------------------------------------
(***************************************************************************)
(* Settlements and the queue.  A row is passed over only while it is parked,*)
(* and nobody at work on it can write: what is claimed behind it then       *)
(* records its input before the parked row gets any further.                *)
(***************************************************************************)
\* A claim at work, and a Run that waits for its operator with nothing but an
\* open Call.
Acting(p) == job[p].token # 0 /\ job[p].at \notin Closing
Stuck(r) ==
  /\ OpenIn(Recorded(r)) /\ "unknown" \in Recorded(r)
  /\ Recorded(r) \cap {"abort", "final", "settled"} = {}
Parts(r) ==
  L!Parked(r) =>
    /\ Stuck(r)
    /\ \A q \in Process : Acting(q) /\ job[q].s = r => job[q].epoch < fence[Lane]

\* What a claim finds ahead of it stays so until its input is recorded: by a
\* claim granted after it the parked row may go on, but that one fences it off.
Clear(e, r) ==
  \/ "settled" \in Recorded(r)
  \/ /\ Stuck(r)
     /\ \A q \in Process : Acting(q) /\ job[q].s = r => job[q].epoch < fence[Lane] \/ e < job[q].epoch
Ahead(p) ==
  \A r, s \in Submission :
    Acting(p) /\ s = job[p].s /\ "input" \notin Recorded(s) /\ fence[Lane] <= job[p].epoch /\ r < s =>
      Clear(job[p].epoch, r)
Follows(r, s) ==
  r < s /\ "input" \in Recorded(s) => Precedes("settled", r, "input", s) \/ Bypassed(r, s)
Closes(s) == \A i \in At("settled", s), n \in At("input", s) : n < i
OrderInv ==
  /\ \A r \in Submission : Parts(r)
  /\ \A p \in Process : Ahead(p)
  /\ \A r, s \in Submission : Follows(r, s)
  /\ \A s \in Submission : Closes(s)

\* Who parks a Run has the latest claim of the lane.
ParkedInTime == \A p \in Process : Park(p) => UNCHANGED ledger \/ job[p].epoch = epoch[Lane]

\* A process at a position that writes holds a claim.
LEMMA WriterActs ==
  ASSUME Recoverer = {}, Inv, NEW p \in Process, Means(p), Writes(p),
         NEW r \in Submission, NEW k \in Kind, k \in Recorded(r)', k \notin Recorded(r)
  PROVE  /\ r = job[p].s /\ <<job[p].at, k>> \in Sites /\ p \in Worker
         /\ Acting(p) /\ job[p].epoch = fence[Lane]
<1>1. r = job[p].s /\ <<job[p].at, k>> \in Sites /\ job[p].epoch = fence[Lane]
  BY NewlyWritten
<1>2. p \in Worker
  BY DEF Process
<1>3. job[p].at \notin {"idle", "release", "finalize"}
  BY <1>1 DEF Sites
<1>. QED
  BY <1>1, <1>2, <1>3 DEF Means, Acting, Closing

\* Nothing is recorded of a stuck row as long as nobody at work on it has the
\* fence.
LEMMA StuckStays ==
  ASSUME Recoverer = {}, Inv, Forward, NEW p \in Process, Means(p), Writes(p),
         NEW r \in Submission, Stuck(r), Acting(p) /\ job[p].s = r => job[p].epoch # fence[Lane]
  PROVE  Recorded(r)' = Recorded(r) /\ Stuck(r)'
<1>1. Recorded(r) \subseteq Recorded(r)' /\ Recorded(r)' \subseteq Kind
  BY DEF Forward, LogForward, Recorded
<1>2. \A k \in Kind : k \in Recorded(r)' => k \in Recorded(r)
  BY WriterActs
<1>. QED
  BY <1>1, <1>2 DEF Stuck

\* Whoever acts after a step acted before it, on the same claim, or has just
\* been granted one.
LEMMA ActorsKeep ==
  ASSUME NEW p \in Process, Apart(p), Carries(p), NEW q \in Process, Acting(q)'
  PROVE  Acting(q) /\ job'[q].s = job[q].s /\ job'[q].epoch = job[q].epoch
<1>1. CASE q = p
  BY <1>1 DEF Carries, Acting
<1>2. CASE q # p
  BY <1>2 DEF Apart, Acting
<1>. QED
  BY <1>1, <1>2

LEMMA ActorsGranted ==
  ASSUME NEW p \in Process, Apart(p), NEW q \in Process, q # p
  PROVE  (Acting(q)' <=> Acting(q)) /\ job'[q].s = job[q].s /\ job'[q].epoch = job[q].epoch
  BY DEF Apart, Acting

\* Only Park parks.
LEMMA ParkedBy ==
  ASSUME Base, NEW p \in Process, job[p].at = "park", sub' # sub,
         \/ Step(p) \/ Watch(p) \/ Halt(p) \/ Renew(p) \/ Crash(p) \/ Fail(p)
         \/ \E s \in Submission : Claim(p, s) \/ Sweep(p, s)
  PROVE  Park(p)
<1>1. CASE Step(p)
  BY <1>1 DEF Step, Attach, Load, Read, ApplyInput, MarkInput, Reconcile, AppendClosedCall,
     AppendUnknown, RunOn, RunFails, CommitResponse, PrepareCall, Execute, CommitResults,
     CompleteRun, RecordHalt, RecordAbort, AuditOpenCalls, Reserve, RecordSettlement, Finalize,
     Release, Inspect, Wake, Seek, Acquire, ReadTail, Attend
<1>2. CASE Watch(p) \/ Halt(p) \/ Renew(p)
  BY <1>2 DEF Watch, Halt, Renew, InRun, Attempting
<1>3. CASE Crash(p) \/ Fail(p)
  BY <1>3 DEF Crash, Fail, Fault, ledger
<1>4. ASSUME NEW s \in Submission, Claim(p, s) \/ Sweep(p, s) PROVE FALSE
  BY <1>4, ClaimMoves, SweepMoves
<1>. QED
  BY <1>1, <1>2, <1>3, <1>4

\* A row that is parked is not claimed, and an abort that is asked for stays.
LEMMA ParkedFacts ==
  ASSUME Base, Forward, NEW r \in Submission
  PROVE  /\ L!Claim(r) => ~L!Parked(r)
         /\ L!Parked(r)' /\ sub[r].state = "unknown" => L!Parked(r)
         /\ L!Parked(r)' => ~sub[r].abort /\ sub'[r].state = "unknown"
<1>1. sub[r].abort => sub'[r].abort
  BY AbortStays
<1>. QED
  BY <1>1 DEF L!Claim, L!IsHead, L!Candidate, L!Parked

\* A row is parked by the latest claim, with its Run stuck.
LEMMA NewlyParked ==
  ASSUME Recoverer = {}, Inv, CanonInv, MeansInv, ParkedInTime, Forward, NEW p \in Process, Prints(p),
         \/ Step(p) \/ Watch(p) \/ Halt(p) \/ Renew(p) \/ Crash(p) \/ Fail(p)
         \/ \E s \in Submission : Claim(p, s) \/ Sweep(p, s),
         NEW r \in Submission, sub[r].state # "unknown", L!Parked(r)'
  PROVE  Parts(r)'
<1>0. /\ Base /\ ClaimInv /\ Local(p) /\ Claims(p) /\ Course(p) /\ RowHistory(r) /\ RowMeans(r)
      /\ Means(p) /\ p \in Worker
  BY InvFacts DEF Inv, RowInv, MeansInv, Process
<1>1. ~sub[r].abort /\ sub'[r].state = "unknown"
  BY <1>0, ParkedFacts
<1>2. r = job[p].s /\ job[p].at = "park"
  BY <1>1 DEF Prints, Touches, Same, Marked, Parked, Reserved, Finalized
<1>3. sub' # sub
  BY <1>1
<1>4. Park(p)
  BY <1>0, <1>2, <1>3, ParkedBy
<1>5. UNCHANGED canon /\ Goes(p, "release")
  BY <1>0, <1>4, ParkMoves
<1>6. job[p].epoch = epoch[Lane]
  <2>1. UNCHANGED ledger => sub' = sub
    BY DEF ledger
  <2>. QED
    BY <1>3, <1>4, <2>1 DEF ParkedInTime
<1>7. job[p].token # 0 /\ job[p].epoch # 0 /\ job[p].epoch = fence[Lane]
  <2>1. job[p].token # 0
    BY <1>0, <1>2 DEF Course, WithClaim
  <2>2. job[p].epoch # 0 /\ job[p].epoch <= fence[Lane]
    BY <1>0, <1>2, <2>1 DEF Claims, Closing
  <2>. QED
    BY <1>0, <1>6, <2>1, <2>2, Numbers DEF ClaimInv
<1>8. Recorded(r)' = Recorded(r) /\ fence' = fence
  BY <1>5, LogKept DEF canon
<1>9. Stuck(r)'
  <2>1. "unknown" \in Recorded(r) /\ OpenIn(Recorded(r))
    BY <1>0, <1>2, <1>7 DEF Means, Live
  <2>2. "abort" \notin Recorded(r)
    BY <1>0, <1>1 DEF RowMeans
  <2>3. "settled" \notin Recorded(r)
    <3>1. sub[r].reserved = None
      BY <1>0, <1>2, <1>7 DEF Local, Unsettled, Live, Advancing
    <3>. QED
      BY <1>0, <3>1, Places DEF RowHistory, Kind
  <2>4. "final" \notin Recorded(r)
    <3>1. "closed" \in Kind /\ Rounded(r)
      BY DEF Kind, CanonInv
    <3>2. "prepared" \in Recorded(r) /\ "closed" \notin Recorded(r)
      BY <2>1 DEF OpenIn
    <3>. QED
      BY <3>1, <3>2, Places DEF Rounded, Precedes
  <2>. QED
    BY <1>8, <2>1, <2>2, <2>3, <2>4 DEF Stuck
<1>10. ASSUME NEW q \in Process, Acting(q)', job'[q].s = r PROVE job'[q].epoch < fence'[Lane]
  <2>1. q # p
    BY <1>5, <1>10 DEF Goes, Moves, Acting, Closing
  <2>2. job'[q] = job[q]
    BY <1>5, <2>1 DEF Goes, Moves, Apart
  <2>3. Distinct(p, q) /\ Claims(q)
    BY <1>0, <2>1, InvFacts DEF ClaimInv
  <2>4. job[q].token # 0
    BY <1>10, <2>2 DEF Acting
  <2>5. job[q].epoch # job[p].epoch /\ job[q].epoch <= epoch[Lane]
    BY <1>7, <2>3, <2>4 DEF Distinct, Claims
  <2>6. job[q].epoch \in Nat /\ epoch[Lane] \in Nat
    BY <1>0, BaseTypes
  <2>7. job'[q].epoch < fence[Lane]
    BY <1>6, <1>7, <2>2, <2>5, <2>6
  <2>. QED
    BY <1>8, <2>7
<1>. QED
  BY <1>9, <1>10 DEF Parts

\* A stuck row that nobody with a chance to write is at work on stays stuck.
LEMMA PartsStep ==
  ASSUME Recoverer = {}, Inv, CanonInv, MeansInv, OrderInv, ParkedInTime, Forward,
         NEW p \in Process, Apart(p), Prints(p), Carried(p),
         \/ Step(p) \/ Watch(p) \/ Halt(p) \/ Renew(p) \/ Crash(p) \/ Fail(p)
         \/ \E s \in Submission : Claim(p, s) \/ Sweep(p, s),
         NEW r \in Submission
  PROVE  Parts(r)'
<1>. SUFFICES ASSUME L!Parked(r)' PROVE Parts(r)'
  BY DEF Parts
<1>0. Base /\ ClaimInv
  BY DEF Inv
<1>1. CASE sub[r].state # "unknown"
  BY <1>1, NewlyParked
<1>2. CASE sub[r].state = "unknown"
  <2>1. L!Parked(r) /\ Stuck(r) /\ \A q \in Process : Acting(q) /\ job[q].s = r
                                      => job[q].epoch < fence[Lane]
    BY <1>0, <1>2, ParkedFacts DEF OrderInv, Parts
  <2>2. Stuck(r)'
    <3>1. Acting(p) /\ job[p].s = r => job[p].epoch # fence[Lane]
      BY <1>0, <2>1, BaseTypes
    <3>. QED
      BY <2>1, <3>1, StuckStays DEF Prints, MeansInv
  <2>3. ASSUME NEW q \in Process, Acting(q)', job'[q].s = r PROVE job'[q].epoch < fence'[Lane]
    <3>1. CASE Carries(p) \/ q # p
      <4>1. Acting(q) /\ job'[q].s = job[q].s /\ job'[q].epoch = job[q].epoch
        BY <2>3, <3>1, ActorsKeep, ActorsGranted
      <4>2. job[q].epoch < fence[Lane] /\ job[q].epoch \in Nat
        BY <1>0, <2>1, <2>3, <4>1, BaseTypes
      <4>. QED
        BY <1>0, <4>1, <4>2, Numbers
    <3>2. CASE Granted(p) /\ q = p
      <4>1. L!Claim(r)
        BY <2>3, <3>2 DEF Granted
      <4>. QED
        BY <1>0, <2>1, <4>1, ParkedFacts
    <3>. QED
      BY <3>1, <3>2 DEF Carried
  <2>. QED
    BY <2>2, <2>3 DEF Parts
<1>. QED
  BY <1>1, <1>2

\* What is ahead of a claim stays clear, as far as others are concerned.
LEMMA ClearStays ==
  ASSUME Recoverer = {}, Inv, MeansInv, Forward,
         NEW p \in Process, Apart(p), Prints(p), Carried(p),
         NEW r \in Submission, NEW e \in Nat, fence[Lane] <= e, e <= epoch[Lane], Clear(e, r),
         Granted(p) /\ job'[p].s = r => e < job'[p].epoch
  PROVE  Clear(e, r)'
<1>0. Base /\ ClaimInv /\ Recorded(r) \subseteq Recorded(r)'
  BY DEF Inv, Forward, LogForward
<1>1. CASE "settled" \in Recorded(r)
  BY <1>0, <1>1 DEF Clear
<1>2. ASSUME Stuck(r), \A q \in Process : Acting(q) /\ job[q].s = r
                         => job[q].epoch < fence[Lane] \/ e < job[q].epoch
      PROVE  Clear(e, r)'
  <2>1. Stuck(r)'
    <3>1. Acting(p) /\ job[p].s = r => job[p].epoch # fence[Lane]
      BY <1>0, <1>2, BaseTypes
    <3>. QED
      BY <1>2, <3>1, StuckStays DEF Prints, MeansInv
  <2>2. ASSUME NEW q \in Process, Acting(q)', job'[q].s = r
        PROVE  job'[q].epoch < fence'[Lane] \/ e < job'[q].epoch
    <3>1. CASE Carries(p) \/ q # p
      <4>1. Acting(q) /\ job'[q].s = job[q].s /\ job'[q].epoch = job[q].epoch
        BY <2>2, <3>1, ActorsKeep, ActorsGranted
      <4>2. (job[q].epoch < fence[Lane] \/ e < job[q].epoch) /\ job[q].epoch \in Nat
        BY <1>0, <1>2, <2>2, <4>1, BaseTypes
      <4>. QED
        BY <1>0, <4>1, <4>2, Numbers
    <3>2. CASE Granted(p) /\ q = p
      BY <2>2, <3>2
    <3>. QED
      BY <3>1, <3>2 DEF Carried
  <2>. QED
    BY <2>1, <2>2 DEF Clear
<1>. QED
  BY <1>1, <1>2 DEF Clear

\* The head of the queue: everything ahead of it is settled, or parked.
LEMMA HeadClear ==
  ASSUME Inv, CanonInv, OrderInv, NEW s \in Submission, L!Claim(s), NEW e,
         NEW r \in Submission, r < s
  PROVE  Clear(e, r)
<1>1. LedgerInv
  BY DEF Inv, Base
<1>2. adm[r].thread = Lane /\ adm[r].seq = r /\ sub[r].state \in PlainStates
      /\ adm[s].thread = Lane /\ adm[s].seq = s
  BY <1>1, RowTypes DEF LedgerInv
<1>3. L!IsHead(s)
  BY DEF L!Claim
<1>4. L!Earlier(r, s)
  BY <1>2 DEF L!Earlier, L!Present, L!SameLane, PlainStates
<1>5. ~L!Candidate(r)
  BY <1>3, <1>4 DEF L!IsHead
<1>6. sub[r].state = "settled" \/ L!Parked(r)
  BY <1>2, <1>5 DEF L!Candidate, L!Active, L!Parked, PlainStates
<1>. QED
  BY <1>6 DEF CanonInv, Sealed, OrderInv, Parts, Clear

LEMMA AheadStep ==
  ASSUME Recoverer = {}, Inv, CanonInv, MeansInv, OrderInv, Forward,
         NEW p \in Process, Apart(p), Prints(p), Carried(p), NEW w \in Process
  PROVE  Ahead(w)'
<1>. SUFFICES ASSUME NEW r \in Submission, NEW s \in Submission, Acting(w)', s = job'[w].s,
                     "input" \notin Recorded(s)', NEW e, e = job'[w].epoch, fence'[Lane] <= e, r < s
              PROVE  Clear(e, r)'
  BY DEF Ahead, Clear
<1>0. Base /\ ClaimInv /\ Claims(w) /\ Recorded(s) \subseteq Recorded(s)' /\ Ahead(w)
  BY InvFacts DEF Inv, Forward, LogForward, OrderInv
<1>1. CASE Carries(p) \/ w # p
  <2>1. Acting(w) /\ job'[w].s = job[w].s /\ e = job[w].epoch /\ e \in Nat
    BY <1>0, <1>1, ActorsKeep, ActorsGranted, BaseTypes
  <2>2. fence[Lane] <= e /\ e <= epoch[Lane] /\ "input" \notin Recorded(s)
    BY <1>0, <2>1, Numbers DEF Claims
  <2>3. Clear(e, r)
    BY <1>0, <2>1, <2>2 DEF Ahead, Clear
  <2>4. Granted(p) => e < job'[p].epoch
    BY <1>0, <2>1, <2>2, Numbers DEF Granted
  <2>. QED
    BY <2>1, <2>2, <2>3, <2>4, ClearStays
<1>2. CASE Granted(p) /\ w = p
  <2>1. L!Claim(s) /\ s = job'[p].s /\ r # s
    BY <1>2 DEF Granted, Submission
  <2>2. PICK d \in Nat : d = epoch[Lane]
    BY <1>0, Numbers
  <2>3. Clear(d, r)
    BY <2>1, HeadClear
  <2>4. Clear(d, r)'
    BY <1>0, <2>1, <2>2, <2>3, ClearStays DEF ClaimInv
  <2>5. ASSUME NEW q \in Process, Acting(q)', job'[q].s = r PROVE ~(d < job'[q].epoch)
    <3>1. q # p
      BY <2>1, <2>5
    <3>2. job'[q].epoch = job[q].epoch /\ job[q].epoch \in Nat
      BY <1>0, <3>1, ActorsGranted, BaseTypes
    <3>3. job[q].epoch <= epoch[Lane]
      BY InvFacts DEF Claims
    <3>. QED
      BY <2>2, <3>2, <3>3
  <2>. QED
    BY <2>4, <2>5 DEF Clear
<1>. QED
  BY <1>1, <1>2 DEF Carried

\* Records stay where they are, and a new one is behind all of them.
LEMMA Grows ==
  ASSUME Base, NEW p \in Process, Writes(p), NEW k \in Kind, NEW s \in Submission
  PROVE  /\ Length \in Nat /\ At(k, s) \subseteq 1..Length /\ At(k, s) \subseteq At(k, s)'
         /\ \A i \in At(k, s)' :
              i \in At(k, s) \/ (i = Length + 1 /\ k \notin Recorded(s) /\ k \in Recorded(s)')
<1>1. Length \in Nat /\ At(k, s) \subseteq 1..Length
  BY LogTypes DEF Base, TypeOK, At
<1>2. ASSUME NEW l \in Kind, l \notin Recorded(s), l \in Recorded(s)', At(l, s)' = {Length + 1},
             \A m \in Kind \ {l} : At(m, s)' = At(m, s)
      PROVE  /\ At(k, s) \subseteq At(k, s)'
             /\ \A i \in At(k, s)' :
                  i \in At(k, s) \/ (i = Length + 1 /\ k \notin Recorded(s) /\ k \in Recorded(s)')
  <2>1. k = l => At(k, s) = {}
    BY <1>2, Places
  <2>. QED
    BY <1>2, <2>1
<1>. QED
  BY <1>1, <1>2, LogOrder

\* An input becomes canonical while everything ahead of it is settled or stuck.
LEMMA FollowsStep ==
  ASSUME Recoverer = {}, Inv, MeansInv, OrderInv, Forward, NEW p \in Process, Prints(p),
         NEW r \in Submission, NEW s \in Submission
  PROVE  Follows(r, s)'
<1>. SUFFICES ASSUME r < s, "input" \in Recorded(s)'
              PROVE  (Precedes("settled", r, "input", s) \/ Bypassed(r, s))'
  BY DEF Follows
<1>0. Base /\ Means(p) /\ Writes(p) /\ Ahead(p) /\ Follows(r, s)
      /\ {"input", "settled", "unknown", "closed", "abort", "final"} \subseteq Kind
  BY DEF Inv, MeansInv, Prints, OrderInv, Kind
<1>1. CASE "input" \in Recorded(s)
  <2>1. CASE Precedes("settled", r, "input", s)
    BY <1>0, <2>1, Grows DEF Precedes
  <2>2. CASE Bypassed(r, s)
    <3>1. PICK u \in At("unknown", r), n \in At("input", s) :
            /\ u < n
            /\ \A k \in {"abort", "final", "settled"} : \A i \in At(k, r) : i > n
            /\ \A i \in At("closed", r) : i < u \/ i > n
      BY <2>2 DEF Bypassed
    <3>2. u \in At("unknown", r)' /\ n \in At("input", s)' /\ n \in 1..Length /\ Length \in Nat
      BY <1>0, <3>1, Grows
    <3>3. ASSUME NEW k \in {"abort", "final", "settled"}, NEW i \in At(k, r)' PROVE i > n
      BY <1>0, <3>1, <3>2, Grows
    <3>4. ASSUME NEW i \in At("closed", r)' PROVE i < u \/ i > n
      BY <1>0, <3>1, <3>2, Grows
    <3>. QED
      BY <3>1, <3>2, <3>3, <3>4 DEF Bypassed
  <2>. QED
    BY <1>0, <1>1, <2>1, <2>2 DEF Follows
<1>2. CASE "input" \notin Recorded(s)
  <2>1. s = job[p].s /\ Acting(p) /\ job[p].epoch = fence[Lane]
    BY <1>0, <1>2, WriterActs
  <2>2. PICK n \in At("input", s)' : n = Length + 1
    <3>1. At("input", s)' # {}
      BY DEF Recorded, At
    <3>2. At("input", s) = {}
      BY <1>0, <1>2, Places
    <3>. QED
      BY <1>0, <3>1, <3>2, Grows
  <2>3. Clear(job[p].epoch, r)
    BY <1>0, <1>2, <2>1, BaseTypes DEF Ahead
  <2>4. CASE "settled" \in Recorded(r)
    <3>1. PICK i \in At("settled", r) : TRUE
      BY <1>0, <2>4, Places
    <3>2. i \in At("settled", r)' /\ i < n
      BY <1>0, <2>2, <3>1, Grows
    <3>. QED
      BY <2>2, <3>2 DEF Precedes
  <2>5. CASE Stuck(r)
    <3>1. Recorded(r)' = Recorded(r)
      <4>1. Acting(p) /\ job[p].s = r => job[p].epoch # fence[Lane]
        BY <2>1 DEF Submission
      <4>. QED
        BY <1>0, <2>5, <4>1, StuckStays
    <3>2. ASSUME NEW k \in {"abort", "final", "settled", "closed"} PROVE At(k, r)' = {}
      <4>1. k \in Kind /\ k \notin Recorded(r)'
        BY <1>0, <2>5, <3>1 DEF Stuck, OpenIn
      <4>. QED
        BY <4>1 DEF Recorded, At
    <3>3. PICK u \in At("unknown", r) : TRUE
      BY <1>0, <2>5, Places DEF Stuck
    <3>4. u \in At("unknown", r)' /\ u < n
      BY <1>0, <2>2, <3>3, Grows
    <3>. QED
      BY <2>2, <3>2, <3>4 DEF Bypassed
  <2>. QED
    BY <2>3, <2>4, <2>5 DEF Clear
<1>. QED
  BY <1>1, <1>2

\* A Run that has its settlement recorded has no input to record.
LEMMA ClosesStep ==
  ASSUME Recoverer = {}, Inv, MeansInv, OrderInv, NEW p \in Process, Prints(p),
         NEW s \in Submission
  PROVE  Closes(s)'
<1>. SUFFICES ASSUME NEW i \in At("settled", s)', NEW n \in At("input", s)'
              PROVE  n < i
  BY DEF Closes
<1>0. /\ Base /\ Means(p) /\ Writes(p) /\ Closes(s) /\ Local(p) /\ RowHistory(s)
      /\ "input" \in Kind /\ "settled" \in Kind
  BY InvFacts DEF Inv, RowInv, MeansInv, Prints, OrderInv, Kind
<1>1. CASE n \in At("input", s)
  BY <1>0, <1>1, Grows DEF Closes
<1>2. CASE n \notin At("input", s)
  <2>1. "input" \in Recorded(s)' /\ "input" \notin Recorded(s)
    BY <1>0, <1>2, Grows
  <2>2. s = job[p].s /\ job[p].at = "input" /\ p \in Worker /\ Live(p)
    BY <1>0, <2>1, WriterActs DEF Sites, Acting, Live
  <2>3. At("settled", s) = {}
    BY <1>0, <2>2 DEF Local, Unsettled, Advancing, RowHistory
  <2>4. "settled" \in Recorded(s)' /\ "settled" \notin Recorded(s)
    BY <1>0, <2>3, Grows
  <2>5. job[p].at = "record"
    BY <1>0, <2>4, WriterActs DEF Sites
  <2>. QED
    BY <2>2, <2>5
<1>. QED
  BY <1>1, <1>2

LEMMA OrderInit == Init => OrderInv
<1>. SUFFICES ASSUME Init PROVE OrderInv
  OBVIOUS
<1>1. \A s \in Submission : ~L!Parked(s)
  BY DEF Init, L!Fresh, L!Parked
<1>2. \A p \in Process : job[p].token = 0
  BY IdleType DEF Init
<1>3. (\A s : Recorded(s) = {}) /\ \A k, s : At(k, s) = {}
  BY DEF Init, T!Init, Length, Recorded, At
<1>. QED
  BY <1>1, <1>2, <1>3 DEF OrderInv, Parts, Ahead, Acting, Follows, Closes

\* Nobody moves, no record of a Submission is added, and no row is parked.
LEMMA OrderQuiet ==
  ASSUME Inv, OrderInv, Forward, job' = job,
         \A r \in Submission : Same(r) /\ Recorded(r)' = Recorded(r),
         \A k \in Kind, r \in Submission : At(k, r)' = At(k, r)
  PROVE  OrderInv'
<1>0. /\ Base /\ {"input", "settled", "unknown", "closed", "abort", "final"} \subseteq Kind
      /\ \A q \in Process : job[q].s \in Submission /\ job[q].epoch \in Nat
  BY BaseTypes DEF Inv, Kind
<1>1. \A q \in Process : Acting(q)' <=> Acting(q)
  BY DEF Acting
<1>2. \A r \in Submission : Stuck(r)' <=> Stuck(r)
  BY DEF Stuck
<1>3. ASSUME NEW r \in Submission PROVE Parts(r)'
  <2>. SUFFICES ASSUME L!Parked(r)' PROVE Parts(r)'
    BY DEF Parts
  <2>1. L!Parked(r)
    BY <1>0, ParkedFacts DEF Same
  <2>2. Stuck(r)' /\ \A q \in Process : Acting(q) /\ job[q].s = r => job[q].epoch < fence[Lane]
    BY <1>2, <2>1 DEF OrderInv, Parts
  <2>. QED
    BY <1>0, <1>1, <2>2, Numbers DEF Parts
<1>4. ASSUME NEW p \in Process PROVE Ahead(p)'
  <2>. SUFFICES ASSUME NEW r \in Submission, NEW s \in Submission, Acting(p), s = job[p].s,
                       "input" \notin Recorded(s), fence'[Lane] <= job[p].epoch, r < s
                PROVE  Clear(job[p].epoch, r)'
    BY <1>1 DEF Ahead
  <2>1. fence[Lane] <= job[p].epoch
    BY <1>0, Numbers
  <2>2. Clear(job[p].epoch, r)
    BY <2>1 DEF OrderInv, Ahead
  <2>3. CASE "settled" \in Recorded(r)
    BY <2>3 DEF Clear
  <2>4. CASE "settled" \notin Recorded(r)
    <3>1. Stuck(r)'
      BY <1>2, <2>2, <2>4 DEF Clear
    <3>2. ASSUME NEW q \in Process, Acting(q), job[q].s = r
          PROVE  job[q].epoch < fence'[Lane] \/ job[p].epoch < job[q].epoch
      <4>1. job[q].epoch < fence[Lane] \/ job[p].epoch < job[q].epoch
        BY <2>2, <2>4, <3>2 DEF Clear
      <4>. QED
        BY <1>0, <4>1, Numbers
    <3>. QED
      BY <1>1, <3>1, <3>2 DEF Clear
  <2>. QED
    BY <2>3, <2>4
<1>5. ASSUME NEW r \in Submission, NEW s \in Submission PROVE Follows(r, s)'
  <2>1. Follows(r, s)
    BY DEF OrderInv
  <2>2. Precedes("settled", r, "input", s) => Precedes("settled", r, "input", s)'
    BY <1>0 DEF Precedes
  <2>3. Bypassed(r, s) => Bypassed(r, s)'
    BY <1>0 DEF Bypassed
  <2>. QED
    BY <2>1, <2>2, <2>3 DEF Follows
<1>6. ASSUME NEW s \in Submission PROVE Closes(s)'
  BY <1>0 DEF OrderInv, Closes
<1>. QED
  BY <1>3, <1>4, <1>5, <1>6 DEF OrderInv

LEMMA OrderStep ==
  ASSUME Recoverer = {}, Inv, CanonInv, MeansInv, OrderInv, [Next]_vars, [ParkedInTime]_vars
  PROVE  OrderInv'
<1>0. Base
  BY DEF Inv
<1>1. CASE UNCHANGED vars
  <2>1. UNCHANGED canon /\ job' = job
    BY <1>1 DEF vars
  <2>2. UNCHANGED ledger
    BY <1>1 DEF vars
  <2>3. LogForward
    BY <1>0, <2>1, Bounded
  <2>4. Forward
    BY <1>0, <2>2, <2>3, Bounded DEF Forward
  <2>5. /\ \A r \in Submission : Recorded(r)' = Recorded(r)
        /\ \A k \in Kind, r \in Submission : At(k, r)' = At(k, r)
    BY <2>1, LogKept DEF canon
  <2>. QED
    BY <2>1, <2>2, <2>4, <2>5, Untouched, OrderQuiet
<1>2. ASSUME ParkedInTime, Next, NEW p \in Process,
             \/ Step(p) \/ Watch(p) \/ Halt(p) \/ Renew(p) \/ Crash(p) \/ Fail(p)
             \/ \E s \in Submission : Claim(p, s) \/ Sweep(p, s)
      PROVE  OrderInv'
  <2>1. Forward /\ Regular(p) /\ Prints(p) /\ Carried(p)
    BY <1>2, NextForward, StepRegular, WatchRegular, HaltRegular, RenewRegular, FaultRegular,
       ClaimRegular, SweepRegular, ProcessPrints, ProcessCarries DEF Inv
  <2>2. Apart(p)
    BY <2>1 DEF Regular
  <2>3. \A r \in Submission : Parts(r)'
    BY <1>2, <2>1, <2>2, PartsStep
  <2>4. \A w \in Process : Ahead(w)'
    BY <2>1, <2>2, AheadStep
  <2>5. \A r, s \in Submission : Follows(r, s)'
    BY <2>1, FollowsStep
  <2>6. \A s \in Submission : Closes(s)'
    BY <2>1, ClosesStep
  <2>. QED
    BY <2>3, <2>4, <2>5, <2>6 DEF OrderInv
<1>3. ASSUME \/ Operate
             \/ \E s \in Submission : LeaseExpires(s)
             \/ \E i \in 1..MaxForeign : ForeignAppend(i)
      PROVE  OrderInv'
  <2>1. Forward /\ job' = job
    BY <1>0, <1>3, OthersForward
  <2>. QED
    BY <1>0, <1>3, <2>1, OthersQuiet, OrderQuiet
<1>. QED
  BY <1>1, <1>2, <1>3 DEF Next

\* A Run that settles otherwise than a queued abort has its input recorded: it
\* finds what is ahead of it settled before, or parked.
LEMMA OrderSuffices ==
  ASSUME Inv, MeansInv, OrderInv
  PROVE  FifoSettlementOrder
<1>. SUFFICES ASSUME NEW r \in Submission, NEW s \in Submission, r < s, "settled" \in Recorded(r),
                     "settled" \in Recorded(s), ~NeverRun(s)
              PROVE  Precedes("settled", r, "settled", s) \/ Bypassed(r, s)
  BY DEF FifoSettlementOrder, Holds
<1>0. /\ "settled" \in Kind /\ "input" \in Kind /\ RowHistory(s) /\ RowMeans(s) /\ Follows(r, s)
      /\ Closes(s) /\ Length \in Nat /\ \A k, t : At(k, t) \subseteq 1..Length
  BY LogTypes DEF Kind, Inv, RowInv, MeansInv, OrderInv, Base, TypeOK, At
<1>1. PICK i \in At("settled", s) : TRUE
  BY <1>0, Places
<1>2. "input" \in Recorded(s)
  <2>. SUFFICES ASSUME "input" \notin Recorded(s) PROVE FALSE
    OBVIOUS
  <2>1. log[Lane][i].body # "aborted"
    BY <1>1 DEF NeverRun, Holds
  <2>2. sub[s].reserved # None /\ log[Lane][i].body = sub[s].reserved.outcome
    BY <1>0, <1>1 DEF RowHistory
  <2>. QED
    BY <1>0, <2>1, <2>2 DEF RowMeans
<1>3. CASE Precedes("settled", r, "input", s)
  <2>1. PICK j \in At("settled", r), n \in At("input", s) : j < n
    BY <1>3 DEF Precedes
  <2>2. n < i
    BY <1>0, <1>1 DEF Closes
  <2>3. j \in Nat /\ n \in Nat /\ i \in Nat
    BY <1>0, <1>1, <2>1
  <2>4. j < i
    BY <2>1, <2>2, <2>3
  <2>. QED
    BY <1>1, <2>4 DEF Precedes
<1>. QED
  BY <1>0, <1>2, <1>3 DEF Follows

\* Runs settle in the order of the queue - but for those that never ran and
\* those that were parked when the other went past - as long as a Run is parked
\* by the latest claim only: markUnknown asks for no ownership, and a superseded
\* worker that parks late lets the queue go past a Run that is still at work.
\* For any number of workers and faults, without a recovery pass.
THEOREM SettlementsFollowTheQueue ==
  ASSUME Recoverer = {}
  PROVE  Spec /\ []RefreshSuffices /\ [][ParkedInTime]_vars => []FifoSettlementOrder
<1>1. Inv /\ CanonInv /\ MeansInv /\ OrderInv /\ [Next]_vars /\ [ParkedInTime]_vars => OrderInv'
  BY OrderStep
<1>2. Inv /\ MeansInv /\ OrderInv => FifoSettlementOrder
  BY OrderSuffices
<1>. QED
  BY <1>1, <1>2, OrderInit, AlwaysInv, AlwaysCanon, AlwaysMeans, PTL DEF Spec

\* Only a claim raises the epoch of the lane.
LEMMA EpochByClaim ==
  ASSUME Base, NEW p \in Process,
         \/ Step(p) \/ Watch(p) \/ Halt(p) \/ Renew(p) \/ Crash(p) \/ Fail(p)
         \/ \E s \in Submission : Claim(p, s) \/ Sweep(p, s)
  PROVE  epoch' = epoch \/ \E s \in Submission : L!Claim(s) /\ job'[p].epoch = epoch[Lane] + 1
<1>a. /\ LedgerInv /\ job[p].s \in Submission /\ job[p].token \in 0..minted
      /\ (job[p].at = "reserve" => job[p].outcome \in Outcome)
  BY BaseTypes, CourseOf DEF Course
<1>b. UNCHANGED ledger => epoch' = epoch
  BY DEF ledger
<1>c. Calm => epoch' = epoch
  BY <1>b DEF Calm
<1>1. CASE ApplyInput(p) \/ AppendClosedCall(p) \/ AppendUnknown(p) \/ CommitResponse(p)
             \/ PrepareCall(p) \/ CommitResults(p) \/ CompleteRun(p) \/ RecordHalt(p)
             \/ RecordSettlement(p) \/ RecordAbort(p) \/ AuditOpenCalls(p)
  BY <1>b, <1>c, <1>1, ApplyInputMoves, AppendClosedCallMoves, AppendUnknownMoves,
     CommitResponseMoves, PrepareCallMoves, CommitResultsMoves, CompleteRunMoves, RecordHaltMoves,
     RecordSettlementMoves, RecordAbortMoves, AuditMoves DEF AppendOutcome
<1>2. CASE Load(p) \/ Read(p) \/ Reconcile(p) \/ RunOn(p) \/ RunFails(p) \/ Inspect(p) \/ Seek(p)
             \/ ReadTail(p) \/ Watch(p) \/ Halt(p)
  BY <1>c, <1>2, LoadMoves, ReadMoves, ReconcileMoves, RunOnMoves, RunFailsMoves, InspectMoves,
     SeekMoves, ReadTailMoves, WatchMoves, HaltMoves
<1>3. CASE Attach(p) \/ Execute(p) \/ Attend(p) \/ Crash(p) \/ Fail(p)
  BY <1>b, <1>3, AttachMoves, ExecuteMoves, AttendMoves, FaultMoves
<1>4. CASE MarkInput(p)
  BY <1>a, <1>b, <1>4, MarkMoves, MarkEffect
<1>5. CASE Park(p)
  BY <1>a, <1>b, <1>5, ParkMoves, ParkEffect
<1>6. CASE Renew(p)
  BY <1>a, <1>b, <1>6, RenewMoves, RenewEffect
<1>7. CASE Reserve(p)
  BY <1>a, <1>b, <1>7, ReserveMoves, ReservedEffect
<1>8. CASE Finalize(p)
  BY <1>a, <1>b, <1>8, FinalizeMoves, FinalizedEffect
<1>9. CASE Release(p)
  BY <1>a, <1>b, <1>9, ReleaseMoves, ReleaseEffect
<1>10. CASE Wake(p)
  BY <1>a, <1>b, <1>10, WakeMoves, ResolveEffect
<1>11. CASE Acquire(p)
  BY <1>b, <1>11, AcquireMoves
<1>12. ASSUME NEW s \in Submission, Claim(p, s) \/ Sweep(p, s)
       PROVE  epoch' = epoch \/ \E r \in Submission : L!Claim(r) /\ job'[p].epoch = epoch[Lane] + 1
  BY <1>b, <1>12, ClaimMoves, SweepMoves
<1>. QED
  BY <1>1, <1>2, <1>3, <1>4, <1>5, <1>6, <1>7, <1>8, <1>9, <1>10, <1>11, <1>12 DEF Step

\* A worker on its own always has the latest claim, even when its lease has
\* run out: nobody else is granted one.
Latest(p) == Acting(p) => job[p].epoch = epoch[Lane]

LEMMA LatestStep ==
  ASSUME NEW p \in Process, \A q \in Process : q = p, Inv, Latest(p), [Next]_vars
  PROVE  Latest(p)'
<1>0. Base
  BY DEF Inv
<1>1. ASSUME Next,
             \/ Step(p) \/ Watch(p) \/ Halt(p) \/ Renew(p) \/ Crash(p) \/ Fail(p)
             \/ \E s \in Submission : Claim(p, s) \/ Sweep(p, s)
      PROVE  Latest(p)'
  <2>1. Forward /\ Regular(p) /\ Carried(p)
    BY <1>1, NextForward, StepRegular, WatchRegular, HaltRegular, RenewRegular, FaultRegular,
       ClaimRegular, SweepRegular, ProcessCarries DEF Inv
  <2>2. Apart(p)
    BY <2>1 DEF Regular
  <2>3. ASSUME NEW s \in Submission, L!Claim(s) PROVE epoch'[Lane] = epoch[Lane] + 1
    BY <1>0, <2>3, ClaimEffect DEF Base
  <2>4. CASE \E s \in Submission : L!Claim(s) /\ job'[p].epoch = epoch[Lane] + 1
    BY <2>3, <2>4 DEF Latest
  <2>5. CASE epoch' = epoch
    <3>1. CASE Carries(p)
      BY <2>2, <2>5, <3>1, ActorsKeep DEF Latest
    <3>2. CASE Granted(p)
      BY <2>3, <3>2 DEF Latest, Granted
    <3>. QED
      BY <2>1, <3>1, <3>2 DEF Carried
  <2>. QED
    BY <1>0, <1>1, <2>4, <2>5, EpochByClaim
<1>2. ASSUME \/ Operate
             \/ \E s \in Submission : LeaseExpires(s)
             \/ \E i \in 1..MaxForeign : ForeignAppend(i)
      PROVE  Latest(p)'
  <2>1. job' = job /\ LedgerInv
    BY <1>0, <1>2, OthersForward DEF Base
  <2>2. epoch' = epoch
    <3>1. ASSUME NEW s \in Submission, NEW answer, RequestAbort(s) \/ ResolveUnknown(s, answer)
          PROVE  epoch' = epoch
      BY <2>1, <3>1, AbortEffect, ResolveEffect DEF RequestAbort, ResolveUnknown
    <3>2. ASSUME NEW s \in Submission, LeaseExpires(s) PROVE epoch' = epoch
      BY <2>1, <3>2, ExpiryEffect DEF LeaseExpires
    <3>3. ASSUME NEW i \in 1..MaxForeign, ForeignAppend(i) PROVE epoch' = epoch
      BY <3>3 DEF ForeignAppend, ledger
    <3>. QED
      BY <1>2, <3>1, <3>2, <3>3 DEF Operate
  <2>. QED
    BY <2>1, <2>2 DEF Latest, Acting
<1>3. CASE UNCHANGED vars
  <2>1. job' = job
    BY <1>3 DEF vars
  <2>2. epoch' = epoch
    BY <1>3 DEF vars, ledger
  <2>. QED
    BY <2>1, <2>2 DEF Latest, Acting
<1>. QED
  BY <1>1, <1>2, <1>3 DEF Next

\* One worker, however often it crashes, restarts or loses its lease, settles
\* its Runs in the order of the queue - but for those that never ran and those
\* that were parked when the other went past.
THEOREM OneWorkerSettlesInOrder ==
  ASSUME NEW w, Worker = {w}, Recoverer = {}
  PROVE  Spec /\ []RefreshSuffices => []FifoSettlementOrder
<1>1. w \in Process /\ \A q \in Process : q = w
  BY DEF Process
<1>2. Init => Latest(w)
  BY <1>1, IdleType DEF Init, Latest, Acting
<1>3. Inv /\ Latest(w) /\ [Next]_vars => Latest(w)'
  BY <1>1, LatestStep
<1>4. Inv /\ Latest(w) /\ [Next]_vars => [ParkedInTime]_vars
  <2>. SUFFICES ASSUME Inv, Latest(w), NEW p \in Process, Park(p)
                PROVE  job[p].epoch = epoch[Lane]
    BY DEF ParkedInTime
  <2>1. p = w /\ job[p].at = "park" /\ job[p].token # 0
    BY <1>1, InvFacts DEF Park, Course, WithClaim
  <2>. QED
    BY <2>1 DEF Latest, Acting, Closing
<1>5. Spec /\ []RefreshSuffices /\ [][ParkedInTime]_vars => []FifoSettlementOrder
  BY SettlementsFollowTheQueue
<1>. QED
  BY <1>2, <1>3, <1>4, <1>5, AlwaysInv, PTL DEF Spec
=============================================================================
