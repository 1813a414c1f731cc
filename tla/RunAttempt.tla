----------------------------- MODULE RunAttempt -----------------------------
(***************************************************************************)
(* The durable coordinator: Attempts, recovery passes, queued aborts and    *)
(* operators acting on one Thread, through the accepted-work ledger         *)
(* (SubmissionLedger) and the canonical log (ThreadLog).                    *)
(*                                                                          *)
(* Every call to a store is one step; between two calls of one process any  *)
(* other process may act, a lease may expire, the process may die.  What a  *)
(* process remembers between two calls is its job.                          *)
(*                                                                          *)
(* A Run is one Turn that may declare one ordinary, non-idempotent Tool     *)
(* Call, under the default reconciler, which never proves anything.         *)
(* Joins, approvals and children are not composed here: rows are root       *)
(* Submissions, already ready, each run by its own claim.                   *)
(***************************************************************************)
EXTENDS Integers, Sequences, FiniteSets

CONSTANTS
  Worker,      \* processes that drain the lane
  Recoverer,   \* processes that sweep it
  Rows,        \* bound of the model: Submissions of the Thread
  None,        \* "undefined"
  MaxEpoch,    \* bound of the model: claims granted
  MaxRefresh,  \* MAX_APPEND_FENCE_REFRESHES
  MaxForeign,  \* bound of the model: records of other writers of the epoch
  MaxFault,    \* bound of the model: crashes, failures and early expiries
  MaxSweep,    \* bound of the model: rows examined by recovery
  Choice       \* what operators may do, among Choices

\* The resolutions an operator can record for an unknown Call, and the abort.
Answers == {"SafeToRetry", "NeverHappened", "CompletedWithResult"}
Choices == Answers \cup {"abort"}

ASSUME AttemptConstants ==
  /\ Rows \in Nat \ {0}
  /\ {MaxEpoch, MaxRefresh, MaxForeign, MaxFault, MaxSweep} \subseteq Nat
  /\ Choice \subseteq Choices
  /\ Worker \cap Recoverer = {}
  /\ None \notin 1..Rows
  /\ None \notin {"completed", "failed", "aborted", "cancelled"} \cup Answers
  /\ None \notin [outcome : {"completed", "failed", "aborted"},
                 ends : {"completed", "failed", "cancelled", None}]

Submission == 1..Rows
Process == Worker \cup Recoverer
Lane == "thread"
Call == "call"
Outcome == {"completed", "failed", "aborted"}

\* The records a Run leaves behind, each under an identity derived from the
\* Submission: UserInputRecorded, ModelResponseRecorded declaring the Call,
\* ToolCallPrepared, ToolCallSettled, ToolCallUnknown, RunCompleted (with the
\* closing response), AbortRequested and SubmissionSettled.
Kind == {"input", "response", "prepared", "closed", "unknown", "final", "abort", "settled"}
Identity == [kind : Kind, of : Submission] \cup [kind : {"other"}, of : 1..MaxForeign]
Saying == Outcome \cup {"-"}

VARIABLES
  adm, sub, next, epoch, stopped, minted,   \* the ledger
  fence, log,                               \* the canonical log
  job,      \* what each process is doing and remembers
  ran,      \* how often the handler of a Run's Call started (outside world)
  consent,  \* the recorded resolution of a Run's Call
  faults,   \* faults so far
  sweeps    \* rows examined by recovery so far

ledger == <<adm, sub, next, epoch, stopped, minted>>
canon == <<fence, log>>
budget == <<faults, sweeps>>
vars == <<ledger, canon, job, ran, consent, faults, sweeps>>

L == INSTANCE SubmissionLedger WITH
  Thread <- {Lane}, Key <- Submission, Group <- {}, Origin <- {"none"},
  Call <- {Call}, JoinLimit <- 0, MaxEpoch <- [t \in {Lane} |-> MaxEpoch]
T == INSTANCE ThreadLog WITH
  Thread <- {Lane}, Batch <- Identity, Record <- Identity, Body <- Saying,
  MaxBatches <- Rows * Cardinality(Kind) + MaxForeign

-----------------------------------------------------------------------------
(***************************************************************************)
(* The memory of a process.                                                 *)
(***************************************************************************)
Attempting == {"respond", "prepare", "execute", "close", "complete"}
Position ==
  {"idle", "claimed", "attend", "load", "read", "tail", "input", "marker", "reconcile", "answer",
   "unknown", "park", "model", "halt", "abort", "audit", "reserve", "record",
   "finalize", "release", "inspect", "seek", "acquire", "wake"} \cup Attempting

\* What a RecoverySnapshot says of its row.
Snapshot ==
  [abort : BOOLEAN, applied : BOOLEAN, reserved : Outcome \cup {None},
   answered : BOOLEAN, state : L!SubmissionState, owned : BOOLEAN]
SnapshotOf(s) ==
  [abort |-> sub[s].abort, applied |-> sub[s].applied,
   reserved |-> IF sub[s].reserved = None THEN None ELSE sub[s].reserved.outcome,
   answered |-> sub[s].resolved # {}, state |-> sub[s].state, owned |-> L!Owned(s)]
NoSnapshot ==
  [abort |-> FALSE, applied |-> FALSE, reserved |-> None,
   answered |-> FALSE, state |-> "ready", owned |-> FALSE]

Job ==
  [at : Position, s : Submission, token : Nat, epoch : Nat, tail : Nat, refresh : Nat,
   knows : SUBSET Kind, row : Snapshot, plan : Position, outcome : Outcome \cup {None}]
Idle ==
  [at |-> "idle", s |-> 1, token |-> 0, epoch |-> 0, tail |-> 0, refresh |-> 0,
   knows |-> {}, row |-> NoSnapshot, plan |-> "idle", outcome |-> None]

TypeOK ==
  /\ L!TypeOK
  /\ T!TypeOK
  /\ job \in [Process -> Job]
  /\ ran \in [Submission -> Nat]
  /\ consent \in [Submission -> Answers \cup {None}]
  /\ faults \in 0..MaxFault
  /\ sweeps \in 0..MaxSweep

Id(kind, s) == [kind |-> kind, of |-> s]
Length == Len(log[Lane])
\* The kinds of the records of s in the canonical log.
Recorded(s) == {k \in Kind : \E i \in 1..Length : log[Lane][i].batch = Id(k, s)}

\* A prepared Call without a canonical outcome, in what a process knows.
OpenIn(kinds) == "prepared" \in kinds /\ "closed" \notin kinds
Repairing(p) == p \in Recoverer

Init ==
  /\ adm = [s \in Submission |-> [thread |-> Lane, key |-> s, group |-> None,
                                  origin |-> "none", seq |-> s]]
  /\ sub = [s \in Submission |-> [L!Fresh EXCEPT !.state = "ready"]]
  /\ next = [t \in {Lane} |-> Rows + 1]
  /\ epoch = [t \in {Lane} |-> 0]
  /\ stopped = [t \in {Lane} |-> "open"]
  /\ minted = 0
  /\ T!Init
  /\ job = [p \in Process |-> Idle]
  /\ ran = [s \in Submission |-> 0]
  /\ consent = [s \in Submission |-> None]
  /\ faults = 0
  /\ sweeps = 0

Set(p, j) == job' = [job EXCEPT ![p] = j]
\* A step that only moves the process.
Only(p, j) == Set(p, j) /\ UNCHANGED <<ledger, canon, ran, consent, budget>>
\* A job on its way to a position, without what no later step of it reads.
Bound(j, at) ==
  CASE at \in {"finalize", "release"} -> [Idle EXCEPT !.at = at, !.s = j.s, !.token = j.token]
    [] at \in {"reserve", "record"} ->
         [j EXCEPT !.at = at, !.knows = {}, !.row = NoSnapshot, !.plan = "idle"]
    [] OTHER -> [j EXCEPT !.at = at]
Goto(p, at) == Only(p, Bound(job[p], at))

\* A call to the ledger that is accepted, or refused: a refused process gives
\* up its claim.
Told(p, call, then) ==
  /\ call
  /\ Set(p, Bound(job[p], then))
  /\ UNCHANGED <<canon, ran, consent, budget>>
Refused(p) == Goto(p, "release")

-----------------------------------------------------------------------------
(***************************************************************************)
(* appendBatch: a stale tail is refreshed a bounded number of times, a      *)
(* superseded epoch always fails.  At the tolerant call sites every other   *)
(* conflict is read as "already recorded".                                  *)
(***************************************************************************)
Conflicts(p, done, tolerant) == IF tolerant THEN Only(p, done) ELSE Refused(p)
\* Mutant: a superseded epoch, too, is read as "already recorded".
FenceSwallowed(p, done, tolerant) == Conflicts(p, done, tolerant)
FenceRejects(p, done, tolerant) == Refused(p)

Appends(p, kind, body, tolerant, then) ==
  LET j == job[p]
      id == Id(kind, j.s)
      q == [batch |-> id, records |-> {id}, body |-> body]
      done(tail) ==
        Bound([j EXCEPT !.knows = @ \cup {kind}, !.tail = tail, !.refresh = 0, !.plan = "idle"],
              then)
      fenced == T!Fenced(Lane, j.epoch)
      replays == T!Replays(Lane, j.tail, q)
      stale == ~T!Holds(Lane, q) /\ j.tail # Length
  IN
  \/ /\ T!AppendBatch(Lane, j.epoch, j.tail, q)
     /\ Set(p, done(j.tail + 1))
     /\ UNCHANGED <<ledger, ran, consent, budget>>
  \/ fenced /\ replays /\ Only(p, done(j.tail + 1))
  \/ /\ fenced /\ stale /\ j.refresh < MaxRefresh
     /\ Only(p, [j EXCEPT !.tail = Length, !.refresh = @ + 1])
  \/ /\ fenced /\ ~replays
     /\ T!Holds(Lane, q) \/ (stale /\ j.refresh = MaxRefresh)
     /\ Conflicts(p, done(j.tail), tolerant)
  \/ ~fenced /\ FenceRejects(p, done(j.tail), tolerant)

-----------------------------------------------------------------------------
(***************************************************************************)
(* An Attempt: claim, fence the log, read, and act on what was read.        *)
(***************************************************************************)
Claimed(s) ==
  [Idle EXCEPT !.at = "claimed", !.s = s, !.token = minted + 1, !.epoch = epoch[Lane] + 1]
Claim(p, s) ==
  /\ p \in Worker /\ job[p] = Idle
  /\ L!Claim(s)
  /\ Set(p, Claimed(s))
  /\ UNCHANGED <<canon, ran, consent, budget>>

\* The claim's epoch becomes the fence of the log, unless a later claim's has.
Attach(p) ==
  LET then == IF Repairing(p) THEN "tail" ELSE "load" IN
  /\ job[p].at = "claimed"
  /\ \/ /\ T!Materialize(Lane, job[p].epoch)
        /\ Set(p, [job[p] EXCEPT !.at = then])
        /\ UNCHANGED <<ledger, ran, consent, budget>>
     \/ fence[Lane] = job[p].epoch /\ Goto(p, then)
     \/ fence[Lane] > job[p].epoch /\ Refused(p)

Load(p) ==
  /\ job[p].at = "load"
  /\ Only(p, [job[p] EXCEPT !.row = SnapshotOf(job[p].s), !.at = "read"])

\* Mutants: a plan that marks the input it has yet to record; one that does
\* not look for a reservation.
PlanMarksFirst(row, kinds) ==
  IF "settled" \in kinds THEN "finalize"
  ELSE IF row.reserved # None THEN "record"
  ELSE IF row.abort THEN "abort" ELSE IF ~row.applied THEN "marker" ELSE "reconcile"
PlanForgets(row, kinds) ==
  IF "settled" \in kinds THEN "finalize"
  ELSE IF row.abort THEN "abort"
  ELSE IF "input" \notin kinds THEN "input"
  ELSE IF ~row.applied THEN "marker" ELSE "reconcile"
\* History first, then the reservation, then the abort, then the input.
PlanOf(row, kinds) ==
  IF "settled" \in kinds THEN "finalize"
  ELSE IF row.reserved # None THEN "record"
  ELSE IF row.abort THEN "abort"
  ELSE IF "input" \notin kinds THEN "input"
  ELSE IF ~row.applied THEN "marker" ELSE "reconcile"
OutcomeOf(row) == IF row.reserved # None THEN row.reserved ELSE IF row.abort THEN "aborted" ELSE None
\* Mutant: the context takes its epoch from the log, not from the claim.
ReadBorrowing(p) ==
  LET j == job[p] IN
  /\ j.at = "read"
  /\ Only(p, Bound([j EXCEPT !.knows = Recorded(j.s), !.tail = Length, !.epoch = fence[Lane],
                             !.row = NoSnapshot, !.outcome = OutcomeOf(j.row)],
                   PlanOf(j.row, Recorded(j.s))))
Read(p) ==
  LET j == job[p] IN
  /\ j.at = "read"
  /\ Only(p, Bound([j EXCEPT !.knows = Recorded(j.s), !.tail = Length,
                             !.row = NoSnapshot, !.outcome = OutcomeOf(j.row)],
                   PlanOf(j.row, Recorded(j.s))))

ApplyInput(p) == job[p].at = "input" /\ Appends(p, "input", "-", FALSE, "marker")
MarkInput(p) ==
  LET j == job[p]
      then == IF Repairing(p) THEN "release" ELSE "reconcile"
  IN
  /\ j.at = "marker"
  /\ \/ Told(p, L!MarkInputApplied(j.s, j.token), then)
     \/ L!OwnsLane(j.s, j.token) /\ sub[j.s].applied /\ Goto(p, then)
     \/ ~L!OwnsLane(j.s, j.token) /\ Refused(p)

\* reconcileOpenCalls: where an open Call leaves the process.
\* Mutants: an unproven Call is resumed; an unproven Call is parked at once.
TriageTrusting(p, kinds, answer) ==
  IF OpenIn(kinds) /\ answer = "CompletedWithResult" THEN "answer"
  ELSE IF Repairing(p) THEN "release" ELSE "model"
TriageUnrecorded(p, kinds, answer) ==
  IF OpenIn(kinds) /\ answer = None THEN "park"
  ELSE IF OpenIn(kinds) /\ answer = "CompletedWithResult" THEN "answer"
  ELSE IF Repairing(p) THEN "release" ELSE "model"
Triage(p, kinds, answer) ==
  IF OpenIn(kinds) /\ answer = None
  THEN IF "unknown" \in kinds THEN "park" ELSE "unknown"
  ELSE IF OpenIn(kinds) /\ answer = "CompletedWithResult" THEN "answer"
  ELSE IF Repairing(p) THEN "release" ELSE "model"
\* An Attempt reads again first; recovery keeps the history and the snapshot
\* of its pass, and never runs the Call itself.
Reconcile(p) ==
  LET j == job[p]
      kinds == IF Repairing(p) THEN j.knows ELSE Recorded(j.s)
      answer == IF Repairing(p) /\ ~j.row.answered THEN None ELSE consent[j.s]
  IN
  /\ j.at = "reconcile"
  /\ Only(p, Bound([j EXCEPT !.knows = kinds, !.row = NoSnapshot], Triage(p, kinds, answer)))
AppendClosedCall(p) ==
  /\ job[p].at = "answer"
  /\ Appends(p, "closed", "-", TRUE, IF Repairing(p) THEN "release" ELSE "model")
AppendUnknown(p) == job[p].at = "unknown" /\ Appends(p, "unknown", "-", TRUE, "park")
Park(p) ==
  LET s == job[p].s IN
  /\ job[p].at = "park"
  /\ \/ Told(p, L!MarkUnknown(s, {Call}), "release")
     \/ ~(L!Active(s) /\ sub[s].reserved = None) /\ Refused(p)

-----------------------------------------------------------------------------
\* The Run: each boundary is canonical before the Run goes on.
\* Mutant: a prepared Call is not waited for.
WaysHasty(kinds) ==
  IF "final" \in kinds THEN {"reserve"}
  ELSE IF "response" \notin kinds THEN {"respond", "complete"}
  ELSE IF "prepared" \notin kinds THEN {"prepare"} ELSE {"complete"}
Ways(kinds) ==
  IF "final" \in kinds THEN {"reserve"}
  ELSE IF "response" \notin kinds THEN {"respond", "complete"}
  ELSE IF "prepared" \notin kinds THEN {"prepare"}
  ELSE IF "closed" \notin kinds THEN {"execute"} ELSE {"complete"}
RunOn(p) ==
  /\ job[p].at = "model"
  /\ \E at \in Ways(job[p].knows) : Only(p, [job[p] EXCEPT !.at = at, !.outcome = "completed"])
\* A model or policy failure between two Turns, or a failing handler, ends the
\* Run.
RunFails(p) ==
  /\ \/ job[p].at = "model" /\ "final" \notin job[p].knows /\ ~OpenIn(job[p].knows)
     \/ job[p].at = "close" /\ job[p].refresh = 0
  /\ Only(p, Bound([job[p] EXCEPT !.outcome = "failed"], "reserve"))

CommitResponse(p) == job[p].at = "respond" /\ Appends(p, "response", "-", FALSE, "model")
PrepareCall(p) == job[p].at = "prepare" /\ Appends(p, "prepared", "-", FALSE, "execute")
Execute(p) ==
  /\ job[p].at = "execute"
  /\ ran' = [ran EXCEPT ![job[p].s] = @ + 1]
  /\ Set(p, [job[p] EXCEPT !.at = "close"])
  /\ UNCHANGED <<ledger, canon, consent, budget>>
CommitResults(p) == job[p].at = "close" /\ Appends(p, "closed", "-", FALSE, "model")
CompleteRun(p) == job[p].at = "complete" /\ Appends(p, "final", "-", FALSE, "reserve")

\* The fibers that race the Run.  The abort watcher takes the append gate,
\* records the abort, and interrupts the Run, which may get further before it
\* notices; the renewal keeps its lease or ends it.
InRun(p) == job[p].at \in Attempting \cup {"model"}
Watch(p) ==
  /\ InRun(p) /\ job[p].refresh = 0 /\ "abort" \notin job[p].knows
  /\ sub[job[p].s].abort
  /\ Only(p, [job[p] EXCEPT !.at = "halt", !.plan = job[p].at])
RecordHalt(p) == job[p].at = "halt" /\ Appends(p, "abort", "-", TRUE, job[p].plan)
Halt(p) ==
  /\ InRun(p) /\ "abort" \in job[p].knows
  /\ Only(p, Bound([job[p] EXCEPT !.outcome = "aborted", !.refresh = 0], "reserve"))
Renew(p) ==
  /\ InRun(p)
  /\ ~sub[job[p].s].live
  /\ \/ Told(p, L!RenewOwnership(job[p].s, job[p].token), job[p].at)
     \/ ~L!OwnsLane(job[p].s, job[p].token) /\ Refused(p)

-----------------------------------------------------------------------------
\* settleAborted, then terminalize.
RecordAbort(p) ==
  /\ job[p].at = "abort"
  /\ IF "abort" \in job[p].knows THEN Goto(p, "audit")
     ELSE Appends(p, "abort", "-", TRUE, "audit")
AuditOpenCalls(p) ==
  /\ job[p].at = "audit"
  /\ IF OpenIn(job[p].knows) /\ "unknown" \notin job[p].knows
     THEN Appends(p, "unknown", "-", TRUE, "reserve")
     ELSE Goto(p, "reserve")
Reserve(p) ==
  LET j == job[p]
      entitled == L!QueuedAbortSettlement(j.s, j.outcome) \/ L!OwnsLane(j.s, j.token)
  IN
  /\ j.at = "reserve"
  /\ \/ Told(p, L!ReserveSettlement(j.s, j.token, j.outcome, None), "record")
     \/ ~(entitled /\ sub[j.s].reserved = None) /\ Refused(p)
RecordSettlement(p) ==
  job[p].at = "record" /\ Appends(p, "settled", job[p].outcome, TRUE, "finalize")
Finalize(p) ==
  LET s == job[p].s IN
  /\ job[p].at = "finalize"
  /\ \/ Told(p, L!FinalizeSettlement(s), "release")
     \/ (sub[s].reserved = None \/ sub[s].state = "settled") /\ Refused(p)

\* The claim's scope closes: whatever it still owns is given back.
Release(p) ==
  LET j == job[p] IN
  /\ j.at = "release"
  /\ \/ L!ReleaseOwnership(j.s, j.token)
     \/ ~L!OwnsLane(j.s, j.token) /\ UNCHANGED ledger
  /\ Set(p, Idle)
  /\ UNCHANGED <<canon, ran, consent, budget>>

-----------------------------------------------------------------------------
(***************************************************************************)
(* Recovery: history first, then the row, then the claim.  What was read    *)
(* may be old by the time the claim is granted.                             *)
(***************************************************************************)
Sweep(p, s) ==
  /\ p \in Recoverer /\ job[p] = Idle
  /\ sweeps < MaxSweep
  /\ L!Active(s)
  /\ sweeps' = sweeps + 1
  /\ Set(p, [Idle EXCEPT !.at = "inspect", !.s = s, !.knows = Recorded(s)])
  /\ UNCHANGED <<ledger, canon, ran, consent, faults>>

\* classifyRecovery: the position the repair starts from, "idle" when it is
\* left to a worker or to an operator.
Repair(row, kinds) ==
  CASE row.state = "settled" -> "idle"
    [] row.state # "settled" /\ PlanOf(row, kinds) \in {"finalize", "record", "abort"} ->
         PlanOf(row, kinds)
    [] OTHER ->
         IF row.state = "unknown" THEN (IF OpenIn(kinds) /\ ~row.answered THEN "idle" ELSE "wake")
         ELSE IF OpenIn(kinds) THEN "reconcile"
         ELSE IF PlanOf(row, kinds) = "input" /\ row.state = "ready" THEN "idle"
         ELSE IF PlanOf(row, kinds) = "reconcile" THEN "idle" ELSE PlanOf(row, kinds)
Inspect(p) ==
  LET j == job[p]
      row == SnapshotOf(j.s)
      plan == Repair(row, j.knows)
  IN
  /\ j.at = "inspect"
  /\ Only(p, IF plan = "idle" THEN Idle
             ELSE [j EXCEPT !.row = row, !.plan = plan, !.outcome = OutcomeOf(row),
                            !.at = IF plan \in {"wake", "finalize"} THEN plan ELSE "seek"])

\* applyUnknownResolutions replays the recorded intents as wakes.
Wake(p) ==
  LET s == job[p].s IN
  /\ job[p].at = "wake"
  /\ \/ job[p].row.answered /\ Told(p, L!RecordUnknownResolution(s, Call), "release")
     \/ ~(job[p].row.answered /\ L!Active(s)) /\ Refused(p)

\* claimFor: the head is looked up, then claimed; a claim of another row is
\* given back at once.
Claimable(h) ==
  L!IsHead(h) /\ L!LaneIdle(Lane) /\ sub[h].state \notin L!BlockedHeadStates
Unclaimed(p) ==
  LET j == job[p]
      queued == /\ ~j.row.owned
                /\ \/ j.plan = "abort" /\ j.row.state = "ready"
                   \/ j.plan = "record" /\ j.outcome = "aborted" /\ j.row.abort
  IN Only(p, IF queued THEN [j EXCEPT !.at = "attend"] ELSE Idle)
Seek(p) ==
  /\ job[p].at = "seek"
  /\ IF L!IsHead(job[p].s) THEN Goto(p, "acquire") ELSE Unclaimed(p)
Acquire(p) ==
  LET j == job[p] IN
  /\ j.at = "acquire"
  /\ \/ /\ \E h \in Submission :
             /\ L!Claim(h)
             /\ Set(p, [j EXCEPT !.s = h, !.token = minted + 1, !.epoch = epoch[Lane] + 1,
                                 !.at = IF h = j.s THEN "claimed" ELSE "release"])
        /\ UNCHANGED <<canon, ran, consent, budget>>
     \/ (\A h \in Submission : ~Claimable(h)) /\ Unclaimed(p)
\* The tail is read once the log is fenced; only the input repairs also read
\* the history again.
ReadTail(p) ==
  LET j == job[p]
      again == j.plan \in {"input", "marker"}
      kinds == IF again THEN Recorded(j.s) ELSE j.knows
      at == IF ~again THEN j.plan
            ELSE IF "input" \notin kinds THEN "input"
            ELSE IF ~j.row.applied THEN "marker" ELSE "release"
      row == IF at = "reconcile" THEN j.row ELSE NoSnapshot
  IN
  /\ j.at = "tail"
  /\ Only(p, Bound([j EXCEPT !.knows = kinds, !.tail = Length, !.row = row, !.plan = "idle"], at))
\* A queued abort settles without a claim, at the tail and fence it finds.
Attend(p) ==
  LET j == job[p]
      at == [j EXCEPT !.at = j.plan, !.tail = Length]
  IN
  /\ j.at = "attend"
  /\ \/ /\ T!Materialize(Lane, 0)
        /\ Set(p, [at EXCEPT !.epoch = 0])
        /\ UNCHANGED <<ledger, ran, consent, budget>>
     \/ fence[Lane] >= 0 /\ Only(p, [at EXCEPT !.epoch = fence[Lane]])

-----------------------------------------------------------------------------
(***************************************************************************)
(* Everything else: operators, other writers of the epoch, time, failures.  *)
(***************************************************************************)
RequestAbort(s) ==
  /\ "abort" \in Choice /\ ~sub[s].abort
  /\ L!RequestAbort(s)
  /\ UNCHANGED <<canon, job, ran, consent, budget>>

\* An operator resolves what it sees parked, says what is true, and never
\* changes its answer.
ResolveUnknown(s, answer) ==
  /\ sub[s].state = "unknown"
  /\ \/ consent[s] = answer
     \/ /\ consent[s] = None
        /\ answer = "NeverHappened" => ran[s] = 0
        /\ answer = "CompletedWithResult" => ran[s] > 0
  /\ L!RecordUnknownResolution(s, Call)
  /\ consent' = [consent EXCEPT ![s] = answer]
  /\ UNCHANGED <<canon, job, ran, budget>>

\* Lineage and audit records of other components reach the same log.
ForeignAppend(i) ==
  LET id == [kind |-> "other", of |-> i] IN
  /\ fence[Lane] >= 0
  /\ i = 1 + Cardinality({n \in 1..Length : log[Lane][n].batch.kind = "other"})
  /\ T!AppendBatch(Lane, fence[Lane], Length, [batch |-> id, records |-> {id}, body |-> "-"])
  /\ UNCHANGED <<ledger, job, ran, consent, budget>>

Holder(s) == {p \in Process : job[p] # Idle /\ L!OwnsLane(s, job[p].token)}
\* A lease outlives its owner; it ends before its owner does only when the
\* owner is stalled, which is a fault.
LeaseExpires(s) ==
  /\ L!LeaseExpires(s)
  /\ \/ Holder(s) = {} /\ UNCHANGED faults
     \/ Holder(s) # {} /\ faults < MaxFault /\ faults' = faults + 1
  /\ UNCHANGED <<canon, job, ran, consent, sweeps>>
Fault(p) ==
  /\ job[p] # Idle
  /\ faults < MaxFault
  /\ faults' = faults + 1
  /\ UNCHANGED <<ledger, canon, ran, consent, sweeps>>
Crash(p) == Fault(p) /\ Set(p, Idle)
\* A store or a binding fails under the process; its finalizer still runs.
Fail(p) == Fault(p) /\ job[p].at # "release" /\ Set(p, [job[p] EXCEPT !.at = "release"])

Step(p) ==
  \/ Attach(p) \/ Load(p) \/ Read(p) \/ ApplyInput(p) \/ MarkInput(p)
  \/ Reconcile(p) \/ AppendClosedCall(p) \/ AppendUnknown(p) \/ Park(p)
  \/ RunOn(p) \/ RunFails(p) \/ CommitResponse(p) \/ PrepareCall(p) \/ Execute(p)
  \/ CommitResults(p) \/ CompleteRun(p) \/ RecordHalt(p)
  \/ RecordAbort(p) \/ AuditOpenCalls(p) \/ Reserve(p) \/ RecordSettlement(p)
  \/ Finalize(p) \/ Release(p)
  \/ Inspect(p) \/ Wake(p) \/ Seek(p) \/ Acquire(p) \/ ReadTail(p) \/ Attend(p)

Operate ==
  \E s \in Submission :
    RequestAbort(s) \/ \E answer \in Choice \cap Answers : ResolveUnknown(s, answer)

Next ==
  \/ \E p \in Process :
       \/ Step(p) \/ Watch(p) \/ Halt(p) \/ Renew(p) \/ Crash(p) \/ Fail(p)
       \/ \E s \in Submission : Claim(p, s) \/ Sweep(p, s)
  \/ Operate
  \/ \E s \in Submission : LeaseExpires(s)
  \/ \E i \in 1..MaxForeign : ForeignAppend(i)

Spec == Init /\ [][Next]_vars

\* Processes that are not stopped go on, a drained lane is claimed again, the
\* lease of a dead owner runs out, and operators answer.
OrphanExpires == \E s \in Submission : Holder(s) = {} /\ LeaseExpires(s)
Answered == \E s \in Submission, answer \in Choice \cap Answers : ResolveUnknown(s, answer)
Fairness ==
  /\ \A p \in Process : WF_vars(Step(p))
  /\ \A p \in Worker : SF_vars(\E s \in Submission : Claim(p, s))
  /\ WF_vars(OrphanExpires)
  /\ WF_vars(Answered)
FairSpec == Spec /\ Fairness

-----------------------------------------------------------------------------
(***************************************************************************)
(* Properties.                                                              *)
(***************************************************************************)
Holds(k, s) == k \in Recorded(s)
At(k, s) == {i \in 1..Length : log[Lane][i].batch = Id(k, s)}
Precedes(k, r, l, s) == \E i \in At(k, r), j \in At(l, s) : i < j

\* The ledger never runs ahead of history: a settled row has its canonical
\* settlement record, with the outcome the ledger reports (the checker's
\* ledger-canonical-agreement).
SettlementIsCanonical ==
  \A s \in Submission :
    sub[s].state = "settled" =>
      \E i \in At("settled", s) : log[Lane][i].body = sub[s].outcome

\* A consumed-input marker is only ever evidence of a canonical input.
MarkerFollowsHistory ==
  \A s \in Submission : sub[s].applied => Holds("input", s)

\* A Run that owes a completed settlement has recorded its completion, and
\* every Call it prepared was closed before that.
CompletionIsWhole ==
  \A s \in Submission :
    sub[s].reserved # None /\ sub[s].reserved.outcome = "completed" =>
      /\ Holds("final", s)
      /\ Holds("prepared", s) => Precedes("closed", s, "final", s)

\* The handler of an ordinary Call starts at most once until an operator says
\* it may start again, whatever crashes, and never before its preparation is
\* canonical.
RunsToolOnce ==
  \A s \in Submission :
    /\ ran[s] > 0 => Holds("prepared", s)
    /\ consent[s] \in {None, "CompletedWithResult"} => ran[s] <= 1

\* Canonical inputs follow the queue (fifo-input-order).
FifoInputOrder ==
  \A r, s \in Submission :
    r < s /\ Holds("input", r) /\ Holds("input", s) => Precedes("input", r, "input", s)

\* fifo-settlement-order: settlements follow the queue too, but for aborted
\* work that never ran, and for an earlier Run that was canonically unknown
\* when the later input became active.
NeverRun(s) ==
  ~Holds("input", s) /\ \E i \in At("settled", s) : log[Lane][i].body = "aborted"
Bypassed(r, s) ==
  \E u \in At("unknown", r), n \in At("input", s) :
    /\ u < n
    /\ \A k \in {"abort", "final", "settled"} : \A i \in At(k, r) : i > n
    /\ \A i \in At("closed", r) : i < u \/ i > n
FifoSettlementOrder ==
  \A r, s \in Submission :
    r < s /\ Holds("settled", r) /\ Holds("settled", s) /\ ~NeverRun(r) /\ ~NeverRun(s) =>
      Precedes("settled", r, "settled", s) \/ Bypassed(r, s)

\* A settled Run does not run: no Turn, no prepared Call and no completion of
\* it becomes canonical behind its settlement record.
SettlementEndsTheRun ==
  \A s \in Submission, k \in {"response", "prepared", "final"} :
    ~Precedes("settled", s, k, s)

\* Attempts write history in the order of their epochs: whatever a superseded
\* one still sends, nothing of it lands behind a record of a newer one.
HistoryIsFenced == T!HistoryIsFenced

\* Accepted work settles: under fair scheduling, and after finitely many
\* faults, every Submission reaches its settlement.
EventuallySettled == \A s \in Submission : <>(sub[s].state = "settled")
=============================================================================
