# Verification of the durable agent runtime

TLA+ models of the parts of this repository that decide whether accepted work
is executed once, in order, and to the end: the accepted-work ledger, the
canonical log, the durable coordinator with its recovery, attached children and
their budgets, scheduled input, event subscriptions, and the retained delivery
of messages.
TLC checks the models on small instances; TLAPS proves what matters most about
them for every instance. Paths below are relative to
`src/packages/effect-agent/src/durable/` unless they say otherwise.

## The system

A client *submits* input for a Thread and gets a Receipt once the Submission is
durably accepted. Workers claim the head of a Thread's lane under a lease, run
an *Attempt* of it (Turns of a model, with Tool Calls), write every boundary to
the Thread's append-only canonical log, and settle it. Processes crash, leases
expire, stores fail; recovery passes repair whatever was left half done. Two
stores hold all durable state, and no transaction spans them: the ledger says
who owns what, the log says what happened.

| Part | State it keeps | Operations | Correct when |
|---|---|---|---|
| Submission ledger (`SubmissionLedger.ts`, `storage-memory/src/MemorySubmissionLedger.ts`) | a row per Submission (state, host, tokens and epoch, lease, markers, reservation, suspension, decisions), lane order, worker seals, child reservations | `admit`, `claim` (with a handoff), renewal, release, `markInputApplied`, reserve/finalize settlement, joins, `suspend`, decisions, `markUnknown`, `stopWorker`, child budgets | one owner per lane; FIFO; the reserved outcome wins; nothing decided is withdrawn; a seal leaves no work behind |
| Canonical log (`ThreadStore.ts`, `storage-memory/src/MemoryThreadStore.ts`) | batches in order, the producer epoch that fences them | `materialize`, `appendBatch`, reads, checkpoints | append-only; written in epoch order; a record exists once |
| Coordinator (`DurableAgentRuntime.ts`) | in memory only: claim, tail, what it has read; its fibers | an Attempt from claim to release: input, reconciliation of open Calls, Turns, abort watcher, lease renewal, settlement | no Call runs twice unasked; a settlement is whole, canonical and final; accepted work settles |
| Recovery (`Recovery.ts`, same file) | none | a pass classifies each unsettled row from history and snapshot and repairs it | its repairs commute with live Attempts |
| Steering joins | rows linked to a host; a join marker in the log | drain at a Turn boundary, revert, repair, settle with the host | joined input is seen by a model call or goes back to the queue |
| Subagents and child budgets (`../capabilities/Subagent.ts`) | a child Thread per delegation, reservation rows | establish, wait, join, release, abort propagation | a parent never waits for ever; budgets are released once |
| Run journal and engine loop (`RunJournal.ts`, `../engine`) | the transcript of a Run | Turn loop, tool scheduling, compaction, resume | a resumed Run continues the recorded one |
| In-run budgets (`../capabilities/Budget.ts`) | reserved and spent amounts | reserve, commit, release | limits hold |
| Scheduled input (`Schedule.ts`, `ScheduleTransition.ts`, `Scheduling.ts`, `internal/schedule-time.ts`) | a record per schedule: state, revision, cursor, pending delivery and its retry | create, update, pause, resume, cancel, recover; the driver's prepare, deliver, complete, refuse, retry | no firing lost, doubled, or both skipped and delivered |
| Subscriptions (`Subscriptions.ts`, `SubscriptionTransition.ts`) | subscriptions, events, one delivery per pair | route, prepare, deliver, observe settlement | a delivery per event, exactly as authorized |
| Message delivery (`MessageDelivery.ts`) | a leased record per message | claim, accept, observe, retry, park, recover | ordered, at-least-once, idempotent admission |
| Worker host and admission (`WorkerAdmission.ts`, `internal/worker-host.ts`) | assignments, reports | admit, stop, report | no assignment after the seal |
| Wake scheduling (`WakeScheduler.ts`) | queued wake-ups | notify, drain | a lost wake-up is made up by the poll |
| Lifecycle publication (`LifecyclePublication.ts`) | a cursor per sink | publish, acknowledge | in order, resumable |
| Invariant checker, administration (`ThreadInvariants.ts`, `Admin.ts`) | none | read-only audits of a Thread | agrees with what the runtime may do |
| Cloudflare host (`platform-cloudflare/src/Alarm.ts`, `internal/due-queue.ts`) | an alarm and a due queue | arm, fire, acknowledge | no due work without an alarm |
| SQL adapters (`storage-sql`, `storage-postgres`, `storage-cloudflare`) | the same stores in tables | the same operations | equal to the reference adapters |
| Sandboxes, code mode, MCP, applications | little or none | external processes and services | out of scope |

Interactions: the coordinator and recovery call both stores, one call at a
time; the ledger's epoch, minted by a claim, becomes the log's fence; wake-ups
only tell a worker when to look. Schedules, subscriptions and messages are
producers: they submit into the ledger under idempotency keys.

What is hard in this code, and aimed at by the properties (`hazards` in
`PROJECT.json` lists each at its line): two Attempts of one row overlapping
after a lease expired; a process dying between the two stores; recovery acting
on history it read before its claim; a suspend racing the decision it waits
for; a stop racing claims and joins; a refused append read as "already
recorded"; parked work bypassed and resumed; a completion that arrives after
its delivery was recovered, replaced or cancelled.

## The modules

| Module | Models | Composed of |
|---|---|---|
| `SubmissionLedger` | the ledger, one action per operation | |
| `AcceptedWork` | what the ledger promises: accepted once, one verdict, settled with it, nothing accepted after the seal | |
| `ThreadLog` | the canonical log | |
| `RunAttempt` | workers, recovery, operators and faults on one Thread | `L == INSTANCE SubmissionLedger`, `T == INSTANCE ThreadLog` |
| `ChildWork` | a parent Run, its attached children, their reservations, and recovery | `L == INSTANCE SubmissionLedger` |
| `Schedule` | the schedules of one owner and the drivers that deliver them | |
| `MessageDelivery` | the outbox of one worker, its drivers and the destination | |
| `OrderedHandover` | what retained delivery promises: each message handed over once, in order, and its verdict final | |
| `Subscription` | registrations, events, deliveries, routing, reconciliation, compaction | |
| `MC...` | the instances TLC checks | |
| `...Proofs` | the theorems of a module | |

**SubmissionLedger.** In the reference adapter every operation is one
`Ref.modify`, so every operation is one action. `sub[s]` is the stored row:
`state`, `host` (`hostSubmissionId`), `token` and `epoch`
(`ownershipToken`, `producerEpoch`), `live` (whether the lease has yet to
expire), `applied` (the consumed-input marker), `reserved` and `outcome`,
`waiting` (the suspension), decisions and resolutions; `adm[s]` is what
admission fixed. The callers are unrestricted: any token ever minted may be
presented at any time, which covers every stale worker. A refused call and an
idempotent replay change nothing, so they are stuttering steps. `MaxEpoch`
bounds the claims. The child reservation rows of the same file are in
`ChildWork`.

**AcceptedWork.** A Submission is home to a Thread or to none, has a phase
(none, owed, settled) and a verdict. `PhaseOf`, `VerdictOf` and `HomeOf` in
`SubmissionLedger` are the refinement mapping; `KeepsPromise` says that the
ledger implements it.

**ThreadLog.** `fence[t]` is the producer epoch and `log[t]` the sequence of
batches. A canonical tail is a sequence number and a digest chained over all
batches before it; it is abstracted to the number of batches, which is faithful
as long as digests do not collide. The log has no run of its own: `RunAttempt`
drives it the way the runtime does, and its theorems cover callers presenting
any epoch, any old tail and any batch. Checkpoints, reads and the limit on the
number of Threads are not modelled.

**RunAttempt.** `job[p]` is what a process remembers between two store calls:
where it is, the row, its token and epoch, the tail it believes in, the kinds of
records it knows, the snapshot it read. A crash forgets it; a failure sends it to
its finalizer (`Release`). `Appends` is `appendBatch` with its refresh of a
stale tail, its tolerant call sites and its fence. `Watch`, `RecordHalt`, `Halt`
and `Renew` are the fibers that race the Run. `Sweep` to `Attend` is a recovery
pass: history is read first, then the row, then the claim is asked for.
Records are named by their kind and Submission, as the code derives their
identities. Abstractions, each on the side of fewer details and none of fewer
interleavings of store calls:

- one Turn with at most one ordinary, non-idempotent Tool Call per Run, under
  the default reconciler, which never proves anything;
- `ThreadCreated`, `RunStarted` and `RepairAnnotated` records are left out: no
  decision reads them in this part;
- the tail and the history an Attempt starts from are read in one step;
- operators say what is true when they answer, and never change an answer;
- delegated Calls are in `ChildWork`; handoffs, joins, approvals, streaming and
  budgets are not composed.

**ChildWork.** What holds a parent and a child together is the order of writes
in three places: the reservation row of the child's budget, the parent's log
(`SubagentRequested`, `SubagentStarted`, `SubagentJoined`) and the child's own
Submission. `row[c]`, `said[c]` and the ledger's `sub[c]` are these, and every
write is a step: `Reserve`, `Request`, `Admit`, `Ready`, `Start`, `Link`,
`Join`, `Freeze`, `Free`. The functions of the code that walk over all Calls
share those steps and differ in where they open a Call and where they go next:
`Opening`, `AfterReady`, `AfterLink`, `Over` read a job's purpose, which is
`run` (`establishSubagent`, `joinSubagent`), `abort` (`abortAttachedChildren`),
`expire` (`reconcileRetainedChildren`), `account` (`completeJoinedReleases`) or
a decision of recovery (`Decision`: the order of cases of
`classifyDelegationRepairs`, `classifyDelegationAbort` and `classifyRecovery`).
A job forgets the evidence of a Call it has dealt with; nothing reads it again.
`child[c]` is the Attempt that settles the child: it announces itself before and
after its settlement is final, and either announcement may be lost in a crash.
`FindsItsChild` and `SleepsOnChildren` are about views that outlive a crash: a
request in the log does not say whether its admission was ever answered, and who
asks, waits or goes to sleep on it later must not take it for a child that runs.
Left out: denials, the arithmetic of the caps on a budget, subtree pools, the
verification of a child's records (it is taken to succeed), an admission whose
outcome stays unknown, and a parent whose handler is no longer available.

**Schedule.** `record[s]` is the stored schedule, with the timing as the set of
the instants it fires at, so calendar arithmetic is out of the model but the
coalescing and skipping of firings is in. A driver's `job` keeps what
`process` holds across its awaits: the reading of the clock, the record's
revision and cursor, the due occurrence, and the pending delivery it sends.
`admitted` and `barred` are the destination, which admits a key once and
refuses one for good. `prepared`, `skipped`, `received`, `declined`, `since` and
`spent` are history variables: no guard reads them. All clocks are one clock;
what a call read of it may be old when it commits. The record's version appears
through what it is for: a control command commits on the record it read, so
only its clock reading may be stale, and no staler than the record's last
change (`touched`). Corrupt rows and the digests that find them are left out.

**MessageDelivery.** `journal` is the sequence of updates accepted in the
worker's log, `row[m]` the record of the delivery store (with its version,
lease, attempts, deadline and generation), `call[d]` what one call of
`MessageDeliveryDriver.process` remembers between two awaits: `Start` reads the
row, `Order` and `Defer` look at its predecessor, `Claim` takes the lease on the
clock read before that, `Sign` verifies the digest, `Send` or `Ask` speaks to
the destination, `Commit` and `Park` write what was heard, fenced by the version.
A request may outlive the call that sent it (`wire`, `Land`). `Draft`, `Accept`
and `Insert` are the acceptance of an update, whose row is inserted from the
journal then or by a later repair. The destination settles, acknowledges the
source (`notifyParentOfChildSettlement`) and only then finalizes. The
transitions of a row are operators of their own (`Claiming`, `Accepting`,
`Recovery`, ...), one per case of `applyMessageDeliveryChange`.

**OrderedHandover** is the abstract specification of it: a journal of messages,
those the destination has taken, a verdict per message and those that ended. A
message is taken only when every earlier one is decided. `HandsOver` maps the
detailed state to it.

**Subscription.** `reg[s]`, `event[e]` and `delivery[s][e]` are the stored
records; `call[d]` is a page of registrations selected before the event's
cursor is committed, a reconciliation, or a delivery under way. A reconciliation
is listed by the sweep (`List`) and its registration read again when its turn
comes (`Seek`): it is given up for a registration that was paused, cancelled or
has expired in between, put off when the source observes nothing or anything
fails (`Defer`), or ends in a selection (`Find`, `CatchUp`). A delivery is
prepared from what was read at `Begin`; `Freeze` stores the preparation and goes
on with the delivery as it is stored, so what is sent, and counted if it fails,
belongs to the stored generation. A failure the call handles is counted on what
it read (`Fail`); one it leaves to the sweep on the delivery as the sweep finds
it (`Failed`). Time appears only through what it decides: configurations that
have expired (`lapsed`), events old enough to compact (`aged`) and too old to
accept (`beyond`). `taken` and `misses` are history variables: `misses[s][e]`
grows when an attempt fails that read the present generation, or when the sweep
takes up a failure, and not when `Retry` records it.

## The runs

Each run answers one question; the instance is chosen so that the hazard it is
about happens in it, which its mutants confirm: for every property of every
passing run, `PROJECT.json` names a change of the modelled code (kept in the
module as a definition marked as a mutant) that makes TLC report it violated.

| Run | Instance | Shows |
|---|---|---|
| `ledger_queue` | 2 Submissions in one lane or two, 3 claims in one lane and none in the other, 1 Call | `LaneHasOneOwner`, `NoOvertaking`, `SuspendedAwaitsDecision`, `DecisionsAreDurable` under leases, handoffs, approvals, parking, aborts and settlements in any order |
| `ledger_stop` | one lane, 3 worker Submissions, 2 claims, joins of up to 2 | `JoinsAreAnchored`, `StopIsComplete`, and the refinement `KeepsPromise` |
| `attempt_one` | 2 workers, 1 recovery pass, one fault anywhere, operator answers | `SettlementIsCanonical`, `RunsToolOnce`, `CompletionIsWhole`, `MarkerFollowsHistory`, `SettlementEndsTheRun`, `HistoryIsFenced` |
| `attempt_lane` | a fair worker, 2 Submissions, one fault, a foreign record | `EventuallySettled`, `FifoInputOrder`, `FifoSettlementOrder` with a Run parked, bypassed and resumed |
| `children_pass` | a worker and a recovery process; 1 child and two events or faults, or 2 children and one; 2 claims | `LinksAreTrue`, `AccountingIsCanonical`, `OwesNoChild`, `FindsItsChild`, `SleepsOnChildren`, `DecisionsAreFrozen` |
| `children_abort` | the same with one child and an abort | the finding below |
| `schedule_pass` | one recurring schedule, 2 drivers, 2 revisions, a recovery, an interruption | no firing lost, doubled, or both skipped and delivered; outcomes are true; the retry allowance is whole; cancellation is final |
| `schedule_fair` | 2 one-shots under a quota of one, a driver that is polled | `QuotaHolds`, `DueIsHandled` |
| `delivery_pass` | 2 ordered updates, 2 drivers, an interruption, a revoked authorization | `OneSubmitter`, `SourceIsTrue`, and the refinement `HandsOver` |
| `delivery_fair` | 2 updates for one slot, 1 driver, a recovery | `AcceptedFits`, `AcceptedEnds` |
| `subscription_route` | 2 registrations, 2 events, 2 configurations, pages of one, 2 routers | `RoutedToAll`, `EvidenceIsKept`, `SelectedOnce` |
| `subscription_deliver` | 1 registration of a reconciling source, 2 drivers, 2 faults, a recovery | `DeliveryIsTrue`, `AllowanceIsWhole` |

Why these bounds: three claims give an owner, the one that fenced it, and a
third that finds the tokens of both; a child in a lane without claims settles
by its abort, which is enough to wait for; a join needs a host and two rows behind it
for a gap to appear; two Attempts and a recovery pass are all the processes that
can hold a view of one row at a time, since a claim fences all before it; two
Submissions are enough for one to overtake the other. Two drivers are two
readers of the same record; firings at 1, 2 and 4 with instants 0 to 2 give an
occurrence that coalesces another and one still ahead. Pages of one
registration put every other step between two pages. In `ChildWork` an Attempt
of the parent and a recovery pass (or the Attempt that it started) are the two
writers that can meet on one child; a second child is what an abort or an expiry
is in the middle of. `Trouble` bounds the events (abort, expiry, failure) and
faults together, two with one child and one with two, because the states grow
tenfold with each. Deadlock is not checked because every bounded model runs out
of claims, sweeps or time; that work is finished by then is what the liveness
properties say.

`SettlementIsCanonical` depends on a bound of the code: an append refreshes its
tail `MAX_APPEND_FENCE_REFRESHES` = 8 times. With more than 8 foreign records
landing in between (`MaxForeign > MaxRefresh`), the tolerant append of the
settlement record reads the conflict as "already recorded" and the row is
finalized without it; likewise the tolerant append of a Call's close
(`CompletionIsWhole`). The runs stay within that bound; with `MaxRefresh` 0 and 1,
and a foreign record more, TLC finds each of the two violated.
`FifoSettlementOrder` is checked with one worker and without a recovery process,
and is proved of that case for every instance. Beyond it the property fails, each
time because a Run that is not canonically unknown is parked, and later work
bypasses it, which the checker's rule (`ThreadInvariants.ts:113-119`) does not
excuse: with a recovery pass and with a second worker because they park on old
evidence (third and fourth item under Observed; the latter takes three faults),
and, like the two above, with `MaxRefresh` 0 and one foreign record, because the
tolerant append of the unknown outcome takes the conflict for its record.
`OwesNoChild` says nothing of
an aborted parent: there the stronger `NeverSettlesAcrossChild` is what the
comments promise, and it does not hold.

## Fairness

`RunAttempt!FairSpec`: weak fairness of every process's next step (a fiber that
is not interrupted goes on); strong fairness of a worker's claim (`wake` and the
polling drain look at the lane again and again, and a lane may be claimable only
now and then); weak fairness of the expiry of a lease whose owner is gone (time
passes); weak fairness of an operator's answer to a parked Call, which is an
assumption about people, not code: without it a parked Run waits for ever, by
design. Faults are finite (`MaxFault`), and none is fair. No wake-up is assumed
to be delivered.

`Schedule!FairSpec`: time passes up to the horizon; a call of the driver goes on
unless interrupted; and for each schedule, a driver that finds it due again and
again begins it (strong fairness, because `runDue` pages through all due
schedules at every poll). Interruptions are finite. Admissions may fail every
time: a parked delivery counts as handled, as documented.

`MessageDelivery!FairSpec`: time passes up to the horizon; a call of the driver
goes on unless interrupted; for each message, a call begins (weak fairness: the
pump rescans the due index until it is empty, so a row stays due until it is
taken); its row is inserted (the repair reruns until every accepted update has
one); and the destination settles, acknowledges and finalizes. An update may end
parked: `AcceptedEnds` counts that as an end, because its owner can see it.

`Subscription` and `ChildWork` state no fairness; only safety is claimed of them.

## The proofs

All theorems hold for every value of the constants, under the named assumptions
of the modules (`ConstantsAssumption`, `AttemptConstants`, `ScheduleConstants`,
`MessageDeliveryConstants`, `SubscriptionConstants`, `ChildConstants`), which TLC
evaluates on every run; the two on the order of the settlements restrict the
processes as well, and say so. Each is proved from an inductive invariant whose parts TLC checked
first. Some properties are proved and no longer run, since a theorem says more
than their run did: the ledger's type, `ReservationWins` and `AdmissionIsExact`,
the types of `RunAttempt`, `Schedule`,
`Subscription` and `ChildWork`, `FiringsAreAccounted`, `SkippedIsNotPrepared` and
`PreparedOnce` (one run checks their conjunction `FiringsAreExact`), and
`RecordedOnce` and `HistoryIsAppendOnly` of the log.

**SubmissionLedgerProofs.** The invariant is `TypeOK`, the seven safety
invariants of the ledger, and two strengthenings: `Counted` (tokens, epochs and
positions never run ahead of the counters that mint them, only an active row is
owned, and a live lease owns its lane), without which a new claim could collide
with a retained token, and `AbsentIsBlank` (a row not yet admitted is blank),
without which admission could resurrect a decision. Each property is a lemma `Next...` relative to the parts
it needs: one step per action, one under it per conjunct the action can disturb.
The refinement `LedgerKeepsPromise` maps every action to an action of
`AcceptedWork` or to a stutter.

**ThreadLogProofs.** `TypeOK`, `HistoryIsFenced` and `RecordedOnce` are
inductive relative to the type alone; the lemma `AppendAddsLast` says what an
accepted append does to the sequence, and every later proof cites it. The log
has no assumption on its constants.

**ScheduleProofs.** `TypeOK` bounds a record by what its fields say together (a
delivery is pending only with an occurrence, a cursor only while it is ahead),
so a first group of lemmas says, per operation of `ScheduleTransition`, what the
operation makes of a record and that the result is one. The inductive invariant
`Inv` is `TypeOK`, `OutcomesAreTrue` and, for each schedule `s`, `Calendar(s)`
and `Owed(s)`, and for each driver `d`, `Planned(d)` and `UnderWay(d)`:

- `Calendar(s)` is why no firing is lost or doubled: the cursor is placed at a
  firing, everything ahead of it is untouched, everything behind it was prepared
  or skipped, and the two are apart. `FiringsAreExact` and `ObligationsAreKept`
  are read off it.
- `Owed(s)` relates the retry allowance to the failures since the last recovery;
  `AllowanceIsWhole` follows.
- `Planned(d)` and `UnderWay(d)` say what a driver's memory may still be trusted
  for: that its reading of the cursor is old is caught by the revision and cursor
  it commits with, that its delivery is old by the occurrence.

Most steps change one schedule or one driver, so frame lemmas
(`CalendarSpared`, `OwedUntouched`, `Follows`, ...) carry the parts of the others
over. `QuotaHolds` is inductive with `TypeOK` alone; `CancelIsFinal` follows from
the lemmas on the operations.

**MessageDeliveryProofs.** A lemma per change of `applyMessageDeliveryChange`
says what it leaves of a row, and `RowStep` sums them up: every change of a row
is quiet, a decision its call heard from the destination, or an
acknowledgement. On this rest three invariants:

- `LeaseInv` is `TypeOK`, `RowsSane` (what a status says of receipt, lease and
  version), `Leases` (a call that claimed holds an unexpired lease until the
  version of its row moves on, and it moves on only when the lease is over or
  the message is acknowledged) and `Apart` (of two calls that hold one message
  the older one's attempt is over). `OneSubmitter` is read off it.
- `TruthInv` is `SourceIsTrue` with `Heard`: what a call has heard and not yet
  written is what the destination said.
- `OrderInv` (`Distinct`, `Drafts`, `RowsAccepted`, `Prefix`, `ClearSent`): what
  is sent, admitted or decided has nothing undecided before it in the journal. A
  call looks at its predecessor before its claim and sends after it, so without
  `ClearSent` the order of the handover would not be inductive.

`DeliveryHandsOver` derives the refinement from the last two, a step per action.
`AcceptedFits` needs only `Capacity`, with the library's facts on cardinality.

**RunAttemptSteps** and **RunAttemptProofs.** The two stores are instances of
`SubmissionLedger` and `ThreadLog`, and their own theorems hold for any caller, so
`LP` and `TP` bring in what is proved of them. `RunAttemptSteps` says what one
step is: the effect of each ledger call on a row, that neither store goes back
(`Forward`), the four outcomes of an append (`AppendOutcome`: it lands, it is
there or a tolerant caller takes it so, the tail is read again, the claim is given
up), and for each action where it moves its process (`...Moves`). `Base` is the
type, the ledger's invariant and `Course`: which positions belong to workers,
which to recovery, which to a claim. The refinement `HistoryKeepsItsRules` (every
step of the coordinator is a step of `ThreadLog` or a stutter) comes from `Forward`.
So does its counterpart for the ledger, `LedgerKeepsItsRules`: every step is a step
of `SubmissionLedger` or a stutter, and the lane keeps one owner and is not
overtaken. With the type and the facts in `LedgerInv` the step lemmas of
`SubmissionLedgerProofs` then apply to the coordinator as they stand:
`RowsAreDurable` (no decision of the ledger is withdrawn) and
`CoordinatorKeepsPromise` (every step is one of `AcceptedWork`: the promise made to
whoever submits is kept through claims, crashes and repairs).

`RunAttemptProofs` then needs `Inv`, three more parts, because none of the
properties is inductive by itself:

- `ClaimInv`: two claims share neither token nor epoch, and the fence only names
  granted ones. Without it a fence would not single out one process.
- `RunInv`: what each process may rely on at its position. `Knows`: what it
  believes recorded is recorded. `Accurate`: the live Attempt knows all its Run
  has recorded. `Placed`: a boundary presupposes the ones before it. `Verdict`: what
  it is about to settle was reserved so. `Unsettled`: a live Attempt that goes on
  has no reservation to respect. These survive other processes' steps
  because whoever writes is live, and only one is (`Undisturbs`).
- `RowInv`: what a row says of history (`RowHistory`).

Each action is first abstracted to a small relation (`Regular`, `Carried`,
`Prints`, `Handles`), action by action; invariance is then proved of the relation.
`MarkersFollowHistory` and `SettlementsEndRuns` follow from `Inv`. `ToolsRunOnce`
adds `ToolInv` (who is about to start the handler, and that without an answer no
one is once it started); `InputsFollowTheQueue` adds `QueueInv` (a claim is given
to a row all before which are settled or recorded; a claim whose input is still to
come is older than any behind it, hence fenced). `SettlementsAreCanonical` and
`CompletionsAreWhole` add `CanonInv` and the hypothesis `[]RefreshSuffices`: no
append uses up its 8 refreshes. That hypothesis is a fact about the code, not a
convenience: without it both are false (see the runs above).

The order of the settlements takes two layers more. `MeansInv` is why a process is
where it is: who records an abort was asked to, who reserves another outcome has
an input in history, who parks a Run has recorded its Call unknown, and a live
worker about to park finds that Call open. `VerdictsHaveReasons` is its part about
rows. On it rests `OrderInv`:

- `Parts(r)`: a parked row is `Stuck` (open Call, recorded unknown; no abort,
  completion or settlement recorded), and whoever still acts for it is fenced.
- `Ahead(p)`: what a claim finds before it in the queue is settled, or stuck with
  nobody able to write of it, until the claim's own input is recorded (`Clear`). By
  a later claim the parked row may go on; but that claim fences this one, so the
  condition is on the epochs.
- `Follows(r, s)`: an input is behind the settlement of each earlier row, or
  bypasses it while it is stuck. This is what the rule of the checker asks for, read
  at the input, where it is inductive; `Closes` (a settlement is behind its own
  input) carries it over to the settlements.

`SettlementsFollowTheQueue` proves `FifoSettlementOrder` for any number of workers,
rows, crashes and lost leases, under three hypotheses, and TLC finds it violated
without each of them: there is no recovery pass; `[]RefreshSuffices`; and
`[][ParkedInTime]_vars`, that whoever parks a Run has the lane's latest claim, which
`markUnknown` does not check. `OneWorkerSettlesInOrder` discharges the last one: a
worker on its own always has the latest claim, even when its lease has run out
(`Latest`), so there the property holds under the other two.

**SubscriptionProofs.** The effect of every action on the registrations, the
events, the rows and the calls is stated first (`...Effect`), and the steps are
sorted three ways: by what they do to the selection of events (`StepKinds`), to a
row and its destination (`DeliveriesMove`) and to its counters (`CountsMove`), with
`CallsMove` and `CallsCarry` for what a call goes on with. The invariants are
then proved of these kinds, each on top of the one before:

- `TypeInv`, and `OrderInv`: ordinals, cutoffs and cursors never run ahead of the
  sequence, and a call can tell by a revision or a cursor whether what it read
  still holds (`PageHolds`, `Expects`).
- `MarkInv`: a row that is there was selected; when it is gone its event is
  `Spent`, routed or too old to be accepted again; a once registration that was
  given an event is over. Routing selects only events that are not spent.
  Reconciliation ignores the cutoff, and is safe for another reason: all
  configurations that want an event of a reconciling source are of mode once, so
  a registration given it before is over. `SelectedOnce` follows as an action
  property.
- `RouteInv`: what the cursor of an event has passed was given the event
  (`Passed`), and a page lists whoever it will move the cursor over (`Promises`).
  That a page that is not full is all there is (`ShortPageIsAll`) takes a least
  ordinal, hence a finite number of registrations (the only assumption of its
  kind: a store holds finitely many).
- `EvidenceInv`, then `TruthInv`: a call that sends carries the frozen envelope
  for as long as the row is there (`Matches`), and nothing is ever selected again
  under a call that outlives its row, because `Taken` outlives it too. Without
  that, a late send could contradict a new delivery.
- `AllowInv`: what is counted on a row is backed by failures since its last
  recovery, and so is what a call about it carries, if it read the present
  generation (`Counting`): one more while it is on its way to count (`Load`), for
  the failure it brings. A call of an older generation counts for nothing and
  never will (`StaleCounts`), since generations only grow.

**ChildWorkProofs.** For any number of workers, recovery processes and Calls.
`ChildConstants` asks little of them: workers are not recovery processes, and
`None` is none of the outcomes and amounts it is compared with. The
properties are about three stores, but whether the next write keeps them depends
on what the job that writes remembers, and its owner may have been fenced since it
read it. So `IInv` has, besides the first three of them, the type and what the ledger adds
to it (`LedgerFits`):

- `Apart`: tokens and epochs of two jobs differ and were minted.
- `JobFits(job[p])` for each process. `Shape`: which positions belong to which
  purpose, which of them hold a claim. `Carried`, while it walks over Calls: what it
  read still holds or has only moved on (`Informed`, by `Knew` of records and `Saw`
  of rows); the Calls it picked were right to pick (`Chosen`); a Call without a join
  in its evidence has none as long as no later claim has attached (`Unjoined`), and
  nobody decides the end of a parent it still owns (`Undecided`); what it leaves
  out is closed (`Swept`) or joined (`Through`). `Due`: what has to be durable for the
  write it is about to make. `Poised`: the same between two scans and at their end.
  Much of this is conditional on `Mine` (it still owns the lane) or on the fence,
  because a job that lost the parent goes on, and only what it does without asking
  the parent (admission of a child, freezing and releasing a reservation) takes
  effect.

Every step is shown twice: that the others may go on as they do (`Around`, the
only changes an onlooker has to expect: rows and records move on, an owner's
parent is decided by the owner, the fence moves with a claim), and that what the
process itself goes on with fits what it wrote. `WalkFits` is the second for
`Walk`, which opens the first Call left (that there is one is the well-foundedness
of the naturals), and the actions that end in it (`Onward`, `Waiting`, `AfterLink`,
`Consult`, ...) share it. The ledger's
own steps are taken from `SubmissionLedgerProofs`, whose theorems hold for any
caller. `LinksHold`, `AccountingsHold` and `NothingOwed` are read off `IInv`;
`DecisionsStay` needs of it that a row's accounting goes with its status.
`ChildrenAreFound` and `NoSleepInVain` rest on `IInv` and on `Awaiting` beside it:
the children a job will sleep on (`Waited`) and the one it looks up (`Found`) are
in the ledger, and so are those the parent sleeps on. `Due` gives this where a
job turns to a child, `Sound` where a repair chooses its children; an admission is
never undone, so no step of another process takes it away; and only `Suspend`
puts the parent to sleep.
`NothingOwed` says of an aborted parent what the code keeps and no more: that it
may leave a child behind is the finding below.

Every safety property of the passing runs is stated by a theorem. Only
model-checked is liveness (`EventuallySettled`, `DueIsHandled`, `AcceptedEnds`),
which is out of reach of the prover. The composition theorems of the coordinator
have no counterpart in `ChildWork`: there a child decides its settlement in one
step (`Decide`), which stands for an Attempt of its own, several steps of the ledger.

## Findings

- `children_abort`: a recovery pass that read an aborted parent before the
  parent's Attempt reserved a child decides to settle the abort. The Attempt then
  establishes the child and suspends on it; the child wakes it; the pass claims
  the parent and settles it on what it read first
  (`DurableAgentRuntime.ts:9443`). The child's reservation is never released and
  its outcome never joined, although the comments there and at `:4414-4416` say
  that "a parent never settles across an open child obligation".

## Observed while modelling

Each of these was reached by TLC in a model of this project; no run is kept for
them.

- Recovery settles an abort on the history it read before its claim was granted
  (`DurableAgentRuntime.ts:9514`). A Call the superseded Attempt prepared in
  between gets no `ToolCallUnknown` record, although `Recovery.ts:199-202`
  promises one for every open Call. It is the same window as the finding.
- A `NeverHappened` answer is recorded and never consumed
  (`DurableAgentRuntime.ts:3118`). When the retried handler has started and the
  process dies, the next Attempt reads the same answer and runs the handler
  again without asking, against "never an automatic replay"
  (`Recovery.ts:207-210`). `RunsToolOnce` is therefore stated for Calls nobody
  allowed to be repeated.
- Recovery reconciles on old history (`DurableAgentRuntime.ts:9585`) and parks a
  Call whose result became canonical meanwhile; the finished Run then waits for
  an operator.
- A worker that has lost its lease and still has to park its Run does so
  (`DurableAgentRuntime.ts:3227`): `markUnknown` is ownership-free because canonical
  evidence authorizes it (`SubmissionLedger.ts:1137`), but the evidence may be older
  than the next claim, which has gone on with the same Run. The queue then goes
  past a Run that is at work and not canonically unknown.
- An update admitted by the destination whose answer was lost is refused for good
  when the authorization is revoked before the retry (`MessageDelivery.ts:771`;
  the authorizer is asked at `DurableAgentRuntime.ts:10584`, before the key is
  looked up at `:10700`). The worker shows it refused while it runs.
- An aborting parent that suspends on a child which is admitted but not linked,
  and whose second announcement is lost, is not woken by recovery: the decision
  is to repair the link, and the claim this needs is refused for a suspended
  parent (`DurableAgentRuntime.ts:4775`, `:9354`), although a lost wake is said
  never to be a lost obligation (`:10235-10250`).
- `Subscriptions.ts`: a control command moves a registration's ordinal, so an
  event accepted before it passes the registration by (documented as intended in
  the operations guide).
- The sweep counts a failure that `processDelivery` did not handle on the delivery
  as it reads it then (`Subscriptions.ts:1191-1197`). Attempts that began before a
  recovery, and failed before it, can spend the new allowance in this way, and
  enough of them park the recovered delivery before any attempt of its own
  generation failed. The store refuses a retry of an older generation
  (`SubscriptionStoreConformance.ts:874`), but what the sweep hands it is not one.
  `AllowanceIsWhole` therefore takes these for failures of the delivery they are
  counted on.
- A registration that is paused after the sweep listed it and before it is read
  again loses its recovery for good (`Subscriptions.ts:1032-1037`): neither resuming
  it nor asking for a recovery brings it back (`SubscriptionTransition.ts:274-280`),
  only an update does.
- An update of a schedule that races a preparation may deliver the same instant
  under both revisions, since the revision is part of an occurrence's identity.
  Judged intended.

## Not modelled, and the plan

In the order in which the plan takes them:

1. `JoinProtocol`: the drain hook that delivers joined input to a running Turn
   (`DurableAgentRuntime.ts:6690-6900`), the repairs of the join marker
   (`:9872-9963`), `MAX_JOIN_DRAIN`; composed with the ledger and the log. The
   question: can a revert decided on old evidence meet a host that has just
   delivered the input? Theorem: joined input is delivered or queued.
2. `DueQueue`: alarms and the due queue of a Durable Object, whose crash between
   commit and alarm the platform files discuss.
3. `TurnLoop`, `Budget`, `LifecyclePublication`, `WakeScheduler`.

Left out for good: SQL and Cloudflare adapters (the same contracts by
transactions; comparing SQL with the reference adapter is a matter for tests),
sandboxes, MCP and code mode (external processes), and the applications.
