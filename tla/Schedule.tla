------------------------------ MODULE Schedule ------------------------------
(***************************************************************************)
(* Scheduled input: the schedules of one owner, the drivers that prepare    *)
(* and deliver their due occurrences, and the management calls that race    *)
(* them.                                                                    *)
(*                                                                          *)
(* A store transaction is one step; a process remembers what it read before *)
(* and may be interrupted or die between any two steps.  The destination    *)
(* admits an occurrence under a key derived from the schedule, its revision *)
(* and the intended instant, so that a submission sent again is the same    *)
(* admission; a refusal is permanent (Schedule.ts, ScheduledInputRefused).  *)
(*                                                                          *)
(* A timing is the set of the instants it fires at.  All clocks are one     *)
(* clock.  A control command is fenced by the version of the record, so it  *)
(* commits on the record it read: only the clock a resumption read may be   *)
(* old, and no older than the last change of that record.                   *)
(***************************************************************************)
EXTENDS Integers, FiniteSets

CONSTANTS
  Id,            \* schedule identities of the owner
  Driver,        \* concurrent calls of ScheduleDriver.process
  Timing,        \* the timings a configuration may have
  None,          \* null
  OwnerLimit,    \* maxSchedulesPerOwner
  MaxAutomatic,  \* maxAutomaticAttempts
  RetryBase,     \* retryBaseMillis
  RetryMax,      \* retryMaxMillis
  Horizon,       \* bound of the model: the last instant
  MaxStop,       \* bound of the model: calls interrupted or failing
  MaxRevision,   \* bound of the model: configurations per schedule
  MaxGeneration  \* bound of the model: recoveries per occurrence

Time == 0..Horizon

ASSUME ScheduleConstants ==
  /\ IsFiniteSet(Id) /\ Id # {}
  /\ {OwnerLimit, MaxAutomatic, RetryBase, RetryMax, Horizon, MaxStop, MaxRevision, MaxGeneration}
       \subseteq Nat
  /\ MaxAutomatic > 0
  /\ \A t \in Timing :
       t \in [once : BOOLEAN, fires : SUBSET Nat] /\ (t.once => \E at \in t.fires : t.fires = {at})
  /\ None \notin Nat \cup Timing
  /\ None \notin [rev : Nat, at : Nat, generation : Nat, attempts : Nat,
                  automatic : Nat, parked : BOOLEAN, next : Nat]

VARIABLES
  clock,
  record,    \* the stored schedules
  job,       \* what each driver is doing and remembers
  stops,     \* calls interrupted so far
  touched,   \* when each paused record was last changed
  admitted,  \* occurrences the destination has admitted
  barred,    \* occurrences the destination has refused, for good
  prepared,  \* history: occurrences ever prepared
  skipped,   \* history: occurrences ever recorded in a skipped range
  received,  \* history: occurrences completed by a Receipt
  declined,  \* history: occurrences closed by a refusal
  since,     \* history: the first cursor of the current configuration
  spent      \* history: failed attempts of the pending delivery's generation

world == <<admitted, barred>>
history == <<prepared, skipped, received, declined, since, spent>>
store == <<record, touched>>
vars == <<clock, store, job, stops, world, history>>

Occurrence(s, rev, at) == [of |-> s, rev |-> rev, at |-> at]
Occurrences == [of : Id, rev : Nat, at : Nat]

Pending ==
  {p \in [rev : Nat, at : Nat, generation : Nat, attempts : Nat,
          automatic : 0..MaxAutomatic, parked : BOOLEAN, next : Nat] :
     p.parked <=> p.automatic = MaxAutomatic}
Absent == [state |-> "absent", rev |-> 0, timing |-> None, cursor |-> None, pending |-> None]
Record ==
  {r \in [state : {"absent", "active", "paused", "cancelled"}, rev : Nat,
          timing : Timing \cup {None}, cursor : Nat \cup {None}, pending : Pending \cup {None}] :
     IF r.state = "absent" THEN r = Absent ELSE r.timing # None}

Due == [at : Nat, next : Nat \cup {None}]
\* The fence of a preparation.
Seen == [rev : Nat, cursor : Nat \cup {None}]
NotSeen == [rev |-> 0, cursor |-> None]
NoDue == [at |-> 0, next |-> None]
Delivering == {"admit", "complete", "refuse", "retry"}
Job ==
  {j \in [at : {"idle", "fetch", "prepare", "deny"} \cup Delivering, of : Id, now : Time,
          seen : Seen, due : Due, again : BOOLEAN, sends : Pending \cup {None}] :
     j.at \in Delivering => j.sends # None /\ ~j.sends.parked}
Someone == CHOOSE s \in Id : TRUE
NoJob ==
  [at |-> "idle", of |-> Someone, now |-> 0, seen |-> NotSeen, due |-> NoDue, again |-> FALSE,
   sends |-> None]

TypeOK ==
  /\ clock \in Time
  /\ record \in [Id -> Record]
  /\ job \in [Driver -> Job]
  /\ touched \in [Id -> Time]
  /\ stops \in 0..MaxStop
  /\ \A set \in {admitted, barred, prepared, skipped, received, declined} :
       set \subseteq Occurrences
  /\ since \in [Id -> Nat]
  /\ spent \in [Id -> 0..MaxAutomatic]

Init ==
  /\ clock = 0
  /\ record = [s \in Id |-> Absent]
  /\ job = [d \in Driver |-> NoJob]
  /\ touched = [s \in Id |-> 0]
  /\ stops = 0
  /\ admitted = {} /\ barred = {}
  /\ prepared = {} /\ skipped = {} /\ received = {} /\ declined = {}
  /\ since = [s \in Id |-> 0]
  /\ spent = [s \in Id |-> 0]

-----------------------------------------------------------------------------
(***************************************************************************)
(* schedule-time.ts.  Each operator yields the instants the function may    *)
(* return: one, or none where the function fails (past the last instant).   *)
(***************************************************************************)
NextAfter(timing, t) ==
  {x \in timing.fires : x > t /\ \A y \in timing.fires : y > t => x <= y}
\* Past one-shots remain due; recurring rules start after registration.
InitialCursor(timing, now) == IF timing.once THEN timing.fires ELSE NextAfter(timing, now)
\* Missed recurring instants coalesce to the latest one.
Latest(timing, cursor, now) ==
  {x \in timing.fires \cup {cursor} :
     /\ cursor <= x /\ x <= now
     /\ \A y \in timing.fires : y <= now => y <= x}
DueOccurrence(timing, cursor, now) ==
  IF timing.once THEN {[at |-> cursor, next |-> None]}
  ELSE [at : Latest(timing, cursor, now), next : NextAfter(timing, now)]
ResumeCursor(timing, cursor, now) == IF timing.once THEN {cursor} ELSE NextAfter(timing, now)
\* The firings of the half-open range [from, to), under a record's configuration.
\* Mutant: the lower bound is not skipped.
BetweenOpen(s, from, to) ==
  {Occurrence(s, record[s].rev, x) : x \in {y \in record[s].timing.fires : from < y /\ y < to}}
Between(s, from, to) ==
  {Occurrence(s, record[s].rev, x) : x \in {y \in record[s].timing.fires : from <= y /\ y < to}}

-----------------------------------------------------------------------------
(***************************************************************************)
(* ScheduleTransition.ts and the store around it.                           *)
(***************************************************************************)
UsesCapacity(r) ==
  r.pending # None \/ (r.state \in {"active", "paused"} /\ r.cursor # None)
\* Mutant: paused schedules are not counted.
HasRoomForActive ==
  Cardinality({s \in Id : UsesCapacity(record[s]) /\ record[s].state = "active"}) < OwnerLimit
HasRoom == Cardinality({s \in Id : UsesCapacity(record[s])}) < OwnerLimit
\* The transaction: a record that starts to use capacity needs room.
Stores(s, r) ==
  /\ UsesCapacity(r) /\ ~UsesCapacity(record[s]) => HasRoom
  /\ record' = [record EXCEPT ![s] = r]
  /\ touched' = [touched EXCEPT ![s] = IF r.state = "paused" THEN clock ELSE 0]

IsPending(s, rev, at) ==
  /\ record[s].pending # None
  /\ record[s].pending.rev = rev /\ record[s].pending.at = at

\* Preparation and its denial are fenced by revision and cursor.  What else
\* the reducer compares (that the instant is due and the cursor moves on)
\* holds of every due occurrence the driver computes.
MayPrepare(s, seen) ==
  /\ record[s].rev = seen.rev /\ record[s].cursor = seen.cursor
  /\ record[s].state = "active" /\ record[s].pending = None

Backoff(attempts) ==
  LET delay == RetryBase * 2 ^ attempts IN
  IF delay \in 0..RetryMax THEN delay ELSE RetryMax
\* A failed attempt counts only for the generation and the count it started
\* from.
\* Mutant: the generation is not compared.
SpendsAny(current, p) ==
  p.attempts + 1 > current.attempts /\ clock + Backoff(p.attempts) >= current.next
Spends(current, p) ==
  /\ p.generation = current.generation
  /\ p.attempts + 1 > current.attempts
  /\ clock + Backoff(p.attempts) >= current.next

Fresh(rev, at, now) ==
  [rev |-> rev, at |-> at, generation |-> 0, attempts |-> 0,
   automatic |-> 0, parked |-> FALSE, next |-> now]

-----------------------------------------------------------------------------
(***************************************************************************)
(* Management.  What a call reads of the clock before the transaction may   *)
(* be old by then, though no older than the record it read.                 *)
(***************************************************************************)
Live(s) == record[s].state \in {"active", "paused"}
Create(s, timing, now) ==
  /\ record[s].state = "absent"
  /\ now <= clock
  /\ \E cursor \in InitialCursor(timing, now) :
       /\ Stores(s, [Absent EXCEPT !.state = "active", !.rev = 1, !.timing = timing,
                                   !.cursor = cursor])
       /\ since' = [since EXCEPT ![s] = cursor]
  /\ UNCHANGED <<clock, job, stops, world, prepared, skipped, received, declined, spent>>

\* Mutants: the new configuration drops the pending delivery of the old one;
\* a cancelled schedule is updated like any other.
UpdateDropping(s, timing, now) ==
  /\ Live(s)
  /\ record[s].rev < MaxRevision
  /\ now <= clock
  /\ \E cursor \in InitialCursor(timing, now) :
       /\ Stores(s, [record[s] EXCEPT !.state = "active", !.rev = @ + 1, !.timing = timing,
                                      !.cursor = cursor, !.pending = None])
       /\ since' = [since EXCEPT ![s] = cursor]
  /\ UNCHANGED <<clock, job, stops, world, prepared, skipped, received, declined, spent>>
UpdateReviving(s, timing, now) ==
  /\ record[s].state # "absent"
  /\ record[s].rev < MaxRevision
  /\ now <= clock
  /\ \E cursor \in InitialCursor(timing, now) :
       /\ Stores(s, [record[s] EXCEPT !.state = "active", !.rev = @ + 1, !.timing = timing,
                                      !.cursor = cursor])
       /\ since' = [since EXCEPT ![s] = cursor]
  /\ UNCHANGED <<clock, job, stops, world, prepared, skipped, received, declined, spent>>
\* A pending delivery outlives the configuration it was prepared under.
Update(s, timing, now) ==
  /\ Live(s)
  /\ record[s].rev < MaxRevision
  /\ now <= clock
  /\ \E cursor \in InitialCursor(timing, now) :
       /\ Stores(s, [record[s] EXCEPT !.state = "active", !.rev = @ + 1, !.timing = timing,
                                      !.cursor = cursor])
       /\ since' = [since EXCEPT ![s] = cursor]
  /\ UNCHANGED <<clock, job, stops, world, prepared, skipped, received, declined, spent>>

Pause(s) ==
  /\ Live(s)
  /\ Stores(s, [record[s] EXCEPT !.state = "paused"])
  /\ UNCHANGED <<clock, job, stops, world, history>>
Cancel(s) ==
  /\ Live(s)
  /\ Stores(s, [record[s] EXCEPT !.state = "cancelled", !.cursor = None])
  /\ UNCHANGED <<clock, job, stops, world, history>>
\* A resumed recurring cursor moves past now, over what it records as skipped.
Resume(s, now) ==
  LET r == record[s]
      skips == ~r.timing.once /\ r.cursor # None
  IN
  /\ r.state = "paused"
  /\ touched[s] <= now /\ now <= clock
  /\ \E cursor \in ResumeCursor(r.timing, r.cursor, now) :
       /\ Stores(s, [r EXCEPT !.state = "active", !.cursor = cursor])
       /\ skipped' = IF skips THEN skipped \cup Between(s, r.cursor, cursor) ELSE skipped
  /\ UNCHANGED <<clock, job, stops, world, prepared, received, declined, since, spent>>

\* The operator re-arms the delivery it saw, with a fresh allowance.
Recover(s, now) ==
  LET p == record[s].pending IN
  /\ p # None
  /\ p.at <= now /\ now <= clock
  /\ p.generation < MaxGeneration
  /\ Stores(s, [record[s] EXCEPT !.pending =
       [p EXCEPT !.generation = @ + 1, !.automatic = 0, !.parked = FALSE, !.next = now]])
  /\ spent' = [spent EXCEPT ![s] = 0]
  /\ UNCHANGED <<clock, job, stops, world, prepared, skipped, received, declined, since>>

-----------------------------------------------------------------------------
(***************************************************************************)
(* The driver: process, processRecord and deliverPending.                   *)
(***************************************************************************)
Set(d, j) == job' = [job EXCEPT ![d] = j]
Goto(d, at) == Set(d, [job[d] EXCEPT !.at = at])

Begin(d, s) ==
  /\ job[d].at = "idle"
  /\ Set(d, [NoJob EXCEPT !.at = "fetch", !.of = s, !.now = clock])
  /\ UNCHANGED <<clock, store, stops, world, history>>

\* Pending delivery comes before preparation, whatever the state.  The
\* authorizer allows the preparation or denies it.
Sends(d, p) == Set(d, [NoJob EXCEPT !.at = "admit", !.of = job[d].of, !.sends = p])
Deliverable(p, now) == ~p.parked /\ p.next <= now
Preparable(r, now) ==
  r.pending = None /\ r.state = "active" /\ r.cursor # None /\ r.cursor <= now
\* scheduleDeadline, compared with an instant.
ReadyAt(r, now) == IF r.pending # None THEN Deliverable(r.pending, now) ELSE Preparable(r, now)
\* Mutant: only an active schedule delivers.
FetchActive(d) ==
  LET j == job[d]
      r == record[j.of]
  IN
  /\ j.at = "fetch"
  /\ \/ r.pending # None /\ r.state = "active" /\ Deliverable(r.pending, j.now)
        /\ Sends(d, r.pending)
     \/ /\ Preparable(r, j.now)
        /\ \E due \in DueOccurrence(r.timing, r.cursor, j.now), at \in {"prepare", "deny"} :
             Set(d, [j EXCEPT !.at = at, !.seen = [rev |-> r.rev, cursor |-> r.cursor], !.due = due])
     \/ ~(r.pending # None /\ r.state = "active" /\ Deliverable(r.pending, j.now))
        /\ Set(d, NoJob)
  /\ UNCHANGED <<clock, store, stops, world, history>>
Fetch(d) ==
  LET j == job[d]
      r == record[j.of]
  IN
  /\ j.at = "fetch"
  /\ \/ r.pending # None /\ Deliverable(r.pending, j.now)
        /\ Sends(d, r.pending)
     \/ /\ Preparable(r, j.now)
        /\ \E due \in DueOccurrence(r.timing, r.cursor, j.now), at \in {"prepare", "deny"} :
             Set(d, [j EXCEPT !.at = at, !.seen = [rev |-> r.rev, cursor |-> r.cursor], !.due = due])
     \/ ~ReadyAt(r, j.now) /\ Set(d, NoJob)
  /\ UNCHANGED <<clock, store, stops, world, history>>

\* A conflict is tried once more, on a fresh record and the same reading of
\* the clock.
Conflict(d) ==
  /\ IF job[d].again THEN Set(d, NoJob)
     ELSE Set(d, [NoJob EXCEPT !.at = "fetch", !.of = job[d].of, !.now = job[d].now,
                               !.again = TRUE])
  /\ UNCHANGED <<store, history>>
Prepare(d) ==
  LET j == job[d]
      s == j.of
      rev == record[s].rev
      next == [record[s] EXCEPT !.cursor = j.due.next, !.pending = Fresh(rev, j.due.at, j.now)]
  IN
  /\ j.at = "prepare"
  /\ \/ /\ MayPrepare(s, j.seen)
        /\ Stores(s, next)
        /\ Sends(d, next.pending)
        /\ prepared' = prepared \cup {Occurrence(s, rev, j.due.at)}
        /\ skipped' = skipped \cup Between(s, record[s].cursor, j.due.at)
        /\ spent' = [spent EXCEPT ![s] = 0]
        /\ UNCHANGED <<received, declined, since>>
     \/ ~MayPrepare(s, j.seen) /\ Conflict(d)
  /\ UNCHANGED <<clock, stops, world>>
DenyPreparation(d) ==
  LET s == job[d].of IN
  /\ job[d].at = "deny"
  /\ \/ /\ MayPrepare(s, job[d].seen)
        /\ Stores(s, [record[s] EXCEPT !.state = "paused"])
        /\ Set(d, NoJob)
        /\ UNCHANGED history
     \/ ~MayPrepare(s, job[d].seen) /\ Conflict(d)
  /\ UNCHANGED <<clock, stops, world>>

\* What the destination does with the envelope, and what the driver learns of
\* it: a Receipt, a permanent refusal, or nothing.
Sent(d) == Occurrence(job[d].of, job[d].sends.rev, job[d].sends.at)
\* Mutant: an ambiguous failure is taken for a refusal.
LearnsTooMuch == [admitted |-> {"complete", "refuse"}, refused |-> {"refuse", "retry"}]
Learns == [admitted |-> {"complete", "retry"}, refused |-> {"refuse", "retry"}]
Admit(d) ==
  LET o == Sent(d) IN
  /\ job[d].at = "admit"
  /\ \/ /\ o \notin barred
        /\ admitted' = admitted \cup {o}
        /\ \E at \in Learns.admitted : Goto(d, at)
        /\ UNCHANGED barred
     \/ /\ o \notin admitted
        /\ barred' = barred \cup {o}
        /\ \E at \in Learns.refused : Goto(d, at)
        /\ UNCHANGED admitted
     \/ Goto(d, "retry") /\ UNCHANGED world
  /\ UNCHANGED <<clock, store, stops, history>>

\* A store that is unavailable leaves the delivery to a retry.
Unavailable(d) == Goto(d, "retry") /\ UNCHANGED <<store, history>>
\* A stale completion changes nothing.
Stale(d) == Set(d, NoJob) /\ UNCHANGED <<store, history>>
Mine(d) == IsPending(job[d].of, job[d].sends.rev, job[d].sends.at)
Complete(d) ==
  LET s == job[d].of IN
  /\ job[d].at = "complete"
  /\ \/ /\ Mine(d)
        /\ Stores(s, [record[s] EXCEPT !.pending = None])
        /\ received' = received \cup {Sent(d)}
        /\ Set(d, NoJob)
        /\ UNCHANGED <<prepared, skipped, declined, since, spent>>
     \/ ~Mine(d) /\ Stale(d)
     \/ Unavailable(d)
  /\ UNCHANGED <<clock, stops, world>>
Refuse(d) ==
  LET s == job[d].of IN
  /\ job[d].at = "refuse"
  /\ \/ /\ Mine(d)
        /\ Stores(s, [record[s] EXCEPT !.pending = None,
                                       !.state = IF @ = "active" THEN "paused" ELSE @])
        /\ declined' = declined \cup {Sent(d)}
        /\ Set(d, NoJob)
        /\ UNCHANGED <<prepared, skipped, received, since, spent>>
     \/ ~Mine(d) /\ Stale(d)
     \/ Unavailable(d)
  /\ UNCHANGED <<clock, stops, world>>
Retry(d) ==
  LET s == job[d].of
      p == job[d].sends
      current == record[s].pending
  IN
  /\ job[d].at = "retry"
  /\ Set(d, NoJob)
  /\ \/ /\ Mine(d) /\ Spends(current, p)
        /\ Stores(s, [record[s] EXCEPT !.pending =
             [current EXCEPT !.generation = p.generation, !.attempts = p.attempts + 1,
                             !.automatic = p.automatic + 1,
                             !.parked = p.automatic + 1 >= MaxAutomatic,
                             !.next = clock + Backoff(p.attempts)]])
     \/ ~(Mine(d) /\ Spends(current, p)) /\ UNCHANGED store
  /\ spent' = IF Mine(d) /\ p.generation = current.generation /\ spent[s] < MaxAutomatic
              THEN [spent EXCEPT ![s] = @ + 1] ELSE spent
  /\ UNCHANGED <<clock, stops, world, prepared, skipped, received, declined, since>>

\* A call is interrupted, the authorizer or the store fails it, or its
\* process dies.
Stop(d) ==
  /\ job[d].at # "idle"
  /\ stops < MaxStop
  /\ stops' = stops + 1
  /\ Set(d, NoJob)
  /\ UNCHANGED <<clock, store, world, history>>
Tick ==
  /\ clock < Horizon
  /\ clock' = clock + 1
  /\ UNCHANGED <<store, job, stops, world, history>>

Proceed(d) ==
  \/ Fetch(d) \/ Prepare(d) \/ DenyPreparation(d) \/ Admit(d)
  \/ Complete(d) \/ Refuse(d) \/ Retry(d)
Manage ==
  \E s \in Id :
    \/ Pause(s) \/ Cancel(s)
    \/ \E now \in Time :
         \/ \E timing \in Timing : Create(s, timing, now) \/ Update(s, timing, now)
         \/ Resume(s, now) \/ Recover(s, now)
Next ==
  \/ Tick
  \/ Manage
  \/ \E d \in Driver : Proceed(d) \/ Stop(d) \/ \E s \in Id : Begin(d, s)

Spec == Init /\ [][Next]_vars

\* The poll runs every due schedule again and again, and a call that is not
\* interrupted goes on.
Fairness ==
  /\ WF_vars(Tick)
  /\ \A d \in Driver :
       /\ WF_vars(Proceed(d))
       /\ \A s \in Id : SF_vars(Begin(d, s) /\ ReadyAt(record[s], clock))
FairSpec == Spec /\ Fairness

-----------------------------------------------------------------------------
(***************************************************************************)
(* Properties.                                                              *)
(***************************************************************************)
\* A prepared occurrence remains the schedule's obligation until a Receipt or
\* a refusal is recorded, across updates, pauses, cancellation and recovery.
ObligationsAreKept ==
  \A o \in prepared : IsPending(o.of, o.rev, o.at) \/ o \in received \cup declined

\* An occurrence is prepared once: what is pending was never closed before.
PreparedOnce ==
  \A s \in Id :
    record[s].pending # None =>
      Occurrence(s, record[s].pending.rev, record[s].pending.at) \notin received \cup declined

\* A recorded Receipt was admitted; a recorded refusal is proof that the
\* occurrence was not, and never will be.
OutcomesAreTrue == received \subseteq admitted /\ declined \subseteq barred

\* No firing of a configuration is lost: behind the cursor each one was
\* prepared or recorded as skipped.
Behind(s, x) == record[s].cursor = None \/ x < record[s].cursor
FiringsAreAccounted ==
  \A s \in Id :
    Live(s) =>
      \A x \in record[s].timing.fires :
        since[s] <= x /\ Behind(s, x) => Occurrence(s, record[s].rev, x) \in prepared \cup skipped

\* No firing is both delivered and recorded as skipped.
SkippedIsNotPrepared == prepared \cap skipped = {}

\* Each firing behind the cursor meets exactly one fate, once: it is prepared
\* or recorded as skipped, never both, and what was closed is not prepared
\* again, whichever of two drivers with old readings comes first.
FiringsAreExact == FiringsAreAccounted /\ SkippedIsNotPrepared /\ PreparedOnce

\* The owner's quota holds, whichever path brings a record back into use.
QuotaHolds == Cardinality({s \in Id : UsesCapacity(record[s])}) <= OwnerLimit

\* A delivery is parked only after a whole allowance of failed attempts since
\* its last recovery.
AllowanceIsWhole ==
  \A s \in Id :
    record[s].pending # None /\ record[s].pending.parked => spent[s] = MaxAutomatic

\* Cancellation is final: nothing is prepared after it, though what is pending
\* may still be delivered.
CancelIsFinal ==
  [][\A s \in Id : record[s].state = "cancelled" =>
       /\ record'[s].state = "cancelled"
       /\ {o \in prepared' : o.of = s} = {o \in prepared : o.of = s}]_vars

\* What is due is prepared, and what is pending is delivered, refused or
\* parked, whatever the schedule's state, unless it waits past the horizon.
Waiting(s) ==
  \/ Preparable(record[s], clock)
  \/ /\ record[s].pending # None
     /\ ~record[s].pending.parked /\ record[s].pending.next <= Horizon
DueIsHandled == \A s \in Id : Waiting(s) ~> ~Waiting(s)
=============================================================================
