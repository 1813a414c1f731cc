--------------------------- MODULE ScheduleProofs ---------------------------
(***************************************************************************)
(* Theorems about Schedule, for every set of schedules, drivers and timings *)
(* and every limit.                                                         *)
(***************************************************************************)
EXTENDS Schedule, FiniteSetTheorems, TLAPS

-----------------------------------------------------------------------------
(***************************************************************************)
(* Type correctness.                                                        *)
(***************************************************************************)
LEMMA BackoffType == \A n \in Nat : Backoff(n) \in Nat
<1>1. RetryMax \in Nat
  BY ScheduleConstants
<1>. QED
  BY <1>1 DEF Backoff

LEMMA PendingFields ==
  ASSUME NEW p \in Pending
  PROVE  /\ p.rev \in Nat /\ p.at \in Nat /\ p.generation \in Nat /\ p.attempts \in Nat
         /\ p.automatic \in 0..MaxAutomatic /\ p.next \in Nat
         /\ p.parked \in BOOLEAN /\ (p.parked <=> p.automatic = MaxAutomatic)
         /\ p # None
<1>1. MaxAutomatic \in Nat
  BY ScheduleConstants
<1>2. p # None
  <2>1. p \in [rev : Nat, at : Nat, generation : Nat, attempts : Nat,
               automatic : Nat, parked : BOOLEAN, next : Nat]
    BY <1>1 DEF Pending
  <2>. QED
    BY <2>1, ScheduleConstants
<1>. QED
  BY <1>2 DEF Pending

Carried ==
  [rev : Nat, at : Nat, generation : Nat, attempts : Nat,
   automatic : 0..MaxAutomatic, parked : BOOLEAN, next : Nat]
LEMMA FreshIsPending == \A rev, at, now \in Nat : Fresh(rev, at, now) \in Pending
<1>1. MaxAutomatic \in Nat /\ MaxAutomatic > 0
  BY ScheduleConstants
<1>. QED
  BY <1>1 DEF Fresh, Pending

\* What a recovery and a failed attempt make of a pending delivery.
Rearmed(p, now) ==
  [p EXCEPT !.generation = @ + 1, !.automatic = 0, !.parked = FALSE, !.next = now]
Deferred(p, q, now) ==
  [p EXCEPT !.generation = q.generation, !.attempts = q.attempts + 1,
            !.automatic = q.automatic + 1,
            !.parked = q.automatic + 1 >= MaxAutomatic, !.next = now]
LEMMA RearmedIsPending ==
  ASSUME NEW p \in Pending, NEW now \in Nat
  PROVE  /\ Rearmed(p, now) \in Pending
         /\ Rearmed(p, now).rev = p.rev /\ Rearmed(p, now).at = p.at
         /\ Rearmed(p, now).generation = p.generation + 1 /\ Rearmed(p, now).automatic = 0
<1>1. MaxAutomatic \in Nat /\ MaxAutomatic > 0
  BY ScheduleConstants
<1>2. p \in Carried
  BY DEF Pending, Carried
<1>3. Rearmed(p, now) \in Carried
  <2>1. \A g \in Nat, a \in 0..MaxAutomatic :
          [p EXCEPT !.generation = g, !.automatic = a, !.parked = FALSE, !.next = now] \in Carried
    BY <1>2 DEF Carried
  <2>2. p.generation + 1 \in Nat /\ 0 \in 0..MaxAutomatic
    BY <1>1, <1>2 DEF Carried
  <2>. QED
    BY <2>1, <2>2 DEF Rearmed
<1>4. /\ Rearmed(p, now).rev = p.rev /\ Rearmed(p, now).at = p.at
      /\ Rearmed(p, now).generation = p.generation + 1 /\ Rearmed(p, now).automatic = 0
      /\ Rearmed(p, now).parked = FALSE
  BY <1>2 DEF Rearmed, Carried
<1>. QED
  BY <1>1, <1>3, <1>4 DEF Pending, Carried
LEMMA DeferredIsPending ==
  ASSUME NEW p \in Pending, NEW q \in Pending, ~q.parked, NEW now \in Nat
  PROVE  /\ Deferred(p, q, now) \in Pending
         /\ Deferred(p, q, now).rev = p.rev /\ Deferred(p, q, now).at = p.at
         /\ Deferred(p, q, now).generation = q.generation
         /\ Deferred(p, q, now).automatic = q.automatic + 1
<1>1. MaxAutomatic \in Nat /\ MaxAutomatic > 0
  BY ScheduleConstants
<1>2. p \in Carried /\ q \in Carried
  BY DEF Pending, Carried
<1>3. q.automatic + 1 \in 0..MaxAutomatic
  BY <1>1 DEF Pending
<1>4. Deferred(p, q, now) \in Carried
  <2>1. \A g, n \in Nat, a \in 0..MaxAutomatic, b \in BOOLEAN :
          [p EXCEPT !.generation = g, !.attempts = n, !.automatic = a, !.parked = b, !.next = now]
            \in Carried
    BY <1>2 DEF Carried
  <2>2. q.generation \in Nat /\ q.attempts + 1 \in Nat
        /\ (q.automatic + 1 >= MaxAutomatic) \in BOOLEAN
    BY <1>2 DEF Carried
  <2>. QED
    BY <1>3, <2>1, <2>2 DEF Deferred
<1>5. /\ Deferred(p, q, now).rev = p.rev /\ Deferred(p, q, now).at = p.at
      /\ Deferred(p, q, now).generation = q.generation
      /\ Deferred(p, q, now).automatic = q.automatic + 1
      /\ Deferred(p, q, now).parked = (q.automatic + 1 >= MaxAutomatic)
  BY <1>2 DEF Deferred, Carried
<1>. QED
  BY <1>1, <1>3, <1>4, <1>5 DEF Pending, Carried

LEMMA RecordFields ==
  ASSUME TypeOK, NEW s \in Id
  PROVE  /\ record[s] \in Record
         /\ record[s].state \in {"absent", "active", "paused", "cancelled"}
         /\ record[s].rev \in Nat /\ record[s].cursor \in Nat \cup {None}
         /\ record[s].timing \in Timing \cup {None} /\ record[s].pending \in Pending \cup {None}
         /\ (record[s].state = "absent" => record[s] = Absent)
         /\ (record[s].state = "absent" <=> record[s].timing = None)
         /\ (record[s].timing # None =>
               /\ record[s].timing \in Timing
               /\ record[s].timing.once \in BOOLEAN
               /\ record[s].timing.fires \in SUBSET Nat)
         /\ touched[s] \in Nat /\ spent[s] \in Nat /\ since[s] \in Nat /\ clock \in Nat
<1>1. record[s] \in Record
  BY DEF TypeOK
<1>2. record[s].state = "absent" <=> record[s].timing = None
  BY <1>1 DEF Record, Absent
<1>. QED
  BY <1>1, <1>2, ScheduleConstants DEF TypeOK, Record, Time

LEMMA JobFields ==
  ASSUME TypeOK, NEW d \in Driver
  PROVE  /\ job[d] \in Job
         /\ job[d].at \in {"idle", "fetch", "prepare", "deny"} \cup Delivering
         /\ job[d].of \in Id /\ job[d].now \in Time /\ job[d].now \in Nat
         /\ job[d].seen \in Seen /\ job[d].due \in Due
         /\ job[d].again \in BOOLEAN /\ job[d].sends \in Pending \cup {None}
         /\ (job[d].at \in Delivering => job[d].sends \in Pending /\ ~job[d].sends.parked)
<1>1. job[d] \in Job
  BY DEF TypeOK
<1>. QED
  BY <1>1 DEF Job, Time

\* A transaction rewrites one record and notes when, if it leaves it paused.
LEMMA StoresEffect ==
  ASSUME TypeOK, NEW s \in Id, NEW r \in Record, Stores(s, r)
  PROVE  /\ record' \in [Id -> Record] /\ touched' \in [Id -> Time]
         /\ record'[s] = r
         /\ touched'[s] = IF r.state = "paused" THEN clock ELSE 0
         /\ \A t \in Id \ {s} : record'[t] = record[t] /\ touched'[t] = touched[t]
<1>1. clock \in Time /\ 0 \in Time
  BY ScheduleConstants DEF TypeOK, Time
<1>. QED
  BY <1>1 DEF TypeOK, Stores

LEMMA SetEffect ==
  ASSUME TypeOK, NEW d \in Driver, NEW j \in Job, Set(d, j)
  PROVE  /\ job' \in [Driver -> Job]
         /\ job'[d] = j
         /\ \A e \in Driver \ {d} : job'[e] = job[e]
BY DEF TypeOK, Set

LEMMA NoJobType == NoJob \in Job
<1>1. Someone \in Id
  BY ScheduleConstants DEF Someone
<1>2. 0 \in Time
  BY ScheduleConstants DEF Time
<1>. QED
  BY <1>1, <1>2 DEF NoJob, Job, NotSeen, Seen, NoDue, Due, Delivering

\* The records the management calls and the driver write.
Kept ==
  [state : {"absent", "active", "paused", "cancelled"}, rev : Nat,
   timing : Timing \cup {None}, cursor : Nat \cup {None}, pending : Pending \cup {None}]
LEMMA RecordUpdates ==
  ASSUME NEW r \in Record, r.state # "absent"
  PROVE  /\ \A st \in {"active", "paused", "cancelled"} : [r EXCEPT !.state = st] \in Record
         /\ [r EXCEPT !.state = "cancelled", !.cursor = None] \in Record
         /\ \A p \in Pending \cup {None} : [r EXCEPT !.pending = p] \in Record
         /\ \A p \in Pending, c \in Nat \cup {None} : [r EXCEPT !.cursor = c, !.pending = p] \in Record
         /\ \A c \in Nat \cup {None} : [r EXCEPT !.state = "active", !.cursor = c] \in Record
         /\ \A st \in {"active", "paused", "cancelled"} :
              [r EXCEPT !.pending = None, !.state = st] \in Record
         /\ \A c \in Nat, t \in Timing, n \in Nat :
              [r EXCEPT !.state = "active", !.rev = n, !.timing = t, !.cursor = c] \in Record
<1>1. None \notin Timing
  BY ScheduleConstants
<1>2. r \in Kept /\ r.timing # None
  BY DEF Record, Kept
<1>3. \A x \in Kept : x.state # "absent" /\ x.timing # None => x \in Record
  BY DEF Record, Kept
<1>4. ASSUME NEW st \in {"active", "paused", "cancelled"} PROVE [r EXCEPT !.state = st] \in Record
  <2>1. [r EXCEPT !.state = st] \in Kept
    BY <1>2 DEF Kept
  <2>. QED
    BY <1>2, <1>3, <2>1 DEF Kept
<1>5. [r EXCEPT !.state = "cancelled", !.cursor = None] \in Record
  <2>1. [r EXCEPT !.state = "cancelled", !.cursor = None] \in Kept
    BY <1>2 DEF Kept
  <2>. QED
    BY <1>2, <1>3, <2>1 DEF Kept
<1>6. ASSUME NEW p \in Pending \cup {None} PROVE [r EXCEPT !.pending = p] \in Record
  <2>1. [r EXCEPT !.pending = p] \in Kept
    BY <1>2 DEF Kept
  <2>. QED
    BY <1>2, <1>3, <2>1 DEF Kept
<1>7. ASSUME NEW p \in Pending, NEW c \in Nat \cup {None}
      PROVE  [r EXCEPT !.cursor = c, !.pending = p] \in Record
  <2>1. [r EXCEPT !.cursor = c, !.pending = p] \in Kept
    BY <1>2 DEF Kept
  <2>. QED
    BY <1>2, <1>3, <2>1 DEF Kept
<1>8. ASSUME NEW c \in Nat \cup {None} PROVE [r EXCEPT !.state = "active", !.cursor = c] \in Record
  <2>1. [r EXCEPT !.state = "active", !.cursor = c] \in Kept
    BY <1>2 DEF Kept
  <2>. QED
    BY <1>2, <1>3, <2>1 DEF Kept
<1>9. ASSUME NEW st \in {"active", "paused", "cancelled"}
      PROVE  [r EXCEPT !.pending = None, !.state = st] \in Record
  <2>1. [r EXCEPT !.pending = None, !.state = st] \in Kept
    BY <1>2 DEF Kept
  <2>. QED
    BY <1>2, <1>3, <2>1 DEF Kept
<1>10. ASSUME NEW c \in Nat, NEW t \in Timing, NEW n \in Nat
       PROVE  [r EXCEPT !.state = "active", !.rev = n, !.timing = t, !.cursor = c] \in Record
  <2>1. [r EXCEPT !.state = "active", !.rev = n, !.timing = t, !.cursor = c] \in Kept
    BY <1>2 DEF Kept
  <2>. QED
    BY <1>1, <1>2, <1>3, <2>1 DEF Kept
<1>. QED
  BY <1>4, <1>5, <1>6, <1>7, <1>8, <1>9, <1>10

First(t, c) == [Absent EXCEPT !.state = "active", !.rev = 1, !.timing = t, !.cursor = c]
LEMMA AbsentUpdates ==
  /\ Absent \in Record /\ Absent.rev = 0 /\ Absent.pending = None
  /\ \A t \in Timing, c \in Nat :
       /\ First(t, c) \in Record
       /\ First(t, c).state = "active" /\ First(t, c).rev = 1 /\ First(t, c).timing = t
       /\ First(t, c).cursor = c /\ First(t, c).pending = None
<1>1. None \notin Timing
  BY ScheduleConstants
<1>2. Absent \in Record /\ Absent.rev = 0 /\ Absent.pending = None
  BY DEF Record, Absent
<1>3. ASSUME NEW t \in Timing, NEW c \in Nat
      PROVE  /\ First(t, c) \in Record
             /\ First(t, c).state = "active" /\ First(t, c).rev = 1 /\ First(t, c).timing = t
             /\ First(t, c).cursor = c /\ First(t, c).pending = None
  <2>1. Absent \in Kept /\ Absent.pending = None
    BY DEF Absent, Kept
  <2>2. First(t, c) \in Kept
    BY <2>1 DEF First, Kept
  <2>3. /\ First(t, c).state = "active" /\ First(t, c).rev = 1 /\ First(t, c).timing = t
        /\ First(t, c).cursor = c /\ First(t, c).pending = None
    BY <2>1 DEF First, Kept
  <2>. QED
    BY <1>1, <2>2, <2>3 DEF Record, Kept
<1>. QED
  BY <1>2, <1>3

\* The instants schedule-time.ts computes.
LEMMA TimingFields ==
  \A t \in Timing :
    /\ t.once \in BOOLEAN /\ t.fires \in SUBSET Nat /\ t # None
    /\ (t.once => \E at \in t.fires : t.fires = {at})
BY ScheduleConstants

LEMMA CursorTypes ==
  ASSUME NEW t \in Timing, NEW now \in Nat
  PROVE  /\ NextAfter(t, now) \subseteq t.fires /\ InitialCursor(t, now) \subseteq t.fires
         /\ NextAfter(t, now) \subseteq Nat /\ InitialCursor(t, now) \subseteq Nat
         /\ \A c \in Nat : DueOccurrence(t, c, now) \subseteq Due
         /\ \A c \in Nat \cup {None} : ResumeCursor(t, c, now) \subseteq Nat \cup {None}
<1>1. t.fires \subseteq Nat
  BY TimingFields
<1>2. NextAfter(t, now) \subseteq t.fires /\ InitialCursor(t, now) \subseteq t.fires
  BY DEF NextAfter, InitialCursor
<1>3. ASSUME NEW c \in Nat PROVE DueOccurrence(t, c, now) \subseteq Due
  BY <1>1, <1>2 DEF DueOccurrence, Due, Latest
<1>4. ASSUME NEW c \in Nat \cup {None} PROVE ResumeCursor(t, c, now) \subseteq Nat \cup {None}
  BY <1>1, <1>2 DEF ResumeCursor
<1>. QED
  BY <1>1, <1>2, <1>3, <1>4

LEMMA BetweenType ==
  ASSUME TypeOK, NEW s \in Id, record[s].timing # None, NEW from, NEW to
  PROVE  Between(s, from, to) \subseteq Occurrences
<1>1. record[s].rev \in Nat /\ record[s].timing.fires \subseteq Nat
  BY RecordFields
<1>. QED
  BY <1>1 DEF Between, Occurrence, Occurrences

LEMMA InitTypeOK == Init => TypeOK
<1>. SUFFICES ASSUME Init PROVE TypeOK
  OBVIOUS
<1>1. 0 \in Time /\ 0 \in 0..MaxStop /\ 0 \in 0..MaxAutomatic
  BY ScheduleConstants DEF Time
<1>2. record \in [Id -> Record] /\ job \in [Driver -> Job]
  BY NoJobType, AbsentUpdates DEF Init
<1>3. /\ clock \in Time /\ touched \in [Id -> Time] /\ stops \in 0..MaxStop
      /\ since \in [Id -> Nat] /\ spent \in [Id -> 0..MaxAutomatic]
  BY <1>1 DEF Init
<1>4. \A set \in {admitted, barred, prepared, skipped, received, declined} : set \subseteq Occurrences
  BY DEF Init
<1>. QED
  BY <1>2, <1>3, <1>4 DEF TypeOK

LEMMA TypeStep ==
  ASSUME TypeOK, clock' \in Time, record' \in [Id -> Record], job' \in [Driver -> Job],
         touched' \in [Id -> Time], stops' \in 0..MaxStop,
         admitted' \subseteq Occurrences, barred' \subseteq Occurrences,
         prepared' \subseteq Occurrences, skipped' \subseteq Occurrences,
         received' \subseteq Occurrences, declined' \subseteq Occurrences,
         since' \in [Id -> Nat], spent' \in [Id -> 0..MaxAutomatic]
  PROVE  TypeOK'
BY DEF TypeOK

\* What a step leaves alone, of the variables' types.
LEMMA TypeFacts ==
  ASSUME TypeOK
  PROVE  /\ clock \in Time /\ record \in [Id -> Record] /\ job \in [Driver -> Job]
         /\ touched \in [Id -> Time] /\ stops \in 0..MaxStop
         /\ admitted \subseteq Occurrences /\ barred \subseteq Occurrences
         /\ prepared \subseteq Occurrences /\ skipped \subseteq Occurrences
         /\ received \subseteq Occurrences /\ declined \subseteq Occurrences
         /\ since \in [Id -> Nat] /\ spent \in [Id -> 0..MaxAutomatic]
BY DEF TypeOK

-----------------------------------------------------------------------------
(***************************************************************************)
(* What each operation writes.                                              *)
(***************************************************************************)
\* A step that rewrites the record of s, and no other.
Elsewhere(s) ==
  \A t \in Id \ {s} :
    /\ record'[t] = record[t] /\ touched'[t] = touched[t]
    /\ since'[t] = since[t] /\ spent'[t] = spent[t]
Paused(s) == touched'[s] = IF record'[s].state = "paused" THEN clock ELSE 0
\* ... and keeps its place in the calendar.
Settled(s) ==
  /\ record'[s].rev = record[s].rev /\ record'[s].timing = record[s].timing
  /\ record'[s].cursor = record[s].cursor
  /\ \/ record'[s].state = record[s].state
     \/ Live(s) /\ record'[s].state = "paused"
Untold == UNCHANGED <<prepared, skipped, received, declined>>
Quiet == UNCHANGED <<admitted, barred>>

\* A driver that rests remembers nothing but its reading of the clock.
Others(d) == \A e \in Driver \ {d} : job'[e] = job[e]
Rests(d) ==
  /\ job'[d].at \in {"idle", "fetch"} /\ job'[d].now \in {0, job[d].now, clock}

LEMMA StoredIsKept == ASSUME TypeOK, NEW s \in Id PROVE record[s] \in Kept
BY DEF TypeOK, Record, Kept

LEMMA ConfigureEffect ==
  ASSUME TypeOK, NEW s \in Id, NEW timing \in Timing, NEW now \in Time,
         Create(s, timing, now) \/ Update(s, timing, now)
  PROVE  /\ TypeOK' /\ Elsewhere(s) /\ Paused(s) /\ Untold /\ Quiet
         /\ job' = job /\ clock' = clock /\ now <= clock
         /\ record[s].state # "cancelled"
         /\ record'[s].state = "active" /\ record'[s].rev = record[s].rev + 1
         /\ record'[s].timing = timing /\ record'[s].pending = record[s].pending
         /\ record'[s].cursor \in InitialCursor(timing, now)
         /\ since'[s] = record'[s].cursor /\ spent' = spent
<1>1. now \in Nat /\ record[s] \in Record
  BY DEF Time, TypeOK
<1>2. PICK cursor \in InitialCursor(timing, now), r \in Record :
        /\ Stores(s, r)
        /\ r.state = "active" /\ r.rev = record[s].rev + 1 /\ r.timing = timing
        /\ r.pending = record[s].pending /\ r.cursor = cursor
        /\ since' = [since EXCEPT ![s] = cursor]
  <2>1. CASE Create(s, timing, now)
    <3>1. PICK cursor \in InitialCursor(timing, now) :
            /\ Stores(s, First(timing, cursor))
            /\ since' = [since EXCEPT ![s] = cursor]
      BY <2>1 DEF Create, First
    <3>2. cursor \in Nat
      BY <1>1, CursorTypes
    <3>3. record[s] = Absent
      BY <2>1, RecordFields DEF Create
    <3>4. /\ First(timing, cursor) \in Record
          /\ First(timing, cursor).state = "active" /\ First(timing, cursor).rev = record[s].rev + 1
          /\ First(timing, cursor).timing = timing /\ First(timing, cursor).cursor = cursor
          /\ First(timing, cursor).pending = record[s].pending
      BY <3>2, <3>3, AbsentUpdates
    <3>. QED
      BY <3>1, <3>4
  <2>2. CASE Update(s, timing, now)
    <3>1. PICK cursor \in InitialCursor(timing, now) :
            /\ Stores(s, [record[s] EXCEPT !.state = "active", !.rev = @ + 1, !.timing = timing,
                                            !.cursor = cursor])
            /\ since' = [since EXCEPT ![s] = cursor]
      BY <2>2 DEF Update
    <3>2. cursor \in Nat /\ record[s].rev + 1 \in Nat
      BY <1>1, CursorTypes, RecordFields
    <3>3. record[s].state # "absent"
      BY <2>2 DEF Update, Live
    <3>4. [record[s] EXCEPT !.state = "active", !.rev = @ + 1, !.timing = timing, !.cursor = cursor]
            \in Record
      BY <1>1, <3>2, <3>3, RecordUpdates
    <3>5. record[s] \in Kept
      BY <1>1 DEF Record, Kept
    <3>. QED
      BY <3>1, <3>4, <3>5 DEF Kept
  <2>. QED
    BY <2>1, <2>2
<1>3. cursor \in Nat
  BY <1>1, CursorTypes
<1>4. /\ now <= clock /\ record[s].state # "cancelled"
      /\ UNCHANGED <<clock, job, stops, world, prepared, skipped, received, declined, spent>>
  BY DEF Create, Update, Live
<1>5. since' \in [Id -> Nat] /\ since'[s] = cursor /\ \A t \in Id \ {s} : since'[t] = since[t]
  BY <1>2, <1>3, TypeFacts
<1>6. /\ record' \in [Id -> Record] /\ touched' \in [Id -> Time] /\ record'[s] = r
      /\ touched'[s] = IF r.state = "paused" THEN clock ELSE 0
      /\ \A t \in Id \ {s} : record'[t] = record[t] /\ touched'[t] = touched[t]
  BY <1>2, StoresEffect
<1>7. TypeOK'
  BY <1>4, <1>5, <1>6, TypeFacts, TypeStep DEF world
<1>. QED
  BY <1>2, <1>4, <1>5, <1>6, <1>7 DEF Elsewhere, Paused, Untold, Quiet, world

LEMMA PauseEffect ==
  ASSUME TypeOK, NEW s \in Id, Pause(s)
  PROVE  /\ TypeOK' /\ Elsewhere(s) /\ Paused(s) /\ Settled(s) /\ Untold /\ Quiet
         /\ record'[s].pending = record[s].pending
         /\ job' = job /\ clock' = clock /\ since' = since /\ spent' = spent
<1> DEFINE r == [record[s] EXCEPT !.state = "paused"]
<1>1. Live(s) /\ Stores(s, r) /\ UNCHANGED <<clock, job, stops, world, history>>
  BY DEF Pause
<1>2. r \in Record
  BY <1>1, RecordFields, RecordUpdates DEF Live
<1>3. /\ r.state = "paused" /\ r.rev = record[s].rev /\ r.timing = record[s].timing
      /\ r.cursor = record[s].cursor /\ r.pending = record[s].pending
  BY StoredIsKept DEF Kept
<1> HIDE DEF r
<1>4. TypeOK'
  BY <1>1, <1>2, StoresEffect, TypeFacts, TypeStep DEF world, history
<1>. QED
  BY <1>1, <1>2, <1>3, <1>4, StoresEffect
  DEF Elsewhere, Paused, Settled, Untold, Quiet, world, history

LEMMA CancelEffect ==
  ASSUME TypeOK, NEW s \in Id, Cancel(s)
  PROVE  /\ TypeOK' /\ Elsewhere(s) /\ Paused(s) /\ Untold /\ Quiet
         /\ record'[s].state = "cancelled" /\ record'[s].cursor = None
         /\ record'[s].rev = record[s].rev /\ record'[s].timing = record[s].timing
         /\ record'[s].pending = record[s].pending
         /\ job' = job /\ clock' = clock /\ since' = since /\ spent' = spent
<1> DEFINE r == [record[s] EXCEPT !.state = "cancelled", !.cursor = None]
<1>1. Live(s) /\ Stores(s, r) /\ UNCHANGED <<clock, job, stops, world, history>>
  BY DEF Cancel
<1>2. r \in Record
  BY <1>1, RecordFields, RecordUpdates DEF Live
<1>3. /\ r.state = "cancelled" /\ r.rev = record[s].rev /\ r.timing = record[s].timing
      /\ r.cursor = None /\ r.pending = record[s].pending
  BY StoredIsKept DEF Kept
<1> HIDE DEF r
<1>4. TypeOK'
  BY <1>1, <1>2, StoresEffect, TypeFacts, TypeStep DEF world, history
<1>. QED
  BY <1>1, <1>2, <1>3, <1>4, StoresEffect
  DEF Elsewhere, Paused, Untold, Quiet, world, history

LEMMA ResumeEffect ==
  ASSUME TypeOK, NEW s \in Id, NEW now \in Time, Resume(s, now)
  PROVE  /\ TypeOK' /\ Elsewhere(s) /\ Quiet
         /\ UNCHANGED <<prepared, received, declined>>
         /\ record[s].state = "paused" /\ touched[s] <= now /\ now <= clock
         /\ record'[s].state = "active" /\ touched'[s] = 0
         /\ record'[s].rev = record[s].rev /\ record'[s].timing = record[s].timing
         /\ record'[s].pending = record[s].pending
         /\ record'[s].cursor \in ResumeCursor(record[s].timing, record[s].cursor, now)
         /\ skipped' = IF ~record[s].timing.once /\ record[s].cursor # None
                       THEN skipped \cup Between(s, record[s].cursor, record'[s].cursor) ELSE skipped
         /\ job' = job /\ clock' = clock /\ since' = since /\ spent' = spent
<1>1. /\ record[s].state = "paused" /\ touched[s] <= now /\ now <= clock
      /\ UNCHANGED <<clock, job, stops, world, prepared, received, declined, since, spent>>
  BY DEF Resume
<1>2. PICK cursor \in ResumeCursor(record[s].timing, record[s].cursor, now) :
        /\ Stores(s, [record[s] EXCEPT !.state = "active", !.cursor = cursor])
        /\ skipped' = IF ~record[s].timing.once /\ record[s].cursor # None
                      THEN skipped \cup Between(s, record[s].cursor, cursor) ELSE skipped
  BY DEF Resume
<1> DEFINE r == [record[s] EXCEPT !.state = "active", !.cursor = cursor]
<1>3. record[s].timing \in Timing /\ record[s].timing # None /\ now \in Nat
  BY <1>1, RecordFields DEF Time
<1>4. cursor \in Nat \cup {None}
  BY <1>2, <1>3, RecordFields, CursorTypes
<1>5. r \in Record
  BY <1>1, <1>4, RecordFields, RecordUpdates
<1>6. /\ r.state = "active" /\ r.rev = record[s].rev /\ r.timing = record[s].timing
      /\ r.cursor = cursor /\ r.pending = record[s].pending
  BY StoredIsKept DEF Kept
<1>7. skipped' \subseteq Occurrences
  BY <1>2, <1>3, BetweenType, TypeFacts
<1>8. Stores(s, r)
  BY <1>2
<1> HIDE DEF r
<1>9. TypeOK'
  BY <1>1, <1>5, <1>7, <1>8, StoresEffect, TypeFacts, TypeStep DEF world
<1>. QED
  BY <1>1, <1>2, <1>5, <1>6, <1>8, <1>9, StoresEffect DEF Elsewhere, Quiet, world

LEMMA RecoverEffect ==
  ASSUME TypeOK, NEW s \in Id, NEW now \in Time, Recover(s, now)
  PROVE  /\ TypeOK' /\ Elsewhere(s) /\ Paused(s) /\ Settled(s) /\ Untold /\ Quiet
         /\ record[s].pending \in Pending
         /\ record'[s].pending = Rearmed(record[s].pending, now)
         /\ spent'[s] = 0 /\ job' = job /\ clock' = clock /\ since' = since
<1> DEFINE r == [record[s] EXCEPT !.pending = Rearmed(record[s].pending, now)]
<1>1. /\ record[s].pending # None /\ Stores(s, r) /\ spent' = [spent EXCEPT ![s] = 0]
      /\ UNCHANGED <<clock, job, stops, world, prepared, skipped, received, declined, since>>
  BY DEF Recover, Rearmed
<1>2. record[s].pending \in Pending /\ now \in Nat
  BY <1>1, RecordFields DEF Time
<1>3. record[s].state # "absent"
  BY <1>1, RecordFields, AbsentUpdates
<1>4. r \in Record
  BY <1>2, <1>3, RecordFields, RecordUpdates, RearmedIsPending
<1>5. /\ r.state = record[s].state /\ r.rev = record[s].rev /\ r.timing = record[s].timing
      /\ r.cursor = record[s].cursor /\ r.pending = Rearmed(record[s].pending, now)
  BY StoredIsKept DEF Kept
<1> HIDE DEF r
<1>6. spent' \in [Id -> 0..MaxAutomatic] /\ spent'[s] = 0 /\ \A t \in Id \ {s} : spent'[t] = spent[t]
  BY <1>1, TypeFacts, ScheduleConstants
<1>7. TypeOK'
  BY <1>1, <1>4, <1>6, StoresEffect, TypeFacts, TypeStep DEF world
<1>. QED
  BY <1>1, <1>2, <1>4, <1>5, <1>6, <1>7, StoresEffect
  DEF Elsewhere, Paused, Settled, Untold, Quiet, world

\* What a driver may hold, whatever it is doing.
Held ==
  [at : {"idle", "fetch", "prepare", "deny"} \cup Delivering, of : Id, now : Time,
   seen : Seen, due : Due, again : BOOLEAN, sends : Pending \cup {None}]
Fetching(s, now) == [NoJob EXCEPT !.at = "fetch", !.of = s, !.now = now]
Again(s, now) == [NoJob EXCEPT !.at = "fetch", !.of = s, !.now = now, !.again = TRUE]
Admitting(s, p) == [NoJob EXCEPT !.at = "admit", !.of = s, !.sends = p]
Planning(j, at, seen, due) == [j EXCEPT !.at = at, !.seen = seen, !.due = due]
Moved(j, at) == [j EXCEPT !.at = at]
LEMMA JobUpdates ==
  /\ NoJob \in Job /\ NoJob.at = "idle" /\ NoJob.now = 0
  /\ \A s \in Id, now \in Time :
       /\ Again(s, now) \in Job /\ Again(s, now).at = "fetch" /\ Again(s, now).now = now
       /\ Fetching(s, now) \in Job /\ Fetching(s, now).at = "fetch" /\ Fetching(s, now).now = now
  /\ \A s \in Id, p \in Pending :
       ~p.parked =>
         /\ Admitting(s, p) \in Job /\ Admitting(s, p).at = "admit" /\ Admitting(s, p).of = s
         /\ Admitting(s, p).now = 0 /\ Admitting(s, p).sends = p
  /\ \A j \in Job, at \in {"prepare", "deny"}, seen \in Seen, due \in Due :
       LET k == Planning(j, at, seen, due) IN
       /\ k \in Job /\ k.at = at /\ k.of = j.of /\ k.now = j.now
       /\ k.seen = seen /\ k.due = due
  /\ \A j \in Job, at \in Delivering :
       j.at \in Delivering =>
         LET k == Moved(j, at) IN
         /\ k \in Job /\ k.at = at /\ k.of = j.of /\ k.now = j.now /\ k.sends = j.sends
<1>1. NoJob \in Job /\ NoJob.at = "idle" /\ NoJob.now = 0
  BY NoJobType DEF NoJob
<1>2. NoJob \in Held /\ Delivering \cap {"idle", "fetch", "prepare", "deny"} = {}
  BY <1>1 DEF Job, Held, Delivering
<1>3. \A j \in Job : j \in Held /\ (j.at \in Delivering => j.sends # None /\ ~j.sends.parked)
  BY DEF Job, Held
<1>4. \A j \in Held : j.at \notin Delivering \/ (j.sends # None /\ ~j.sends.parked) => j \in Job
  BY DEF Job, Held
<1>5. ASSUME NEW s \in Id, NEW now \in Time
      PROVE  Again(s, now) \in Job /\ Again(s, now).at = "fetch" /\ Again(s, now).now = now
  <2>1. Again(s, now) \in Held /\ Again(s, now).at = "fetch" /\ Again(s, now).now = now
    BY <1>2 DEF Held, Again
  <2>. QED
    BY <1>2, <1>4, <2>1
<1>6. ASSUME NEW s \in Id, NEW now \in Time
      PROVE  Fetching(s, now) \in Job /\ Fetching(s, now).at = "fetch" /\ Fetching(s, now).now = now
  <2>1. Fetching(s, now) \in Held /\ Fetching(s, now).at = "fetch" /\ Fetching(s, now).now = now
    BY <1>2 DEF Held, Fetching
  <2>. QED
    BY <1>2, <1>4, <2>1
<1>7. ASSUME NEW s \in Id, NEW p \in Pending, ~p.parked
      PROVE  /\ Admitting(s, p) \in Job /\ Admitting(s, p).at = "admit" /\ Admitting(s, p).of = s
             /\ Admitting(s, p).now = 0 /\ Admitting(s, p).sends = p
  <2>1. "admit" \in Delivering
    BY DEF Delivering
  <2>2. /\ Admitting(s, p) \in Held /\ Admitting(s, p).at = "admit" /\ Admitting(s, p).of = s
        /\ Admitting(s, p).now = 0 /\ Admitting(s, p).sends = p
    BY <1>1, <1>2, <2>1 DEF Held, Admitting
  <2>. QED
    BY <1>4, <1>7, <2>2, PendingFields
<1>8. ASSUME NEW j \in Job, NEW at \in {"prepare", "deny"}, NEW seen \in Seen, NEW due \in Due
      PROVE  LET k == Planning(j, at, seen, due) IN
             /\ k \in Job /\ k.at = at /\ k.of = j.of /\ k.now = j.now
             /\ k.seen = seen /\ k.due = due
  <2> DEFINE k == Planning(j, at, seen, due)
  <2>1. /\ k \in Held /\ k.at = at /\ k.of = j.of /\ k.now = j.now
        /\ k.seen = seen /\ k.due = due
    BY <1>3 DEF Held, Planning
  <2>. QED
    BY <1>2, <1>4, <2>1
<1>9. ASSUME NEW j \in Job, NEW at \in Delivering, j.at \in Delivering
      PROVE  LET k == Moved(j, at) IN
             /\ k \in Job /\ k.at = at /\ k.of = j.of /\ k.now = j.now /\ k.sends = j.sends
  <2> DEFINE k == Moved(j, at)
  <2>1. /\ k \in Held /\ k.at = at /\ k.of = j.of /\ k.now = j.now /\ k.sends = j.sends
    BY <1>3 DEF Held, Moved
  <2>. QED
    BY <1>3, <1>4, <1>9, <2>1
<1>. QED
  BY <1>1, <1>5, <1>6, <1>7, <1>8, <1>9

\* A step that writes nothing but what one driver remembers.
Stays == UNCHANGED <<clock, record, touched, admitted, barred, prepared, skipped, received,
                     declined, since, spent>>
LEMMA JobStep ==
  ASSUME TypeOK, NEW d \in Driver, NEW j \in Job, Set(d, j), Stays, stops' \in 0..MaxStop
  PROVE  TypeOK' /\ Others(d) /\ job'[d] = j
<1>1. job' \in [Driver -> Job] /\ job'[d] = j /\ Others(d)
  BY SetEffect DEF Others
<1>. QED
  BY <1>1, TypeFacts, TypeStep DEF Stays

LEMMA BeginEffect ==
  ASSUME TypeOK, NEW d \in Driver, NEW s \in Id, Begin(d, s)
  PROVE  TypeOK' /\ Others(d) /\ Rests(d) /\ Stays
<1>1. Set(d, Fetching(s, clock)) /\ Stays /\ stops' = stops
  BY DEF Begin, Fetching, Stays, store, world, history
<1>. QED
  BY <1>1, JobUpdates, JobStep, TypeFacts DEF Rests

LEMMA StopEffect ==
  ASSUME TypeOK, NEW d \in Driver, Stop(d)
  PROVE  TypeOK' /\ Others(d) /\ Rests(d) /\ Stays
<1>1. Set(d, NoJob) /\ Stays /\ stops < MaxStop /\ stops' = stops + 1
  BY DEF Stop, Stays, store, world, history
<1>2. stops' \in 0..MaxStop
  BY <1>1, TypeFacts, ScheduleConstants
<1>3. TypeOK' /\ Others(d) /\ job'[d] = NoJob
  BY <1>1, <1>2, NoJobType, JobStep
<1>. QED
  BY <1>1, <1>3, JobUpdates DEF Rests

LEMMA TickEffect ==
  ASSUME TypeOK, Tick
  PROVE  /\ TypeOK' /\ clock' \in Nat /\ clock <= clock'
         /\ UNCHANGED <<record, touched, job, admitted, barred, prepared, skipped, received,
                        declined, since, spent>>
<1>1. /\ clock < Horizon /\ clock' = clock + 1
      /\ UNCHANGED <<record, touched, job, stops, admitted, barred, prepared, skipped, received,
                     declined, since, spent>>
  BY DEF Tick, store, world, history
<1>2. clock' \in Time /\ clock' \in Nat /\ clock <= clock'
  BY <1>1, TypeFacts, ScheduleConstants DEF Time
<1>. QED
  BY <1>1, <1>2, TypeFacts, TypeStep

\* A driver that takes up the pending delivery p of the schedule it works on.
Dispatches(d, p) ==
  /\ job'[d].at = "admit" /\ job'[d].of = job[d].of /\ job'[d].now = 0 /\ job'[d].sends = p
LEMMA SendsEffect ==
  ASSUME TypeOK, NEW d \in Driver, NEW p \in Pending, ~p.parked, Sends(d, p)
  PROVE  job' \in [Driver -> Job] /\ Others(d) /\ Dispatches(d, p)
<1>1. Set(d, Admitting(job[d].of, p))
  BY DEF Sends, Admitting
<1>. QED
  BY <1>1, JobFields, JobUpdates, SetEffect DEF Others, Dispatches

Plans(d) ==
  LET r == record[job[d].of] IN
  /\ Preparable(r, job[d].now)
  /\ job'[d].at \in {"prepare", "deny"} /\ job'[d].of = job[d].of /\ job'[d].now = job[d].now
  /\ job'[d].seen.rev = r.rev /\ job'[d].seen.cursor = r.cursor
  /\ job'[d].due \in DueOccurrence(r.timing, r.cursor, job[d].now)
LEMMA FetchEffect ==
  ASSUME TypeOK, NEW d \in Driver, Fetch(d)
  PROVE  /\ TypeOK' /\ Others(d) /\ Stays
         /\ \/ Rests(d)
            \/ /\ record[job[d].of].pending \in Pending
               /\ Dispatches(d, record[job[d].of].pending)
            \/ Plans(d)
<1> DEFINE r == record[job[d].of]
<1>1. Stays /\ stops' = stops
  BY DEF Fetch, Stays, store, world, history
<1>2. job[d].of \in Id /\ job[d] \in Job /\ job[d].now \in Nat
  BY JobFields
<1>3. CASE r.pending # None /\ Deliverable(r.pending, job[d].now) /\ Sends(d, r.pending)
  <2>1. r.pending \in Pending /\ ~r.pending.parked
    BY <1>2, <1>3, RecordFields DEF Deliverable
  <2>2. job' \in [Driver -> Job] /\ Others(d) /\ Dispatches(d, r.pending)
    BY <1>3, <2>1, SendsEffect
  <2>3. TypeOK'
    BY <1>1, <2>2, TypeFacts, TypeStep DEF Stays
  <2>. QED
    BY <1>1, <2>1, <2>2, <2>3
<1>4. CASE /\ Preparable(r, job[d].now)
           /\ \E due \in DueOccurrence(r.timing, r.cursor, job[d].now), at \in {"prepare", "deny"} :
                Set(d, [job[d] EXCEPT !.at = at, !.seen = [rev |-> r.rev, cursor |-> r.cursor],
                                      !.due = due])
  <2> DEFINE seen == [rev |-> r.rev, cursor |-> r.cursor]
  <2>1. PICK due \in DueOccurrence(r.timing, r.cursor, job[d].now), at \in {"prepare", "deny"} :
               Set(d, [job[d] EXCEPT !.at = at, !.seen = seen, !.due = due])
    BY <1>4
  <2>2. r.timing \in Timing /\ r.cursor \in Nat
    BY <1>2, <1>4, RecordFields DEF Preparable
  <2>3. due \in Due
    BY <1>2, <2>2, CursorTypes
  <2>4. seen \in Seen
    BY <1>2, RecordFields DEF Seen
  <2> DEFINE k == Planning(job[d], at, seen, due)
  <2> HIDE DEF seen
  <2>5. Set(d, k)
    BY <2>1 DEF Planning
  <2>6. /\ k \in Job /\ k.at = at /\ k.of = job[d].of /\ k.now = job[d].now
        /\ k.seen = seen /\ k.due = due
    BY <1>2, <2>3, <2>4, JobUpdates
  <2> HIDE DEF k
  <2>7. TypeOK' /\ Others(d) /\ job'[d] = k
    BY <1>1, <2>5, <2>6, TypeFacts, JobStep
  <2>8. Plans(d)
    BY <1>4, <2>1, <2>6, <2>7 DEF Plans, seen
  <2>. QED
    BY <1>1, <2>7, <2>8
<1>5. CASE Set(d, NoJob)
  <2>1. TypeOK' /\ Others(d) /\ job'[d] = NoJob
    BY <1>1, <1>5, TypeFacts, NoJobType, JobStep
  <2>. QED
    BY <1>1, <2>1, JobUpdates DEF Rests
<1>. QED
  BY <1>3, <1>4, <1>5 DEF Fetch

LEMMA ConflictEffect ==
  ASSUME TypeOK, NEW d \in Driver, Conflict(d), UNCHANGED <<clock, stops, world>>
  PROVE  TypeOK' /\ Others(d) /\ Rests(d) /\ Stays
<1>1. Stays /\ stops' = stops
  BY DEF Conflict, Stays, store, world, history
<1>2. job[d].of \in Id /\ job[d].now \in Time
  BY JobFields
<1>3. Set(d, NoJob) \/ Set(d, Again(job[d].of, job[d].now))
  BY DEF Conflict, Again
<1>4. CASE Set(d, NoJob)
  <2>1. TypeOK' /\ Others(d) /\ job'[d] = NoJob
    BY <1>1, <1>4, TypeFacts, NoJobType, JobStep
  <2>. QED
    BY <1>1, <2>1, JobUpdates DEF Rests
<1>5. CASE Set(d, Again(job[d].of, job[d].now))
  <2>1. TypeOK' /\ Others(d) /\ job'[d] = Again(job[d].of, job[d].now)
    BY <1>1, <1>2, <1>5, TypeFacts, JobUpdates, JobStep
  <2>. QED
    BY <1>1, <1>2, <2>1, JobUpdates DEF Rests
<1>. QED
  BY <1>3, <1>4, <1>5

\* The occurrence a driver plans is prepared, over what it records as skipped.
Prepares(d) ==
  LET s == job[d].of
      due == job[d].due
  IN
  /\ MayPrepare(s, job[d].seen)
  /\ Elsewhere(s) /\ Paused(s)
  /\ record'[s].state = "active" /\ record'[s].rev = record[s].rev
  /\ record'[s].timing = record[s].timing /\ record'[s].cursor = due.next
  /\ record'[s].pending = Fresh(record[s].rev, due.at, job[d].now)
  /\ Dispatches(d, record'[s].pending)
  /\ prepared' = prepared \cup {Occurrence(s, record[s].rev, due.at)}
  /\ skipped' = skipped \cup Between(s, record[s].cursor, due.at)
  /\ spent'[s] = 0
  /\ UNCHANGED <<clock, received, declined, since>>
LEMMA PrepareEffect ==
  ASSUME TypeOK, NEW d \in Driver, Prepare(d)
  PROVE  /\ TypeOK' /\ Others(d) /\ Quiet /\ job[d].at = "prepare"
         /\ (Rests(d) /\ Stays) \/ Prepares(d)
<1> DEFINE s == job[d].of
           due == job[d].due
           p == Fresh(record[s].rev, due.at, job[d].now)
           r == [record[s] EXCEPT !.cursor = due.next, !.pending = p]
<1>1. /\ job[d].at = "prepare" /\ UNCHANGED <<clock, stops, world>>
      /\ s \in Id /\ job[d].now \in Nat /\ due.at \in Nat /\ due.next \in Nat \cup {None}
  BY JobFields DEF Prepare, Due
<1>2. CASE Conflict(d)
  BY <1>1, <1>2, ConflictEffect DEF Quiet, Stays
<1>3. CASE /\ MayPrepare(s, job[d].seen)
           /\ Stores(s, r)
           /\ Sends(d, r.pending)
           /\ prepared' = prepared \cup {Occurrence(s, record[s].rev, due.at)}
           /\ skipped' = skipped \cup Between(s, record[s].cursor, due.at)
           /\ spent' = [spent EXCEPT ![s] = 0]
           /\ UNCHANGED <<received, declined, since>>
  <2>1. record[s].state = "active" /\ record[s].rev \in Nat /\ record[s].timing # None
    BY <1>1, <1>3, RecordFields DEF MayPrepare
  <2>2. p \in Pending /\ ~p.parked
    <3>1. p \in Pending
      BY <1>1, <2>1, FreshIsPending
    <3>2. ~p.parked
      BY DEF Fresh
    <3>. QED
      BY <3>1, <3>2
  <2> HIDE DEF p
  <2>3. r \in Record
    BY <1>1, <2>1, <2>2, RecordFields, RecordUpdates
  <2>4. /\ r.state = "active" /\ r.rev = record[s].rev /\ r.timing = record[s].timing
        /\ r.cursor = due.next /\ r.pending = p
    BY <1>1, <2>1, StoredIsKept DEF Kept
  <2>5. Stores(s, r)
    BY <1>3
  <2>6. Sends(d, p)
    BY <1>3, <2>4
  <2> HIDE DEF r
  <2>7. /\ record' \in [Id -> Record] /\ touched' \in [Id -> Time] /\ record'[s] = r
        /\ touched'[s] = IF r.state = "paused" THEN clock ELSE 0
        /\ \A t \in Id \ {s} : record'[t] = record[t] /\ touched'[t] = touched[t]
    BY <1>1, <2>3, <2>5, StoresEffect
  <2>8. job' \in [Driver -> Job] /\ Others(d) /\ Dispatches(d, p)
    BY <2>2, <2>6, SendsEffect
  <2>9. /\ spent' \in [Id -> 0..MaxAutomatic] /\ spent'[s] = 0
        /\ \A t \in Id \ {s} : spent'[t] = spent[t]
    BY <1>1, <1>3, TypeFacts, ScheduleConstants
  <2>10. prepared' \subseteq Occurrences /\ skipped' \subseteq Occurrences
    <3>1. Occurrence(s, record[s].rev, due.at) \in Occurrences
      BY <1>1, <2>1 DEF Occurrence, Occurrences
    <3>. QED
      BY <1>1, <1>3, <2>1, <3>1, BetweenType, TypeFacts
  <2>11. TypeOK'
    BY <1>1, <1>3, <2>7, <2>8, <2>9, <2>10, TypeFacts, TypeStep DEF world
  <2>12. MayPrepare(s, job[d].seen)
    BY <1>3
  <2>13. Prepares(d)
    BY <1>1, <1>3, <2>4, <2>7, <2>8, <2>9, <2>12 DEF Prepares, Elsewhere, Paused, p
  <2>. QED
    BY <1>1, <2>8, <2>11, <2>13 DEF Quiet, world
<1>. QED
  BY <1>2, <1>3 DEF Prepare

\* A driver that is denied the preparation pauses the schedule.
Denies(d) ==
  LET s == job[d].of IN
  /\ MayPrepare(s, job[d].seen) /\ Rests(d)
  /\ Elsewhere(s) /\ Paused(s) /\ Settled(s) /\ record'[s].pending = record[s].pending
  /\ UNCHANGED <<clock, prepared, skipped, received, declined, since, spent>>
LEMMA DenyEffect ==
  ASSUME TypeOK, NEW d \in Driver, DenyPreparation(d)
  PROVE  /\ TypeOK' /\ Others(d) /\ Quiet
         /\ (Rests(d) /\ Stays) \/ Denies(d)
<1> DEFINE s == job[d].of
           r == [record[s] EXCEPT !.state = "paused"]
<1>1. s \in Id /\ UNCHANGED <<clock, stops, world>>
  BY JobFields DEF DenyPreparation
<1>2. CASE Conflict(d)
  BY <1>1, <1>2, ConflictEffect DEF Quiet, Stays
<1>3. CASE MayPrepare(s, job[d].seen) /\ Stores(s, r) /\ Set(d, NoJob) /\ UNCHANGED history
  <2>1. record[s].state = "active"
    BY <1>3 DEF MayPrepare
  <2>2. r \in Record
    BY <1>1, <2>1, RecordFields, RecordUpdates
  <2>3. /\ r.state = "paused" /\ r.rev = record[s].rev /\ r.timing = record[s].timing
        /\ r.cursor = record[s].cursor /\ r.pending = record[s].pending
    BY <1>1, StoredIsKept DEF Kept
  <2>4. Stores(s, r)
    BY <1>3
  <2> HIDE DEF r
  <2>5. /\ record' \in [Id -> Record] /\ touched' \in [Id -> Time] /\ record'[s] = r
        /\ touched'[s] = IF r.state = "paused" THEN clock ELSE 0
        /\ \A t \in Id \ {s} : record'[t] = record[t] /\ touched'[t] = touched[t]
    BY <1>1, <2>2, <2>4, StoresEffect
  <2>6. job' \in [Driver -> Job] /\ Others(d) /\ job'[d] = NoJob
    BY <1>3, NoJobType, SetEffect DEF Others
  <2>7. TypeOK'
    BY <1>1, <1>3, <2>5, <2>6, TypeFacts, TypeStep DEF world, history
  <2>8. Rests(d)
    BY <2>6, JobUpdates DEF Rests
  <2>9. Denies(d)
    BY <1>1, <1>3, <2>1, <2>3, <2>5, <2>8 DEF Denies, Elsewhere, Paused, Settled, Live, history
  <2>. QED
    BY <1>1, <2>6, <2>7, <2>9 DEF Quiet, world
<1>. QED
  BY <1>2, <1>3 DEF DenyPreparation

LEMMA SentType ==
  ASSUME TypeOK, NEW d \in Driver, job[d].at \in Delivering
  PROVE  Sent(d) \in Occurrences
BY JobFields, PendingFields DEF Sent, Occurrence, Occurrences

\* A driver goes on with the delivery it has in hand.
Goes(d, at) ==
  /\ job[d].at \in Delivering
  /\ job'[d].at = at /\ job'[d].of = job[d].of /\ job'[d].now = job[d].now
  /\ job'[d].sends = job[d].sends
LEMMA GotoEffect ==
  ASSUME TypeOK, NEW d \in Driver, NEW at \in Delivering, job[d].at \in Delivering, Goto(d, at),
         UNCHANGED <<clock, record, touched, stops, prepared, skipped, received, declined, since,
                     spent>>,
         admitted' \subseteq Occurrences, barred' \subseteq Occurrences
  PROVE  TypeOK' /\ Others(d) /\ Goes(d, at)
<1>1. Set(d, Moved(job[d], at))
  BY DEF Goto, Moved
<1>2. /\ Moved(job[d], at) \in Job /\ Moved(job[d], at).at = at
      /\ Moved(job[d], at).of = job[d].of /\ Moved(job[d], at).now = job[d].now
      /\ Moved(job[d], at).sends = job[d].sends
  BY JobFields, JobUpdates
<1>3. job' \in [Driver -> Job] /\ job'[d] = Moved(job[d], at) /\ Others(d)
  BY <1>1, <1>2, SetEffect DEF Others
<1>4. Goes(d, at)
  BY <1>2, <1>3 DEF Goes
<1>. QED
  BY <1>3, <1>4, TypeFacts, TypeStep

\* The destination decides, or the driver learns nothing.
Asks(d) ==
  \/ /\ Sent(d) \notin barred /\ admitted' = admitted \cup {Sent(d)} /\ barred' = barred
     /\ Goes(d, "complete") \/ Goes(d, "retry")
  \/ /\ Sent(d) \notin admitted /\ barred' = barred \cup {Sent(d)} /\ admitted' = admitted
     /\ Goes(d, "refuse") \/ Goes(d, "retry")
  \/ Goes(d, "retry") /\ Quiet
LEMMA AdmitEffect ==
  ASSUME TypeOK, NEW d \in Driver, Admit(d)
  PROVE  /\ TypeOK' /\ Others(d) /\ Asks(d)
         /\ UNCHANGED <<clock, record, touched, prepared, skipped, received, declined, since, spent>>
<1>1. /\ job[d].at \in Delivering /\ {"complete", "refuse", "retry"} \subseteq Delivering
      /\ UNCHANGED <<clock, record, touched, stops, prepared, skipped, received, declined, since,
                     spent>>
  BY DEF Admit, Delivering, store, history
<1>2. Sent(d) \in Occurrences
  BY <1>1, SentType
<1>3. ASSUME NEW at \in Delivering, Goto(d, at),
             admitted' \subseteq Occurrences, barred' \subseteq Occurrences
      PROVE  TypeOK' /\ Others(d) /\ Goes(d, at)
  BY <1>1, <1>3, GotoEffect
<1>4. CASE /\ Sent(d) \notin barred /\ admitted' = admitted \cup {Sent(d)} /\ barred' = barred
           /\ Goto(d, "complete") \/ Goto(d, "retry")
  <2>1. admitted' \subseteq Occurrences /\ barred' \subseteq Occurrences
    BY <1>2, <1>4, TypeFacts
  <2>. QED
    BY <1>1, <1>3, <1>4, <2>1 DEF Asks
<1>5. CASE /\ Sent(d) \notin admitted /\ barred' = barred \cup {Sent(d)} /\ admitted' = admitted
           /\ Goto(d, "refuse") \/ Goto(d, "retry")
  <2>1. admitted' \subseteq Occurrences /\ barred' \subseteq Occurrences
    BY <1>2, <1>5, TypeFacts
  <2>. QED
    BY <1>1, <1>3, <1>5, <2>1 DEF Asks
<1>6. CASE Goto(d, "retry") /\ UNCHANGED world
  <2>1. admitted' \subseteq Occurrences /\ barred' \subseteq Occurrences /\ Quiet
    BY <1>6, TypeFacts DEF world, Quiet
  <2>. QED
    BY <1>1, <1>3, <1>6, <2>1 DEF Asks
<1>. QED
  BY <1>4, <1>5, <1>6 DEF Admit, Learns

\* A Receipt closes the pending delivery it is of.
Completes(d) ==
  LET s == job[d].of IN
  /\ job[d].at = "complete" /\ Mine(d) /\ Rests(d)
  /\ Elsewhere(s) /\ Paused(s) /\ Settled(s) /\ record'[s].pending = None
  /\ received' = received \cup {Sent(d)}
  /\ UNCHANGED <<clock, prepared, skipped, declined, since, spent>>
LEMMA CompleteEffect ==
  ASSUME TypeOK, NEW d \in Driver, Complete(d)
  PROVE  /\ TypeOK' /\ Others(d) /\ Quiet /\ job[d].at = "complete"
         /\ \/ Rests(d) /\ Stays
            \/ Goes(d, "retry") /\ Stays
            \/ Completes(d)
<1> DEFINE s == job[d].of
           r == [record[s] EXCEPT !.pending = None]
<1>1. /\ s \in Id /\ UNCHANGED <<clock, stops, world>> /\ job[d].at = "complete"
      /\ job[d].at \in Delivering
  BY JobFields DEF Complete, Delivering
<1>2. CASE Stale(d)
  <2>1. Stays /\ stops' = stops /\ Set(d, NoJob)
    BY <1>1, <1>2 DEF Stale, Stays, store, world, history
  <2>2. TypeOK' /\ Others(d) /\ job'[d] = NoJob
    BY <2>1, TypeFacts, NoJobType, JobStep
  <2>. QED
    BY <1>1, <2>1, <2>2, JobUpdates DEF Rests, Quiet, Stays
<1>3. CASE Unavailable(d)
  <2>1. Stays /\ stops' = stops /\ Goto(d, "retry") /\ "retry" \in Delivering
    BY <1>1, <1>3 DEF Unavailable, Stays, store, world, history, Delivering
  <2>2. TypeOK' /\ Others(d) /\ Goes(d, "retry")
    BY <1>1, <2>1, TypeFacts, GotoEffect DEF Stays
  <2>. QED
    BY <1>1, <2>1, <2>2 DEF Quiet, Stays
<1>4. CASE /\ Mine(d) /\ Stores(s, r) /\ Set(d, NoJob)
           /\ received' = received \cup {Sent(d)}
           /\ UNCHANGED <<prepared, skipped, declined, since, spent>>
  <2>1. record[s].pending # None /\ record[s].state # "absent"
    BY <1>1, <1>4, RecordFields, AbsentUpdates DEF Mine, IsPending
  <2>2. r \in Record
    <3>1. record[s].state \in {"active", "paused", "cancelled"}
      BY <1>1, <2>1, RecordFields
    <3>. QED
      BY <1>1, <2>1, <3>1, RecordFields, RecordUpdates
  <2>3. /\ r.state = record[s].state /\ r.rev = record[s].rev
        /\ r.timing = record[s].timing /\ r.cursor = record[s].cursor /\ r.pending = None
    BY <1>1, StoredIsKept DEF Kept
  <2>4. Stores(s, r)
    BY <1>4
  <2> HIDE DEF r
  <2>5. /\ record' \in [Id -> Record] /\ touched' \in [Id -> Time] /\ record'[s] = r
        /\ touched'[s] = IF r.state = "paused" THEN clock ELSE 0
        /\ \A t \in Id \ {s} : record'[t] = record[t] /\ touched'[t] = touched[t]
    BY <1>1, <2>2, <2>4, StoresEffect
  <2>6. job' \in [Driver -> Job] /\ Others(d) /\ job'[d] = NoJob
    BY <1>4, NoJobType, SetEffect DEF Others
  <2>7. received' \subseteq Occurrences
    BY <1>1, <1>4, TypeFacts, SentType
  <2>8. TypeOK'
    BY <1>1, <1>4, <2>5, <2>6, <2>7, TypeFacts, TypeStep DEF world
  <2>9. Rests(d)
    BY <2>6, JobUpdates DEF Rests
  <2>10. Completes(d)
    BY <1>1, <1>4, <2>3, <2>5, <2>9 DEF Completes, Elsewhere, Paused, Settled, Live
  <2>. QED
    BY <1>1, <2>6, <2>8, <2>10 DEF Quiet, world
<1>. QED
  BY <1>2, <1>3, <1>4 DEF Complete

\* A refusal closes it too, and pauses an active schedule.
Refuses(d) ==
  LET s == job[d].of IN
  /\ job[d].at = "refuse" /\ Mine(d) /\ Rests(d)
  /\ Elsewhere(s) /\ Paused(s) /\ Settled(s) /\ record'[s].pending = None
  /\ declined' = declined \cup {Sent(d)}
  /\ UNCHANGED <<clock, prepared, skipped, received, since, spent>>
LEMMA RefuseEffect ==
  ASSUME TypeOK, NEW d \in Driver, Refuse(d)
  PROVE  /\ TypeOK' /\ Others(d) /\ Quiet /\ job[d].at = "refuse"
         /\ \/ Rests(d) /\ Stays
            \/ Goes(d, "retry") /\ Stays
            \/ Refuses(d)
<1> DEFINE s == job[d].of
           r == [record[s] EXCEPT !.pending = None,
                                !.state = IF @ = "active" THEN "paused" ELSE @]
<1>1. /\ s \in Id /\ UNCHANGED <<clock, stops, world>> /\ job[d].at = "refuse"
      /\ job[d].at \in Delivering
  BY JobFields DEF Refuse, Delivering
<1>2. CASE Stale(d)
  <2>1. Stays /\ stops' = stops /\ Set(d, NoJob)
    BY <1>1, <1>2 DEF Stale, Stays, store, world, history
  <2>2. TypeOK' /\ Others(d) /\ job'[d] = NoJob
    BY <2>1, TypeFacts, NoJobType, JobStep
  <2>. QED
    BY <1>1, <2>1, <2>2, JobUpdates DEF Rests, Quiet, Stays
<1>3. CASE Unavailable(d)
  <2>1. Stays /\ stops' = stops /\ Goto(d, "retry") /\ "retry" \in Delivering
    BY <1>1, <1>3 DEF Unavailable, Stays, store, world, history, Delivering
  <2>2. TypeOK' /\ Others(d) /\ Goes(d, "retry")
    BY <1>1, <2>1, TypeFacts, GotoEffect DEF Stays
  <2>. QED
    BY <1>1, <2>1, <2>2 DEF Quiet, Stays
<1>4. CASE /\ Mine(d) /\ Stores(s, r) /\ Set(d, NoJob)
           /\ declined' = declined \cup {Sent(d)}
           /\ UNCHANGED <<prepared, skipped, received, since, spent>>
  <2>1. record[s].pending # None /\ record[s].state # "absent"
    BY <1>1, <1>4, RecordFields, AbsentUpdates DEF Mine, IsPending
  <2>2. r \in Record
    <3>1. record[s].state \in {"active", "paused", "cancelled"}
      BY <1>1, <2>1, RecordFields
    <3>. QED
      BY <1>1, <2>1, <3>1, RecordFields, RecordUpdates
  <2>3. /\ r.state = record[s].state \/ (record[s].state = "active" /\ r.state = "paused")
        /\ r.rev = record[s].rev
        /\ r.timing = record[s].timing /\ r.cursor = record[s].cursor /\ r.pending = None
    BY <1>1, StoredIsKept DEF Kept
  <2>4. Stores(s, r)
    BY <1>4
  <2> HIDE DEF r
  <2>5. /\ record' \in [Id -> Record] /\ touched' \in [Id -> Time] /\ record'[s] = r
        /\ touched'[s] = IF r.state = "paused" THEN clock ELSE 0
        /\ \A t \in Id \ {s} : record'[t] = record[t] /\ touched'[t] = touched[t]
    BY <1>1, <2>2, <2>4, StoresEffect
  <2>6. job' \in [Driver -> Job] /\ Others(d) /\ job'[d] = NoJob
    BY <1>4, NoJobType, SetEffect DEF Others
  <2>7. declined' \subseteq Occurrences
    BY <1>1, <1>4, TypeFacts, SentType
  <2>8. TypeOK'
    BY <1>1, <1>4, <2>5, <2>6, <2>7, TypeFacts, TypeStep DEF world
  <2>9. Rests(d)
    BY <2>6, JobUpdates DEF Rests
  <2>10. Refuses(d)
    BY <1>1, <1>4, <2>3, <2>5, <2>9 DEF Refuses, Elsewhere, Paused, Settled, Live
  <2>. QED
    BY <1>1, <2>6, <2>8, <2>10 DEF Quiet, world
<1>. QED
  BY <1>2, <1>3, <1>4 DEF Refuse

\* A failed attempt leaves the delivery to a later one.
Defers(d) ==
  LET s == job[d].of IN
  /\ Mine(d) /\ Spends(record[s].pending, job[d].sends)
  /\ Elsewhere(s) /\ Paused(s) /\ Settled(s)
  /\ \E next \in Nat : record'[s].pending = Deferred(record[s].pending, job[d].sends, next)
Spent(d) ==
  LET s == job[d].of IN
  \/ /\ Mine(d) /\ job[d].sends.generation = record[s].pending.generation
     /\ spent[s] < MaxAutomatic /\ spent'[s] = spent[s] + 1
  \/ /\ ~Mine(d) \/ job[d].sends.generation # record[s].pending.generation
        \/ spent[s] = MaxAutomatic
     /\ spent'[s] = spent[s]
LEMMA RetryEffect ==
  ASSUME TypeOK, NEW d \in Driver, Retry(d)
  PROVE  /\ TypeOK' /\ Others(d) /\ Quiet /\ Rests(d) /\ job[d].at = "retry"
         /\ Spent(d) /\ \A t \in Id \ {job[d].of} : spent'[t] = spent[t]
         /\ UNCHANGED <<clock, prepared, skipped, received, declined, since>>
         /\ UNCHANGED <<record, touched>> \/ Defers(d)
<1> DEFINE s == job[d].of
           p == job[d].sends
           current == record[s].pending
           next == clock + Backoff(p.attempts)
           r == [record[s] EXCEPT !.pending = Deferred(current, p, next)]
<1>1. /\ s \in Id /\ job[d].at = "retry" /\ Set(d, NoJob)
      /\ UNCHANGED <<clock, stops, world, prepared, skipped, received, declined, since>>
  BY JobFields DEF Retry
<1>2. p \in Pending /\ ~p.parked /\ next \in Nat
  <2>1. p \in Pending /\ ~p.parked
    BY <1>1, JobFields DEF Delivering
  <2>2. Backoff(p.attempts) \in Nat
    BY <2>1, PendingFields, BackoffType
  <2>. QED
    BY <1>1, <2>1, <2>2, RecordFields
<1>3. job' \in [Driver -> Job] /\ Others(d) /\ Rests(d)
  BY <1>1, NoJobType, SetEffect, JobUpdates DEF Others, Rests
<1>4. /\ spent' \in [Id -> 0..MaxAutomatic] /\ Spent(d)
      /\ \A t \in Id \ {s} : spent'[t] = spent[t]
  <2>1. spent' = IF Mine(d) /\ p.generation = current.generation /\ spent[s] < MaxAutomatic
                 THEN [spent EXCEPT ![s] = @ + 1] ELSE spent
    BY DEF Retry
  <2>2. spent \in [Id -> 0..MaxAutomatic] /\ MaxAutomatic \in Nat
    BY TypeFacts, ScheduleConstants
  <2>. QED
    BY <1>1, <2>1, <2>2 DEF Spent
<1>5. CASE UNCHANGED store
  <2>1. TypeOK'
    BY <1>1, <1>3, <1>4, <1>5, TypeFacts, TypeStep DEF store, world
  <2>. QED
    BY <1>1, <1>3, <1>4, <1>5, <2>1 DEF Quiet, store, world
<1>6. CASE Mine(d) /\ Spends(current, p) /\ Stores(s, r)
  <2>1. current \in Pending /\ record[s].state # "absent"
    BY <1>1, <1>6, RecordFields, AbsentUpdates DEF Mine, IsPending
  <2>2. Deferred(current, p, next) \in Pending
    BY <1>2, <2>1, DeferredIsPending
  <2>3. r \in Record
    BY <1>1, <2>1, <2>2, RecordFields, RecordUpdates
  <2>4. /\ r.state = record[s].state /\ r.rev = record[s].rev /\ r.timing = record[s].timing
        /\ r.cursor = record[s].cursor /\ r.pending = Deferred(current, p, next)
    BY <1>1, StoredIsKept DEF Kept
  <2>5. Stores(s, r)
    BY <1>6
  <2> HIDE DEF r, next
  <2>6. /\ record' \in [Id -> Record] /\ touched' \in [Id -> Time] /\ record'[s] = r
        /\ touched'[s] = IF r.state = "paused" THEN clock ELSE 0
        /\ \A t \in Id \ {s} : record'[t] = record[t] /\ touched'[t] = touched[t]
    BY <1>1, <2>3, <2>5, StoresEffect
  <2>7. TypeOK'
    BY <1>1, <1>3, <1>4, <2>6, TypeFacts, TypeStep DEF world
  <2>8. \A t \in Id \ {s} : since'[t] = since[t]
    BY <1>1
  <2>9. Defers(d)
    BY <1>1, <1>2, <1>4, <1>6, <2>4, <2>6, <2>8 DEF Defers, Elsewhere, Paused, Settled
  <2>. QED
    BY <1>1, <1>3, <1>4, <2>7, <2>9 DEF Quiet, world
<1>. QED
  BY <1>5, <1>6 DEF Retry, Deferred

LEMMA NextTypeOK == TypeOK /\ [Next]_vars => TypeOK'
<1>. SUFFICES ASSUME TypeOK, [Next]_vars PROVE TypeOK'
  OBVIOUS
<1>1. CASE Manage
  BY <1>1, PauseEffect, CancelEffect, ConfigureEffect, ResumeEffect, RecoverEffect DEF Manage
<1>2. ASSUME NEW d \in Driver, Proceed(d) PROVE TypeOK'
  BY <1>2, FetchEffect, PrepareEffect, DenyEffect, AdmitEffect, CompleteEffect, RefuseEffect,
     RetryEffect
  DEF Proceed
<1>3. ASSUME NEW d \in Driver, NEW s \in Id, Begin(d, s) PROVE TypeOK'
  BY <1>3, BeginEffect
<1>4. ASSUME NEW d \in Driver, Stop(d) PROVE TypeOK'
  BY <1>4, StopEffect
<1>5. CASE UNCHANGED vars
  BY <1>5, TypeFacts, TypeStep DEF vars, store, world, history
<1>6. CASE Tick
  BY <1>6, TickEffect
<1>. QED
  BY <1>1, <1>2, <1>3, <1>4, <1>5, <1>6 DEF Next

\* Whatever the management calls and the drivers do, the stored schedules, the
\* drivers' memory and the ledgers keep their shape; a pending delivery is
\* parked exactly when its automatic attempts are used up (process and the
\* store transactions of Schedule.ts).
THEOREM TypeCorrect == Spec => []TypeOK
BY InitTypeOK, NextTypeOK, PTL DEF Spec

-----------------------------------------------------------------------------
(***************************************************************************)
(* The invariant: where each schedule stands in its calendar, what it owes, *)
(* and what the drivers remember of it.                                     *)
(***************************************************************************)
PendingOf(s) == Occurrence(s, record[s].pending.rev, record[s].pending.at)
Reading(s) == IF record[s].state = "paused" THEN touched[s] ELSE clock
Placed(s) ==
  /\ touched[s] <= clock
  /\ record[s].state = "cancelled" => record[s].cursor = None
  /\ record[s].timing # None /\ record[s].timing.once /\ record[s].cursor # None =>
       record[s].cursor \in record[s].timing.fires
\* A live recurring cursor is not past any firing later than the clock the
\* record was last written at.
Ahead(s) ==
  Live(s) /\ ~record[s].timing.once =>
    /\ record[s].cursor # None
    /\ \A y \in record[s].timing.fires : y > Reading(s) => record[s].cursor <= y
\* What was prepared or skipped lies behind the cursor.
Handled(s) ==
  \A o \in prepared \cup skipped :
    o.of = s =>
      /\ o.rev <= record[s].rev
      /\ o.rev = record[s].rev /\ record[s].cursor # None => o.at < record[s].cursor
Accounted(s) ==
  Live(s) =>
    \A x \in record[s].timing.fires :
      since[s] <= x /\ Behind(s, x) => Occurrence(s, record[s].rev, x) \in prepared \cup skipped
Apart(s) == \A o \in prepared : o.of = s => o \notin skipped
Calendar(s) == Placed(s) /\ Ahead(s) /\ Handled(s) /\ Accounted(s) /\ Apart(s)

Owed(s) ==
  /\ \A o \in received \cup declined : o.of = s => o \in prepared
  /\ \A o \in prepared : o.of = s => IsPending(s, o.rev, o.at) \/ o \in received \cup declined
  /\ record[s].pending # None =>
       /\ PendingOf(s) \in prepared /\ PendingOf(s) \notin received \cup declined
       /\ record[s].pending.automatic <= spent[s]

\* A planned occurrence is due under the revision it was read at.
Planned(d) ==
  LET s == job[d].of IN
  /\ job[d].now <= clock
  /\ job[d].at \in {"prepare", "deny"} =>
       /\ job[d].seen.cursor # None /\ job[d].seen.cursor <= job[d].now
       /\ job[d].seen.rev <= record[s].rev
       /\ job[d].seen.rev = record[s].rev =>
            /\ record[s].timing # None
            /\ job[d].due \in DueOccurrence(record[s].timing, job[d].seen.cursor, job[d].now)
\* A delivery under way is of a prepared occurrence, and knows no more failed
\* attempts of the current generation than there were.
UnderWay(d) ==
  LET s == job[d].of IN
  job[d].at \in Delivering =>
    /\ Sent(d) \in prepared
    /\ job[d].at = "complete" => Sent(d) \in admitted
    /\ job[d].at = "refuse" => Sent(d) \in barred
    /\ Mine(d) =>
         /\ job[d].sends.generation <= record[s].pending.generation
         /\ job[d].sends.generation = record[s].pending.generation =>
              job[d].sends.automatic <= spent[s]

Inv ==
  /\ TypeOK /\ OutcomesAreTrue
  /\ \A s \in Id : Calendar(s) /\ Owed(s)
  /\ \A d \in Driver : Planned(d) /\ UnderWay(d)

LEMMA OccurrenceFields ==
  /\ \A o \in Occurrences :
       o.of \in Id /\ o.rev \in Nat /\ o.at \in Nat /\ o = Occurrence(o.of, o.rev, o.at)
  /\ \A s \in Id, rev, at \in Nat :
       /\ Occurrence(s, rev, at) \in Occurrences
       /\ Occurrence(s, rev, at).of = s /\ Occurrence(s, rev, at).rev = rev
       /\ Occurrence(s, rev, at).at = at
BY DEF Occurrences, Occurrence

LEMMA InitInv == Init => Inv
<1>. SUFFICES ASSUME Init PROVE Inv
  OBVIOUS
<1>1. TypeOK
  BY InitTypeOK
<1>2. OutcomesAreTrue
  BY DEF Init, OutcomesAreTrue
<1>3. ASSUME NEW s \in Id PROVE Calendar(s) /\ Owed(s)
  <2>1. /\ record[s] = Absent /\ touched[s] = 0 /\ clock = 0
        /\ prepared = {} /\ skipped = {} /\ received = {} /\ declined = {}
    BY DEF Init
  <2>2. /\ record[s].state = "absent" /\ record[s].timing = None /\ record[s].pending = None
    BY <2>1 DEF Absent
  <2>. QED
    BY <2>1, <2>2 DEF Calendar, Placed, Ahead, Handled, Accounted, Apart, Owed, Live
<1>4. ASSUME NEW d \in Driver PROVE Planned(d) /\ UnderWay(d)
  <2>1. job[d].at = "idle" /\ job[d].now = 0 /\ clock = 0
    BY JobUpdates DEF Init
  <2>. QED
    BY <2>1 DEF Planned, UnderWay, Delivering
<1>. QED
  BY <1>1, <1>2, <1>3, <1>4 DEF Inv

-----------------------------------------------------------------------------
(***************************************************************************)
(* The calendar.                                                            *)
(***************************************************************************)
\* What a step does not touch of schedule t.
Spared(t) ==
  /\ record'[t] = record[t] /\ touched'[t] = touched[t] /\ since'[t] = since[t]
  /\ clock <= clock'
  /\ \A o \in Occurrences :
       o.of = t => /\ o \in prepared' <=> o \in prepared
                   /\ o \in skipped' <=> o \in skipped
LEMMA CalendarSpared ==
  ASSUME TypeOK, TypeOK', NEW t \in Id, Calendar(t), Spared(t)
  PROVE  Calendar(t)'
<1>1. /\ touched[t] \in Nat /\ clock \in Nat /\ clock' \in Nat /\ clock <= clock'
      /\ record'[t] = record[t] /\ touched'[t] = touched[t] /\ since'[t] = since[t]
  BY RecordFields, TypeFacts DEF Spared, Time, TypeOK
<1>2. /\ prepared \subseteq Occurrences /\ skipped \subseteq Occurrences
      /\ prepared' \subseteq Occurrences /\ skipped' \subseteq Occurrences
  BY DEF TypeOK
<1>3. Placed(t)'
  BY <1>1 DEF Calendar, Placed
<1>4. Ahead(t)'
  <2>. SUFFICES ASSUME Live(t)', ~record'[t].timing.once PROVE Ahead(t)'
    BY DEF Ahead
  <2>1. Live(t) /\ ~record[t].timing.once /\ record[t].timing.fires \subseteq Nat
    BY <1>1, RecordFields DEF Live
  <2>2. /\ record[t].cursor # None
        /\ \A y \in record[t].timing.fires : y > Reading(t) => record[t].cursor <= y
    BY <2>1 DEF Calendar, Ahead
  <2>3. \A y \in Nat : y > Reading(t)' => y > Reading(t)
    BY <1>1 DEF Reading
  <2>. QED
    BY <1>1, <2>1, <2>2, <2>3 DEF Ahead
<1>5. Handled(t)'
  BY <1>1, <1>2 DEF Calendar, Handled, Spared
<1>6. Accounted(t)'
  <2>. SUFFICES ASSUME Live(t)', NEW x \in record'[t].timing.fires,
                       since'[t] <= x, Behind(t, x)'
                PROVE  Occurrence(t, record'[t].rev, x) \in prepared' \cup skipped'
    BY DEF Accounted
  <2>1. Live(t) /\ since[t] <= x /\ Behind(t, x) /\ x \in record[t].timing.fires
    BY <1>1 DEF Live, Behind
  <2>2. x \in Nat /\ record[t].rev \in Nat
    BY <2>1, RecordFields DEF Live
  <2>3. Occurrence(t, record[t].rev, x) \in prepared \cup skipped
    BY <2>1 DEF Calendar, Accounted
  <2>4. Occurrence(t, record[t].rev, x).of = t /\ Occurrence(t, record[t].rev, x) \in Occurrences
    BY <2>2, OccurrenceFields
  <2>. QED
    BY <1>1, <2>3, <2>4 DEF Spared
<1>7. Apart(t)'
  BY <1>2 DEF Calendar, Apart, Spared
<1>. QED
  BY <1>3, <1>4, <1>5, <1>6, <1>7 DEF Calendar

LEMMA CalendarSettled ==
  ASSUME TypeOK, TypeOK', NEW s \in Id, Calendar(s), Settled(s), Paused(s),
         UNCHANGED <<clock, prepared, skipped>>, since'[s] = since[s]
  PROVE  Calendar(s)'
<1>1. /\ touched[s] \in Nat /\ clock \in Nat /\ clock' = clock
      /\ record'[s].rev = record[s].rev /\ record'[s].timing = record[s].timing
      /\ record'[s].cursor = record[s].cursor
  BY RecordFields DEF Settled
<1>2. Live(s)' => Live(s)
  BY DEF Settled, Live
<1>3. touched'[s] <= clock
  BY <1>1 DEF Paused
<1>4. Placed(s)'
  BY <1>1, <1>3 DEF Calendar, Placed, Settled
<1>5. Ahead(s)'
  <2>. SUFFICES ASSUME Live(s)', ~record'[s].timing.once PROVE Ahead(s)'
    BY DEF Ahead
  <2>1. Live(s) /\ ~record[s].timing.once /\ record[s].timing.fires \subseteq Nat
    BY <1>1, <1>2, RecordFields DEF Live
  <2>2. /\ record[s].cursor # None
        /\ \A y \in record[s].timing.fires : y > Reading(s) => record[s].cursor <= y
    BY <2>1 DEF Calendar, Ahead
  <2>3. Reading(s)' = clock /\ Reading(s) <= clock /\ Reading(s) \in Nat
    BY <1>1 DEF Reading, Paused, Calendar, Placed
  <2>4. \A y \in Nat : y > Reading(s)' => y > Reading(s)
    BY <1>1, <2>3
  <2>. QED
    BY <1>1, <2>1, <2>2, <2>4 DEF Ahead
<1>6. Handled(s)' /\ Apart(s)'
  BY <1>1 DEF Calendar, Handled, Apart
<1>7. Accounted(s)'
  BY <1>1, <1>2 DEF Calendar, Accounted, Behind
<1>. QED
  BY <1>4, <1>5, <1>6, <1>7 DEF Calendar

LEMMA CalendarConfigured ==
  ASSUME TypeOK, NEW s \in Id, NEW timing \in Timing, NEW now \in Time, Calendar(s),
         Create(s, timing, now) \/ Update(s, timing, now)
  PROVE  Calendar(s)'
<1>1. /\ TypeOK' /\ Paused(s) /\ Untold /\ clock' = clock /\ now <= clock
      /\ record'[s].state = "active" /\ record'[s].rev = record[s].rev + 1
      /\ record'[s].timing = timing /\ record'[s].cursor \in InitialCursor(timing, now)
      /\ since'[s] = record'[s].cursor
  BY ConfigureEffect
<1>2. /\ timing.fires \subseteq Nat /\ now \in Nat /\ clock \in Nat /\ record[s].rev \in Nat
      /\ InitialCursor(timing, now) \subseteq timing.fires /\ None \notin Nat
  BY TimingFields, CursorTypes, RecordFields, ScheduleConstants DEF Time
<1>3. record'[s].cursor \in Nat /\ record'[s].cursor \in timing.fires /\ touched'[s] = 0
  BY <1>1, <1>2 DEF Paused
<1>4. Placed(s)'
  BY <1>1, <1>2, <1>3 DEF Placed
<1>5. Ahead(s)'
  <2>. SUFFICES ASSUME ~timing.once, NEW y \in timing.fires, y > clock
                PROVE  record'[s].cursor <= y
    BY <1>1, <1>2, <1>3 DEF Ahead, Reading
  <2>1. y > now
    BY <1>1, <1>2
  <2>. QED
    BY <1>1, <2>1 DEF InitialCursor, NextAfter
<1>6. Handled(s)'
  <2>. SUFFICES ASSUME NEW o \in prepared \cup skipped, o.of = s
                PROVE  o.rev < record'[s].rev
    BY <1>1, <1>2, OccurrenceFields, TypeFacts DEF Handled, Untold
  <2>1. o.rev <= record[s].rev /\ o.rev \in Nat
    BY OccurrenceFields, TypeFacts DEF Calendar, Handled
  <2>. QED
    BY <1>1, <1>2, <2>1
<1>7. Accounted(s)'
  BY <1>1, <1>2, <1>3 DEF Accounted, Behind
<1>8. Apart(s)'
  BY <1>1 DEF Calendar, Apart, Untold
<1>. QED
  BY <1>4, <1>5, <1>6, <1>7, <1>8 DEF Calendar

LEMMA CalendarCancelled ==
  ASSUME TypeOK, NEW s \in Id, Calendar(s), Cancel(s)
  PROVE  Calendar(s)'
<1>1. /\ TypeOK' /\ Paused(s) /\ Untold /\ clock' = clock
      /\ record'[s].state = "cancelled" /\ record'[s].cursor = None
      /\ record'[s].rev = record[s].rev /\ clock \in Nat /\ touched'[s] = 0
  BY CancelEffect, RecordFields DEF Paused
<1>. QED
  BY <1>1 DEF Calendar, Placed, Ahead, Handled, Accounted, Apart, Live, Untold

\* The instants of a range, as occurrences.
LEMMA BetweenMembers ==
  ASSUME TypeOK, NEW s \in Id, record[s].timing # None, NEW from \in Nat, NEW to \in Nat
  PROVE  /\ \A o \in Between(s, from, to) :
              o.of = s /\ o.rev = record[s].rev /\ from <= o.at /\ o.at < to
         /\ \A x \in record[s].timing.fires :
              from <= x /\ x < to => Occurrence(s, record[s].rev, x) \in Between(s, from, to)
<1>1. record[s].rev \in Nat /\ record[s].timing.fires \subseteq Nat
  BY RecordFields
<1>. QED
  BY <1>1, OccurrenceFields DEF Between

LEMMA CalendarResumed ==
  ASSUME TypeOK, NEW s \in Id, NEW now \in Time, Calendar(s), Resume(s, now)
  PROVE  Calendar(s)'
<1> DEFINE r == record[s]
           cursor == record'[s].cursor
<1>1. /\ TypeOK' /\ clock' = clock /\ since' = since /\ prepared' = prepared
      /\ r.state = "paused" /\ touched[s] <= now /\ now <= clock
      /\ record'[s].state = "active" /\ touched'[s] = 0
      /\ record'[s].rev = r.rev /\ record'[s].timing = r.timing
      /\ cursor \in ResumeCursor(r.timing, r.cursor, now)
      /\ skipped' = IF ~r.timing.once /\ r.cursor # None
                    THEN skipped \cup Between(s, r.cursor, cursor) ELSE skipped
  BY ResumeEffect
<1>2. /\ r.timing \in Timing /\ r.timing # None /\ r.timing.fires \subseteq Nat
      /\ r.timing.once \in BOOLEAN /\ r.rev \in Nat
      /\ now \in Nat /\ clock \in Nat /\ touched[s] \in Nat /\ None \notin Nat /\ Live(s)
  BY <1>1, RecordFields, ScheduleConstants DEF Time, Live
<1>3. CASE r.timing.once
  <2>1. cursor = r.cursor /\ skipped' = skipped
    BY <1>1, <1>3 DEF ResumeCursor
  <2>. QED
    BY <1>1, <1>2, <1>3, <2>1
    DEF Calendar, Placed, Ahead, Handled, Accounted, Apart, Behind
<1>4. CASE ~r.timing.once
  <2>1. cursor \in NextAfter(r.timing, now)
    BY <1>1, <1>4 DEF ResumeCursor
  <2>2. /\ cursor \in r.timing.fires /\ cursor \in Nat /\ cursor > now
        /\ \A y \in r.timing.fires : y > now => cursor <= y
    BY <1>2, <2>1 DEF NextAfter
  <2>3. r.cursor \in Nat /\ r.cursor <= cursor
    <3>1. r.cursor # None /\ \A y \in r.timing.fires : y > touched[s] => r.cursor <= y
      BY <1>1, <1>2, <1>4 DEF Calendar, Ahead, Reading
    <3>2. cursor > touched[s]
      BY <1>1, <1>2, <2>2
    <3>. QED
      BY <2>2, <3>1, <3>2, RecordFields
  <2>4. skipped' = skipped \cup Between(s, r.cursor, cursor)
    BY <1>1, <1>2, <1>4, <2>3
  <2>5. /\ \A o \in Between(s, r.cursor, cursor) :
             o.of = s /\ o.rev = r.rev /\ r.cursor <= o.at /\ o.at < cursor
        /\ \A x \in r.timing.fires :
             r.cursor <= x /\ x < cursor => Occurrence(s, r.rev, x) \in Between(s, r.cursor, cursor)
    BY <1>2, <2>2, <2>3, BetweenMembers
  <2>6. \A o \in prepared \cup skipped :
          o.of = s => /\ o.rev <= r.rev /\ o.at \in Nat
                      /\ o.rev = r.rev => o.at < r.cursor
    BY <1>2, <2>3, OccurrenceFields, TypeFacts DEF Calendar, Handled
  <2>7. Placed(s)'
    BY <1>1, <1>2, <1>4 DEF Placed
  <2>8. Ahead(s)'
    <3>1. \A y \in r.timing.fires : y > clock => y > now
      BY <1>1, <1>2
    <3>. QED
      BY <1>1, <1>2, <2>2, <3>1 DEF Ahead, Reading
  <2>9. Handled(s)'
    <3>1. \A o \in prepared' \cup skipped' :
            o.of = s => o.rev <= r.rev /\ (o.rev = r.rev => o.at < cursor)
      BY <1>1, <1>2, <2>2, <2>3, <2>4, <2>5, <2>6
    <3>. QED
      BY <1>1, <3>1 DEF Handled
  <2>10. Accounted(s)'
    <3>. SUFFICES ASSUME NEW x \in r.timing.fires, since[s] <= x, x < cursor
                  PROVE  Occurrence(s, r.rev, x) \in prepared' \cup skipped'
      BY <1>1, <1>2, <2>2 DEF Accounted, Behind
    <3>1. x \in Nat
      BY <1>2
    <3>2. CASE x < r.cursor
      BY <1>1, <1>2, <2>4, <3>2 DEF Calendar, Accounted, Behind
    <3>3. CASE r.cursor <= x
      BY <2>4, <2>5, <3>3
    <3>. QED
      BY <2>3, <3>1, <3>2, <3>3
  <2>11. Apart(s)'
    <3>1. \A o \in prepared : o.of = s => o \notin Between(s, r.cursor, cursor)
      BY <2>3, <2>5, <2>6
    <3>. QED
      BY <1>1, <2>4, <3>1 DEF Calendar, Apart
  <2>. QED
    BY <2>7, <2>8, <2>9, <2>10, <2>11 DEF Calendar
<1>. QED
  BY <1>2, <1>3, <1>4

\* Where a prepared occurrence lies.
LEMMA PreparedPlace ==
  ASSUME TypeOK, NEW d \in Driver, Prepares(d), job[d].at = "prepare", Calendar(job[d].of),
         Planned(d)
  PROVE  LET s == job[d].of
             due == job[d].due
             r == record[s]
         IN
         /\ s \in Id /\ r.timing \in Timing /\ r.timing # None
         /\ r.timing.fires \subseteq Nat /\ r.timing.once \in BOOLEAN
         /\ r.rev \in Nat /\ r.cursor \in Nat /\ due.at \in Nat /\ due.next \in Nat \cup {None}
         /\ r.cursor <= due.at /\ job[d].now <= clock /\ job[d].now \in Nat
         /\ r.timing.once => due.at = r.cursor /\ due.next = None /\ r.timing.fires = {r.cursor}
         /\ ~r.timing.once =>
              /\ due.next \in Nat /\ due.at <= job[d].now /\ due.next > job[d].now
              /\ \A y \in r.timing.fires : y <= job[d].now => y <= due.at
              /\ \A y \in r.timing.fires : y > job[d].now => due.next <= y
<1> DEFINE s == job[d].of
           due == job[d].due
           r == record[s]
           now == job[d].now
<1>1. s \in Id /\ now \in Nat /\ due.at \in Nat /\ due.next \in Nat \cup {None}
  BY JobFields DEF Due
<1>2. /\ r.rev = job[d].seen.rev /\ r.cursor = job[d].seen.cursor /\ r.state = "active"
  BY DEF Prepares, MayPrepare
<1>3. /\ now <= clock /\ r.cursor # None /\ r.cursor <= now /\ r.timing # None
      /\ due \in DueOccurrence(r.timing, r.cursor, now)
  BY <1>2 DEF Planned
<1>4. /\ r.timing \in Timing /\ r.timing.fires \subseteq Nat /\ r.timing.once \in BOOLEAN
      /\ r.rev \in Nat /\ r.cursor \in Nat
  BY <1>1, <1>3, RecordFields
<1>5. CASE r.timing.once
  <2>1. due.at = r.cursor /\ due.next = None
    BY <1>3, <1>5 DEF DueOccurrence
  <2>2. r.timing.fires = {r.cursor}
    <3>1. r.cursor \in r.timing.fires
      BY <1>3, <1>5 DEF Calendar, Placed
    <3>2. \E at \in r.timing.fires : r.timing.fires = {at}
      BY <1>4, <1>5, TimingFields
    <3>. QED
      BY <3>1, <3>2
  <2>. QED
    BY <1>1, <1>3, <1>4, <1>5, <2>1, <2>2
<1>6. CASE ~r.timing.once
  <2>1. due.at \in Latest(r.timing, r.cursor, now) /\ due.next \in NextAfter(r.timing, now)
    BY <1>3, <1>6 DEF DueOccurrence
  <2>2. /\ r.cursor <= due.at /\ due.at <= now /\ due.next > now /\ due.next \in r.timing.fires
        /\ \A y \in r.timing.fires : y <= now => y <= due.at
        /\ \A y \in r.timing.fires : y > now => due.next <= y
    BY <2>1 DEF Latest, NextAfter
  <2>. QED
    BY <1>1, <1>3, <1>4, <1>6, <2>2
<1>. QED
  BY <1>4, <1>5, <1>6

LEMMA CalendarPrepared ==
  ASSUME TypeOK, TypeOK', NEW d \in Driver, Prepares(d), job[d].at = "prepare",
         NEW s \in Id, s = job[d].of,
         Calendar(s), Planned(d)
  PROVE  Calendar(s)'
<1> DEFINE due == job[d].due
           r == record[s]
           q == record'[s]
           now == job[d].now
           new == Occurrence(s, r.rev, due.at)
<1>1. /\ s \in Id /\ r.timing \in Timing /\ r.timing # None
      /\ r.timing.fires \subseteq Nat /\ r.timing.once \in BOOLEAN
      /\ r.rev \in Nat /\ r.cursor \in Nat /\ due.at \in Nat /\ due.next \in Nat \cup {None}
      /\ r.cursor <= due.at /\ now <= clock /\ now \in Nat
  BY PreparedPlace
<1>2. r.timing.once => due.at = r.cursor /\ due.next = None /\ r.timing.fires = {r.cursor}
  BY PreparedPlace
<1>3. ~r.timing.once =>
        /\ due.next \in Nat /\ due.at <= now /\ due.next > now
        /\ \A y \in r.timing.fires : y <= now => y <= due.at
        /\ \A y \in r.timing.fires : y > now => due.next <= y
  BY PreparedPlace
<1>4. /\ r.state = "active" /\ q.state = "active" /\ q.rev = r.rev /\ q.timing = r.timing
      /\ q.cursor = due.next /\ touched'[s] = 0 /\ clock' = clock /\ since' = since
      /\ prepared' = prepared \cup {new}
      /\ skipped' = skipped \cup Between(s, r.cursor, due.at)
  BY DEF Prepares, MayPrepare, Paused
<1>5. clock \in Nat /\ None \notin Nat
  BY <1>1, RecordFields, ScheduleConstants
<1>6. /\ \A o \in Between(s, r.cursor, due.at) :
           o.of = s /\ o.rev = r.rev /\ r.cursor <= o.at /\ o.at < due.at
      /\ \A x \in r.timing.fires :
           r.cursor <= x /\ x < due.at => Occurrence(s, r.rev, x) \in Between(s, r.cursor, due.at)
  BY <1>1, BetweenMembers
<1>7. /\ \A o \in prepared \cup skipped :
           o.of = s => /\ o.rev <= r.rev /\ o.at \in Nat /\ o.rev \in Nat
                       /\ o.rev = r.rev => o.at < r.cursor
      /\ \A o \in Between(s, r.cursor, due.at) : o.at \in Nat
  BY <1>1, <1>5, OccurrenceFields, TypeFacts, BetweenType DEF Calendar, Handled
<1>8. new.of = s /\ new.rev = r.rev /\ new.at = due.at
  BY <1>1, OccurrenceFields
<1> HIDE DEF new
<1>9. Placed(s)'
  BY <1>2, <1>4, <1>5 DEF Placed
<1>10. Ahead(s)'
  <2>. SUFFICES ASSUME ~r.timing.once, NEW y \in r.timing.fires, y > clock
                PROVE  due.next <= y
    BY <1>3, <1>4, <1>5 DEF Ahead, Reading
  <2>1. y > now
    BY <1>1, <1>5
  <2>. QED
    BY <1>3, <2>1
<1>11. Handled(s)'
  <2>1. ASSUME NEW o \in prepared' \cup skipped', o.of = s
        PROVE  o.rev <= r.rev /\ (o.rev = r.rev => o.at <= due.at)
    <3>1. CASE o \in prepared \cup skipped
      BY <1>1, <1>7, <2>1, <3>1
    <3>2. CASE o = new
      BY <1>1, <1>8, <3>2
    <3>3. CASE o \in Between(s, r.cursor, due.at)
      BY <1>1, <1>6, <1>7, <3>3
    <3>. QED
      BY <1>4, <2>1, <3>1, <3>2, <3>3
  <2>2. due.next # None => due.next \in Nat /\ due.at < due.next
    BY <1>1, <1>2, <1>3
  <2>3. ASSUME NEW o \in prepared' \cup skipped', o.of = s, o.rev = r.rev, due.next # None
        PROVE  o.at < due.next
    <3>1. o.at \in Nat
      BY OccurrenceFields DEF TypeOK
    <3>. QED
      BY <1>1, <2>1, <2>2, <2>3, <3>1
  <2>. QED
    BY <1>4, <2>1, <2>3 DEF Handled
<1>12. Accounted(s)'
  <2>. SUFFICES ASSUME NEW x \in r.timing.fires, since[s] <= x, due.next = None \/ x < due.next
                PROVE  Occurrence(s, r.rev, x) \in prepared' \cup skipped'
    BY <1>4 DEF Accounted, Behind
  <2>1. x \in Nat
    BY <1>1
  <2>2. CASE x < r.cursor
    BY <1>1, <1>4, <2>2 DEF Calendar, Accounted, Behind, Live
  <2>3. CASE r.cursor <= x /\ x < due.at
    BY <1>4, <1>6, <2>3
  <2>4. CASE x = due.at
    BY <1>4, <2>4 DEF new
  <2>5. CASE x > due.at
    <3>1. ~r.timing.once
      BY <1>1, <1>2, <2>1, <2>5
    <3>2. ~(x <= now)
      BY <1>1, <1>3, <2>1, <2>5, <3>1
    <3>3. due.next <= x /\ due.next \in Nat
      BY <1>1, <1>3, <2>1, <3>1, <3>2
    <3>. QED
      BY <1>5, <2>1, <3>3
  <2>. QED
    BY <1>1, <2>1, <2>2, <2>3, <2>4, <2>5
<1>13. Apart(s)'
  <2>1. ASSUME NEW o \in prepared', o.of = s, o \in skipped' PROVE FALSE
    <3>1. CASE o \in prepared /\ o \in skipped
      BY <1>1, <2>1, <3>1 DEF Calendar, Apart
    <3>2. CASE o \in prepared /\ o \in Between(s, r.cursor, due.at)
      BY <1>1, <1>6, <1>7, <2>1, <3>2
    <3>3. CASE o = new /\ o \in skipped
      BY <1>1, <1>7, <1>8, <3>3
    <3>4. CASE o = new /\ o \in Between(s, r.cursor, due.at)
      BY <1>1, <1>6, <1>8, <3>4
    <3>. QED
      BY <1>4, <2>1, <3>1, <3>2, <3>3, <3>4
  <2>. QED
    BY <2>1 DEF Apart
<1>. QED
  BY <1>9, <1>10, <1>11, <1>12, <1>13 DEF Calendar

-----------------------------------------------------------------------------
(***************************************************************************)
(* What is owed.                                                            *)
(***************************************************************************)
\* What a step does not touch of the deliveries of schedule t; failed
\* attempts may be counted.
Untouched(t) ==
  /\ record'[t].pending = record[t].pending /\ spent[t] <= spent'[t]
  /\ \A o \in Occurrences :
       o.of = t => /\ o \in prepared' <=> o \in prepared
                   /\ o \in received' <=> o \in received
                   /\ o \in declined' <=> o \in declined
LEMMA OwedUntouched ==
  ASSUME TypeOK, TypeOK', NEW t \in Id, Owed(t), Untouched(t)
  PROVE  Owed(t)'
<1>1. /\ prepared \subseteq Occurrences /\ received \subseteq Occurrences
      /\ declined \subseteq Occurrences
      /\ prepared' \subseteq Occurrences /\ received' \subseteq Occurrences
      /\ declined' \subseteq Occurrences
      /\ spent[t] \in Nat /\ spent'[t] \in Nat
  BY ScheduleConstants DEF TypeOK
<1>2. /\ \A o \in received' \cup declined' : o.of = t => o \in prepared'
      /\ \A o \in prepared' : o.of = t => IsPending(t, o.rev, o.at)' \/ o \in received' \cup declined'
  BY <1>1 DEF Owed, Untouched, IsPending
<1>3. ASSUME record'[t].pending # None
      PROVE  /\ PendingOf(t)' \in prepared' /\ PendingOf(t)' \notin received' \cup declined'
             /\ record'[t].pending.automatic <= spent'[t]
  <2>1. record[t].pending \in Pending /\ record'[t].pending = record[t].pending
    BY <1>3, RecordFields DEF Untouched
  <2>2. /\ PendingOf(t) \in prepared /\ PendingOf(t) \notin received \cup declined
        /\ record[t].pending.automatic <= spent[t]
    BY <1>3, <2>1 DEF Owed
  <2>3. PendingOf(t) \in Occurrences /\ PendingOf(t).of = t /\ PendingOf(t)' = PendingOf(t)
    BY <2>1, PendingFields, OccurrenceFields DEF PendingOf
  <2>4. record[t].pending.automatic \in Nat
    BY <2>1, PendingFields, ScheduleConstants
  <2>. QED
    BY <1>1, <2>1, <2>2, <2>3, <2>4 DEF Untouched
<1>. QED
  BY <1>2, <1>3 DEF Owed

LEMMA OwedRearmed ==
  ASSUME TypeOK, NEW s \in Id, NEW now \in Time, Owed(s), Recover(s, now)
  PROVE  Owed(s)'
<1>1. /\ Untold /\ record[s].pending \in Pending
      /\ record'[s].pending = Rearmed(record[s].pending, now) /\ spent'[s] = 0
  BY RecoverEffect
<1>2. now \in Nat /\ record[s].pending # None
  BY <1>1, PendingFields DEF Time
<1>3. /\ Rearmed(record[s].pending, now) # None
      /\ Rearmed(record[s].pending, now).rev = record[s].pending.rev
      /\ Rearmed(record[s].pending, now).at = record[s].pending.at
      /\ Rearmed(record[s].pending, now).automatic = 0
  BY <1>1, <1>2, RearmedIsPending, PendingFields
<1>. QED
  BY <1>1, <1>2, <1>3 DEF Owed, IsPending, PendingOf, Untold

LEMMA OwedPrepared ==
  ASSUME TypeOK, TypeOK', NEW d \in Driver, Prepares(d), job[d].at = "prepare",
         NEW s \in Id, s = job[d].of,
         Calendar(s), Owed(s), Planned(d)
  PROVE  Owed(s)'
<1> DEFINE due == job[d].due
           r == record[s]
           new == Occurrence(s, r.rev, due.at)
           p == Fresh(r.rev, due.at, job[d].now)
<1>1. /\ s \in Id /\ r.rev \in Nat /\ r.cursor \in Nat /\ due.at \in Nat
      /\ r.cursor <= due.at /\ job[d].now \in Nat
  BY PreparedPlace
<1>2. /\ r.pending = None /\ record'[s].pending = p /\ spent'[s] = 0
      /\ prepared' = prepared \cup {new} /\ received' = received /\ declined' = declined
  BY DEF Prepares, MayPrepare
<1>3. p \in Pending /\ p # None
  BY <1>1, FreshIsPending, PendingFields
<1>4. p.rev = r.rev /\ p.at = due.at /\ p.automatic = 0
  BY DEF Fresh
<1>5. new.of = s /\ new.rev = r.rev /\ new.at = due.at
  BY <1>1, OccurrenceFields
<1>6. new \notin prepared
  <2>1. \A o \in prepared : o.of = s /\ o.rev = r.rev => o.at < r.cursor /\ o.at \in Nat
    BY <1>1, ScheduleConstants, OccurrenceFields, TypeFacts DEF Calendar, Handled
  <2>. QED
    BY <1>1, <1>5, <2>1
<1>7. PendingOf(s)' = new
  BY <1>2, <1>4 DEF PendingOf
<1> HIDE DEF p, new
<1>8. \A o \in received \cup declined : o.of = s => o \in prepared
  BY DEF Owed
<1>9. new \notin received \cup declined
  BY <1>5, <1>6, <1>8
<1>10. \A o \in prepared' : o.of = s => IsPending(s, o.rev, o.at)' \/ o \in received' \cup declined'
  <2>1. \A o \in Occurrences : o = new => IsPending(s, o.rev, o.at)'
    BY <1>2, <1>3, <1>4, <1>5 DEF IsPending
  <2>2. \A o \in prepared : o.of = s => o \in received \cup declined
    BY <1>2 DEF Owed, IsPending
  <2>. QED
    BY <1>2, <2>1, <2>2, OccurrenceFields DEF TypeOK
<1>11. p.automatic <= spent'[s]
  BY <1>2, <1>4
<1>. QED
  BY <1>2, <1>7, <1>8, <1>9, <1>10, <1>11 DEF Owed

LEMMA OwedClosed ==
  ASSUME TypeOK, NEW d \in Driver, NEW s \in Id, s = job[d].of,
         job[d].at \in Delivering, Owed(s), Completes(d) \/ Refuses(d)
  PROVE  Owed(s)'
<1>1. /\ Mine(d) /\ record'[s].pending = None /\ prepared' = prepared
      /\ received' \cup declined' = received \cup declined \cup {Sent(d)}
  BY DEF Completes, Refuses
<1>2. record[s].pending # None /\ PendingOf(s) = Sent(d)
  BY <1>1 DEF Mine, IsPending, PendingOf, Sent
<1>3. Sent(d) \in prepared
  BY <1>2 DEF Owed
<1>4. ASSUME NEW o \in prepared, o.of = s PROVE o \in received' \cup declined'
  <2>1. CASE IsPending(s, o.rev, o.at)
    <3>1. o = Occurrence(o.of, o.rev, o.at)
      BY OccurrenceFields, TypeFacts
    <3>2. o = PendingOf(s)
      BY <1>4, <2>1, <3>1 DEF IsPending, PendingOf
    <3>. QED
      BY <1>1, <1>2, <3>2
  <2>2. CASE o \in received \cup declined
    BY <1>1, <2>2
  <2>. QED
    BY <1>4, <2>1, <2>2 DEF Owed
<1>5. \A o \in received' \cup declined' : o.of = s => o \in prepared'
  BY <1>1, <1>3 DEF Owed
<1>. QED
  BY <1>1, <1>4, <1>5 DEF Owed

LEMMA OwedDeferred ==
  ASSUME TypeOK, NEW d \in Driver, NEW s \in Id, s = job[d].of,
         Retry(d), Defers(d), Owed(s), UnderWay(d)
  PROVE  Owed(s)'
<1> DEFINE p == job[d].sends
           current == record[s].pending
<1>1. /\ s \in Id /\ job[d].at \in Delivering /\ Spent(d)
      /\ UNCHANGED <<prepared, received, declined>>
  BY RetryEffect, JobFields DEF Delivering
<1>2. PICK next \in Nat : record'[s].pending = Deferred(current, p, next)
  BY DEF Defers
<1>3. /\ Mine(d) /\ p.generation = current.generation /\ current \in Pending
      /\ p \in Pending /\ ~p.parked
  BY <1>1, JobFields, RecordFields DEF Defers, Spends, Mine, IsPending
<1>4. /\ Deferred(current, p, next) # None
      /\ Deferred(current, p, next).rev = current.rev /\ Deferred(current, p, next).at = current.at
      /\ Deferred(current, p, next).automatic = p.automatic + 1
  <2>1. /\ Deferred(current, p, next) \in Pending
        /\ Deferred(current, p, next).rev = current.rev /\ Deferred(current, p, next).at = current.at
        /\ Deferred(current, p, next).automatic = p.automatic + 1
    BY <1>3, DeferredIsPending
  <2>. QED
    BY <2>1, PendingFields
<1>5. p.automatic + 1 <= spent'[s]
  <2>1. p.automatic <= spent[s]
    BY <1>1, <1>3 DEF UnderWay
  <2>2. /\ p.automatic \in 0..MaxAutomatic /\ p.automatic # MaxAutomatic
        /\ MaxAutomatic \in Nat /\ spent[s] \in 0..MaxAutomatic
    BY <1>1, <1>3, PendingFields, TypeFacts, ScheduleConstants
  <2>3. \/ spent'[s] = spent[s] + 1
        \/ spent[s] = MaxAutomatic /\ spent'[s] = spent[s]
    BY <1>1, <1>3 DEF Spent
  <2>. QED
    BY <2>1, <2>2, <2>3
<1>6. current # None /\ PendingOf(s)' = PendingOf(s)
  BY <1>2, <1>3, <1>4, PendingFields DEF PendingOf
<1>. QED
  BY <1>1, <1>2, <1>4, <1>5, <1>6 DEF Owed, IsPending

-----------------------------------------------------------------------------
(***************************************************************************)
(* What the drivers remember.                                               *)
(***************************************************************************)
\* A driver whose memory did not change, while its schedule moved on.
LEMMA PlannedOnward ==
  ASSUME TypeOK, TypeOK', NEW d \in Driver, Planned(d), job'[d] = job[d], clock <= clock',
         NEW s \in Id, s = job[d].of,
         record[s].rev <= record'[s].rev,
         record'[s].rev = record[s].rev => record'[s].timing = record[s].timing
  PROVE  Planned(d)'
<1>1. /\ job[d].now \in Nat /\ job[d].seen \in Seen /\ clock \in Nat /\ clock' \in Nat
      /\ record[s].rev \in Nat /\ record'[s].rev \in Nat /\ job'[d].of = s
  BY JobFields, RecordFields, TypeFacts DEF Time, TypeOK, Record
<1>2. job'[d].now <= clock'
  BY <1>1 DEF Planned
<1>3. ASSUME job[d].at \in {"prepare", "deny"}
      PROVE  /\ job[d].seen.cursor # None /\ job[d].seen.cursor <= job[d].now
             /\ job[d].seen.rev <= record'[s].rev
             /\ job[d].seen.rev = record'[s].rev =>
                  /\ record'[s].timing # None
                  /\ job[d].due \in DueOccurrence(record'[s].timing, job[d].seen.cursor, job[d].now)
  <2>1. job[d].seen.rev \in Nat
    BY <1>1 DEF Seen
  <2>. QED
    BY <1>1, <1>3, <2>1 DEF Planned
<1>. QED
  BY <1>1, <1>2, <1>3 DEF Planned

\* The deliveries of schedule s a driver may have under way stay so: its
\* pending delivery is gone, or newly prepared, or the one it was.
Same(s) ==
  LET p == record[s].pending
      q == record'[s].pending
  IN
  /\ p # None /\ q.rev = p.rev /\ q.at = p.at /\ p.generation <= q.generation
  /\ q.generation = p.generation => spent[s] <= spent'[s]
Follows(s) ==
  /\ prepared \subseteq prepared' /\ admitted \subseteq admitted' /\ barred \subseteq barred'
  /\ \/ record'[s].pending = None
     \/ Occurrence(s, record'[s].pending.rev, record'[s].pending.at) \notin prepared
     \/ Same(s)
LEMMA UnderWayFollows ==
  ASSUME TypeOK, TypeOK', NEW d \in Driver, UnderWay(d), job'[d] = job[d],
         NEW s \in Id, s = job[d].of, Follows(s)
  PROVE  UnderWay(d)'
<1> DEFINE j == job[d]
<1>. SUFFICES ASSUME j.at \in Delivering
              PROVE  /\ Sent(d) \in prepared'
                     /\ j.at = "complete" => Sent(d) \in admitted'
                     /\ j.at = "refuse" => Sent(d) \in barred'
                     /\ IsPending(s, j.sends.rev, j.sends.at)' =>
                          /\ j.sends.generation <= record'[s].pending.generation
                          /\ j.sends.generation = record'[s].pending.generation =>
                               j.sends.automatic <= spent'[s]
  BY DEF UnderWay, Sent, Mine, IsPending
<1>1. /\ Sent(d) \in prepared
      /\ j.at = "complete" => Sent(d) \in admitted
      /\ j.at = "refuse" => Sent(d) \in barred
      /\ IsPending(s, j.sends.rev, j.sends.at) =>
           /\ j.sends.generation <= record[s].pending.generation
           /\ j.sends.generation = record[s].pending.generation => j.sends.automatic <= spent[s]
  BY DEF UnderWay, Mine
<1>2. ASSUME record'[s].pending # None, record'[s].pending.rev = j.sends.rev,
             record'[s].pending.at = j.sends.at
      PROVE  /\ j.sends.generation <= record'[s].pending.generation
             /\ j.sends.generation = record'[s].pending.generation =>
                  j.sends.automatic <= spent'[s]
  <2>1. Same(s)
    BY <1>1, <1>2 DEF Follows, Sent
  <2>2. IsPending(s, j.sends.rev, j.sends.at)
    BY <1>2, <2>1 DEF Same, IsPending
  <2>3. /\ record[s].pending \in Pending /\ record'[s].pending \in Pending /\ j.sends \in Pending
        /\ spent[s] \in Nat /\ spent'[s] \in Nat
    BY <1>2, <2>1, RecordFields, JobFields, ScheduleConstants DEF Same, TypeOK, Record
  <2>4. /\ record[s].pending.generation \in Nat /\ record'[s].pending.generation \in Nat
        /\ j.sends.generation \in Nat /\ j.sends.automatic \in Nat
    BY <2>3, PendingFields, ScheduleConstants
  <2>. QED
    BY <1>1, <2>1, <2>2, <2>3, <2>4 DEF Same
<1>. QED
  BY <1>1, <1>2 DEF Follows, IsPending

LEMMA UnderWayRests ==
  ASSUME TypeOK, NEW d \in Driver, Rests(d), clock' = clock, Planned(d)
  PROVE  Planned(d)' /\ UnderWay(d)'
<1>1. clock \in Nat
  BY TypeFacts DEF Time
<1>. QED
  BY <1>1 DEF Rests, Planned, UnderWay, Delivering

\* A delivery is taken up as it is stored.
LEMMA UnderWayDispatched ==
  ASSUME TypeOK', NEW d \in Driver, NEW s \in Id, s = job[d].of, Dispatches(d, record'[s].pending),
         record'[s].pending \in Pending, Owed(s)'
  PROVE  Planned(d)' /\ UnderWay(d)'
<1> DEFINE p == record'[s].pending
<1>1. /\ job'[d].at = "admit" /\ job'[d].of = s /\ job'[d].now = 0 /\ job'[d].sends = p
  BY DEF Dispatches
<1>2. p # None /\ p.generation \in Nat
  BY PendingFields
<1>3. Occurrence(s, p.rev, p.at) \in prepared' /\ p.automatic <= spent'[s]
  BY <1>2 DEF Owed, PendingOf
<1>4. clock' \in Nat
  BY DEF TypeOK, Time
<1>5. Planned(d)'
  BY <1>1, <1>4 DEF Planned
<1>6. UnderWay(d)'
  BY <1>1, <1>2, <1>3 DEF UnderWay, Sent
<1>. QED
  BY <1>5, <1>6

LEMMA UnderWayGoes ==
  ASSUME TypeOK, NEW d \in Driver, NEW at \in Delivering, Goes(d, at), clock' = clock, record' = record,
         spent' = spent, prepared' = prepared, Planned(d), UnderWay(d),
         at = "complete" => Sent(d) \in admitted', at = "refuse" => Sent(d) \in barred'
  PROVE  Planned(d)' /\ UnderWay(d)'
<1>1. /\ job[d].at \in Delivering /\ job'[d].at = at /\ job'[d].of = job[d].of
      /\ job'[d].now = job[d].now /\ job'[d].sends = job[d].sends
  BY DEF Goes
<1>2. Planned(d)'
  BY <1>1 DEF Planned, Delivering
<1>3. Sent(d)' = Sent(d) /\ (Mine(d)' <=> Mine(d))
  BY <1>1 DEF Sent, Mine, IsPending
<1>4. UnderWay(d)'
  BY <1>1, <1>3 DEF UnderWay
<1>. QED
  BY <1>2, <1>4

LEMMA UnderWayPlans ==
  ASSUME TypeOK, NEW d \in Driver, Plans(d), Stays, Planned(d)
  PROVE  Planned(d)' /\ UnderWay(d)'
<1> DEFINE r == record[job[d].of]
<1>1. /\ r.cursor # None /\ r.cursor <= job[d].now /\ r.state = "active"
      /\ job'[d].at \in {"prepare", "deny"} /\ job'[d].of = job[d].of /\ job'[d].now = job[d].now
      /\ job'[d].seen.rev = r.rev /\ job'[d].seen.cursor = r.cursor
      /\ job'[d].due \in DueOccurrence(r.timing, r.cursor, job[d].now)
  BY DEF Plans, Preparable
<1>2. r.rev \in Nat /\ r.timing # None
  BY <1>1, JobFields, RecordFields
<1>3. Planned(d)'
  BY <1>1, <1>2 DEF Planned, Stays
<1>4. UnderWay(d)'
  BY <1>1 DEF UnderWay, Delivering
<1>. QED
  BY <1>3, <1>4

-----------------------------------------------------------------------------
(***************************************************************************)
(* The invariant is inductive.                                              *)
(***************************************************************************)
\* What a step on schedule s leaves of the ledgers of the others.
Foreign(s) ==
  \A o \in Occurrences :
    o.of # s => /\ o \in prepared' <=> o \in prepared
                /\ o \in skipped' <=> o \in skipped
                /\ o \in received' <=> o \in received
                /\ o \in declined' <=> o \in declined
Moves(s) ==
  /\ record[s].rev <= record'[s].rev
  /\ record'[s].rev = record[s].rev => record'[s].timing = record[s].timing

LEMMA Unmoved ==
  ASSUME TypeOK, NEW t \in Id, record'[t].pending = record[t].pending, spent[t] <= spent'[t],
         prepared \subseteq prepared', admitted \subseteq admitted', barred \subseteq barred'
  PROVE  Follows(t)
<1>1. CASE record[t].pending = None
  BY <1>1 DEF Follows
<1>2. CASE record[t].pending # None
  <2>1. record[t].pending \in Pending /\ record[t].pending.generation \in Nat
    BY <1>2, RecordFields, PendingFields
  <2>. QED
    BY <1>2, <2>1 DEF Follows, Same
<1>. QED
  BY <1>1, <1>2

LEMMA Assembly ==
  ASSUME Inv, TypeOK', OutcomesAreTrue', clock' = clock, NEW s \in Id, Elsewhere(s), Foreign(s),
         Moves(s), Follows(s), Calendar(s)', Owed(s)',
         \A d \in Driver : job'[d] = job[d] \/ (Planned(d)' /\ UnderWay(d)')
  PROVE  Inv'
<1>1. TypeOK /\ clock \in Nat
  BY TypeFacts DEF Inv, Time
<1>2. /\ prepared \subseteq prepared' /\ admitted \subseteq admitted' /\ barred \subseteq barred'
  BY DEF Follows
<1>3. ASSUME NEW t \in Id, t # s PROVE Calendar(t)' /\ Owed(t)' /\ Moves(t) /\ Follows(t)
  <2>1. /\ record'[t] = record[t] /\ touched'[t] = touched[t]
        /\ since'[t] = since[t] /\ spent'[t] = spent[t]
    BY <1>3 DEF Elsewhere
  <2>2. spent[t] \in Nat /\ record[t].rev \in Nat
    BY <1>1, RecordFields
  <2>3. Spared(t) /\ Untouched(t)
    BY <1>1, <1>3, <2>1, <2>2 DEF Spared, Untouched, Foreign
  <2>4. Moves(t) /\ Follows(t)
    BY <1>1, <1>2, <2>1, <2>2, Unmoved DEF Moves
  <2>. QED
    BY <1>1, <2>3, <2>4, CalendarSpared, OwedUntouched DEF Inv
<1>4. ASSUME NEW d \in Driver, job'[d] = job[d] PROVE Planned(d)' /\ UnderWay(d)'
  <2>1. job[d].of \in Id
    BY <1>1, JobFields
  <2>2. Moves(job[d].of) /\ Follows(job[d].of)
    BY <1>3, <2>1
  <2>. QED
    BY <1>1, <1>4, <2>1, <2>2, PlannedOnward, UnderWayFollows DEF Inv, Moves
<1>. QED
  BY <1>3, <1>4 DEF Inv

\* A step that leaves the stored schedules as they are.
LEMMA Idling ==
  ASSUME Inv, TypeOK', OutcomesAreTrue', NEW d \in Driver, Others(d),
         UNCHANGED <<clock, record, touched, prepared, skipped, received, declined, since>>,
         \A t \in Id : spent[t] <= spent'[t] /\ (t # job[d].of => spent'[t] = spent[t]),
         admitted \subseteq admitted', barred \subseteq barred', Planned(d)', UnderWay(d)'
  PROVE  Inv'
<1>1. TypeOK
  BY DEF Inv
<1>2. PICK s \in Id : s = job[d].of
  BY <1>1, JobFields
<1>3. clock \in Nat /\ record[s].rev \in Nat
  BY <1>1, RecordFields
<1>4. Spared(s) /\ Untouched(s)
  BY <1>3 DEF Spared, Untouched
<1>5. Calendar(s)' /\ Owed(s)'
  BY <1>1, <1>4, CalendarSpared, OwedUntouched DEF Inv
<1>6. Elsewhere(s) /\ Foreign(s) /\ Moves(s)
  BY <1>2, <1>3 DEF Elsewhere, Foreign, Moves
<1>7. Follows(s)
  BY <1>1, Unmoved
<1>8. \A e \in Driver : job'[e] = job[e] \/ (Planned(e)' /\ UnderWay(e)')
  BY DEF Others
<1>. QED
  BY <1>5, <1>6, <1>7, <1>8, Assembly

\* Time passes, or nothing happens.
LEMMA Passing ==
  ASSUME Inv, TypeOK', clock <= clock',
         UNCHANGED <<record, touched, job, admitted, barred, prepared, skipped, received,
                     declined, since, spent>>
  PROVE  Inv'
<1>1. TypeOK /\ OutcomesAreTrue'
  BY DEF Inv, OutcomesAreTrue
<1>2. ASSUME NEW t \in Id PROVE Calendar(t)' /\ Owed(t)' /\ Moves(t) /\ Follows(t)
  <2>1. record[t].rev \in Nat /\ spent[t] \in Nat
    BY <1>1, RecordFields
  <2>2. Spared(t) /\ Untouched(t) /\ Moves(t)
    BY <2>1 DEF Spared, Untouched, Moves
  <2>3. Follows(t)
    BY <1>1, <2>1, Unmoved
  <2>. QED
    BY <1>1, <2>2, <2>3, CalendarSpared, OwedUntouched DEF Inv
<1>3. ASSUME NEW d \in Driver PROVE Planned(d)' /\ UnderWay(d)'
  <2>1. job[d].of \in Id /\ job'[d] = job[d]
    BY <1>1, JobFields
  <2>2. Moves(job[d].of) /\ Follows(job[d].of)
    BY <1>2, <2>1
  <2>. QED
    BY <1>1, <2>1, <2>2, PlannedOnward, UnderWayFollows DEF Inv, Moves
<1>. QED
  BY <1>1, <1>2, <1>3 DEF Inv

LEMMA ManageKeepsInv ==
  ASSUME Inv, Manage
  PROVE  Inv'
<1>1. TypeOK /\ OutcomesAreTrue
  BY DEF Inv
<1>2. ASSUME NEW s \in Id, TypeOK', Elsewhere(s), Quiet, Foreign(s), Moves(s), job' = job,
             clock' = clock, received' = received, declined' = declined, prepared' = prepared,
             Calendar(s)', Owed(s)', Follows(s)
      PROVE  Inv'
  <2>1. OutcomesAreTrue'
    BY <1>1, <1>2 DEF OutcomesAreTrue, Quiet
  <2>. QED
    BY <1>2, <2>1, Assembly
<1>3. ASSUME NEW s \in Id, Untold PROVE Foreign(s)
  BY <1>3 DEF Untold, Foreign
<1>4. ASSUME NEW s \in Id, record'[s].pending = record[s].pending, spent' = spent,
             received' = received, declined' = declined, prepared' = prepared, Quiet, TypeOK'
      PROVE  Owed(s)' /\ Follows(s)
  <2>1. spent[s] \in Nat
    BY <1>1, RecordFields
  <2>2. Untouched(s) /\ Follows(s)
    BY <1>1, <1>4, <2>1, Unmoved DEF Untouched, Quiet
  <2>. QED
    BY <1>1, <1>4, <2>2, OwedUntouched DEF Inv
<1>5. ASSUME NEW s \in Id, Pause(s) PROVE Inv'
  <2>1. /\ TypeOK' /\ Elsewhere(s) /\ Paused(s) /\ Settled(s) /\ Untold /\ Quiet
        /\ record'[s].pending = record[s].pending
        /\ job' = job /\ clock' = clock /\ since' = since /\ spent' = spent
    BY <1>1, <1>5, PauseEffect
  <2>2. Calendar(s)'
    BY <1>1, <2>1, CalendarSettled DEF Inv, Untold
  <2>3. Owed(s)' /\ Follows(s)
    BY <1>4, <2>1 DEF Untold
  <2>4. Moves(s)
    BY <1>1, <2>1, RecordFields DEF Settled, Moves
  <2>. QED
    BY <1>2, <1>3, <2>1, <2>2, <2>3, <2>4 DEF Untold
<1>6. ASSUME NEW s \in Id, Cancel(s) PROVE Inv'
  <2>1. /\ TypeOK' /\ Elsewhere(s) /\ Untold /\ Quiet
        /\ record'[s].rev = record[s].rev /\ record'[s].timing = record[s].timing
        /\ record'[s].pending = record[s].pending
        /\ job' = job /\ clock' = clock /\ since' = since /\ spent' = spent
    BY <1>1, <1>6, CancelEffect
  <2>2. Calendar(s)'
    BY <1>1, <1>6, CalendarCancelled DEF Inv
  <2>3. Owed(s)' /\ Follows(s)
    BY <1>4, <2>1 DEF Untold
  <2>4. Moves(s)
    BY <1>1, <2>1, RecordFields DEF Moves
  <2>. QED
    BY <1>2, <1>3, <2>1, <2>2, <2>3, <2>4 DEF Untold
<1>7. ASSUME NEW s \in Id, NEW timing \in Timing, NEW now \in Time,
             Create(s, timing, now) \/ Update(s, timing, now)
      PROVE  Inv'
  <2>1. /\ TypeOK' /\ Elsewhere(s) /\ Untold /\ Quiet
        /\ record'[s].rev = record[s].rev + 1 /\ record'[s].pending = record[s].pending
        /\ job' = job /\ clock' = clock /\ spent' = spent
    BY <1>1, <1>7, ConfigureEffect
  <2>2. Calendar(s)'
    BY <1>1, <1>7, CalendarConfigured DEF Inv
  <2>3. Owed(s)' /\ Follows(s)
    BY <1>4, <2>1 DEF Untold
  <2>4. Moves(s)
    BY <1>1, <2>1, RecordFields DEF Moves
  <2>. QED
    BY <1>2, <1>3, <2>1, <2>2, <2>3, <2>4 DEF Untold
<1>8. ASSUME NEW s \in Id, NEW now \in Time, Resume(s, now) PROVE Inv'
  <2>1. /\ TypeOK' /\ Elsewhere(s) /\ Quiet /\ UNCHANGED <<prepared, received, declined>>
        /\ record'[s].rev = record[s].rev /\ record'[s].timing = record[s].timing
        /\ record'[s].pending = record[s].pending
        /\ skipped' = IF ~record[s].timing.once /\ record[s].cursor # None
                      THEN skipped \cup Between(s, record[s].cursor, record'[s].cursor) ELSE skipped
        /\ job' = job /\ clock' = clock /\ spent' = spent
    BY <1>1, <1>8, ResumeEffect
  <2>2. Calendar(s)'
    BY <1>1, <1>8, CalendarResumed DEF Inv
  <2>3. Owed(s)' /\ Follows(s)
    BY <1>4, <2>1
  <2>4. Moves(s)
    BY <1>1, <2>1, RecordFields DEF Moves
  <2>5. Foreign(s)
    <3>1. \A o \in Between(s, record[s].cursor, record'[s].cursor) : o.of = s
      BY DEF Between, Occurrence
    <3>. QED
      BY <2>1, <3>1 DEF Foreign
  <2>. QED
    BY <1>2, <2>1, <2>2, <2>3, <2>4, <2>5
<1>9. ASSUME NEW s \in Id, NEW now \in Time, Recover(s, now) PROVE Inv'
  <2>1. /\ TypeOK' /\ Elsewhere(s) /\ Paused(s) /\ Settled(s) /\ Untold /\ Quiet
        /\ record[s].pending \in Pending
        /\ record'[s].pending = Rearmed(record[s].pending, now)
        /\ job' = job /\ clock' = clock /\ since' = since
    BY <1>1, <1>9, RecoverEffect
  <2>2. Calendar(s)'
    BY <1>1, <2>1, CalendarSettled DEF Inv, Untold
  <2>3. Owed(s)'
    BY <1>1, <1>9, OwedRearmed DEF Inv
  <2>4. Follows(s)
    <3>1. record[s].pending # None /\ record[s].pending.generation \in Nat /\ now \in Nat
      BY <2>1, PendingFields DEF Time
    <3>2. Same(s)
      BY <2>1, <3>1, RearmedIsPending DEF Same
    <3>. QED
      BY <2>1, <3>2 DEF Follows, Untold, Quiet
  <2>5. Moves(s)
    BY <1>1, <2>1, RecordFields DEF Settled, Moves
  <2>. QED
    BY <1>2, <1>3, <2>1, <2>2, <2>3, <2>4, <2>5 DEF Untold
<1>. QED
  BY <1>5, <1>6, <1>7, <1>8, <1>9 DEF Manage

LEMMA StillIdling ==
  ASSUME Inv, TypeOK', NEW d \in Driver, Others(d), Stays, Planned(d)', UnderWay(d)'
  PROVE  Inv'
<1>1. TypeOK /\ OutcomesAreTrue'
  BY DEF Inv, Stays, OutcomesAreTrue
<1>2. \A t \in Id : spent[t] \in Nat
  BY <1>1, RecordFields
<1>. QED
  BY <1>1, <1>2, Idling DEF Stays

LEMMA FetchKeepsInv ==
  ASSUME Inv, NEW d \in Driver, Fetch(d)
  PROVE  Inv'
<1>1. TypeOK /\ Planned(d)
  BY DEF Inv
<1>2. PICK s \in Id : s = job[d].of
  BY <1>1, JobFields
<1>3. /\ TypeOK' /\ Others(d) /\ Stays
      /\ \/ Rests(d)
         \/ record[s].pending \in Pending /\ Dispatches(d, record[s].pending)
         \/ Plans(d)
  BY <1>1, <1>2, FetchEffect
<1>4. CASE Rests(d)
  <2>1. Planned(d)' /\ UnderWay(d)'
    BY <1>1, <1>3, <1>4, UnderWayRests DEF Stays
  <2>. QED
    BY <1>3, <2>1, StillIdling
<1>5. CASE record[s].pending \in Pending /\ Dispatches(d, record[s].pending)
  <2>1. Owed(s)'
    <3>1. spent[s] \in Nat
      BY <1>1, RecordFields
    <3>2. Untouched(s)
      BY <1>3, <3>1 DEF Untouched, Stays
    <3>. QED
      BY <1>1, <1>3, <3>2, OwedUntouched DEF Inv
  <2>2. Planned(d)' /\ UnderWay(d)'
    BY <1>2, <1>3, <1>5, <2>1, UnderWayDispatched DEF Stays
  <2>. QED
    BY <1>3, <2>2, StillIdling
<1>6. CASE Plans(d)
  <2>1. Planned(d)' /\ UnderWay(d)'
    BY <1>1, <1>3, <1>6, UnderWayPlans
  <2>. QED
    BY <1>3, <2>1, StillIdling
<1>. QED
  BY <1>3, <1>4, <1>5, <1>6

LEMMA PrepareKeepsInv ==
  ASSUME Inv, NEW d \in Driver, Prepare(d)
  PROVE  Inv'
<1>1. TypeOK /\ Planned(d)
  BY DEF Inv
<1>2. PICK s \in Id : s = job[d].of
  BY <1>1, JobFields
<1>3. /\ TypeOK' /\ Others(d) /\ Quiet /\ job[d].at = "prepare"
      /\ (Rests(d) /\ Stays) \/ Prepares(d)
  BY <1>1, PrepareEffect
<1>4. CASE Rests(d) /\ Stays
  <2>1. Planned(d)' /\ UnderWay(d)'
    BY <1>1, <1>4, UnderWayRests DEF Stays
  <2>. QED
    BY <1>3, <1>4, <2>1, StillIdling
<1>5. CASE Prepares(d)
  <2>1. Calendar(s)'
    BY <1>1, <1>2, <1>3, <1>5, CalendarPrepared DEF Inv
  <2>2. Owed(s)'
    BY <1>1, <1>2, <1>3, <1>5, OwedPrepared DEF Inv
  <2>3. /\ Elsewhere(s) /\ record'[s].rev = record[s].rev /\ record'[s].timing = record[s].timing
        /\ record'[s].pending = Fresh(record[s].rev, job[d].due.at, job[d].now)
        /\ prepared' = prepared \cup {Occurrence(s, record[s].rev, job[d].due.at)}
        /\ skipped' = skipped \cup Between(s, record[s].cursor, job[d].due.at)
        /\ clock' = clock /\ received' = received /\ declined' = declined
        /\ Dispatches(d, record'[s].pending)
    BY <1>2, <1>5 DEF Prepares
  <2>4. record[s].rev \in Nat /\ job[d].due.at \in Nat /\ job[d].now \in Nat /\ record[s].cursor \in Nat
        /\ record[s].cursor <= job[d].due.at
    BY <1>1, <1>2, <1>3, <1>5, PreparedPlace DEF Inv
  <2>5. Foreign(s)
    <3>1. \A o \in Between(s, record[s].cursor, job[d].due.at) : o.of = s
      BY DEF Between, Occurrence
    <3>2. Occurrence(s, record[s].rev, job[d].due.at).of = s
      BY <2>4, OccurrenceFields
    <3>. QED
      BY <2>3, <3>1, <3>2 DEF Foreign
  <2>6. Follows(s)
    <3>1. Occurrence(s, record[s].rev, job[d].due.at) \notin prepared
      <4>1. Occurrence(s, record[s].rev, job[d].due.at).rev = record[s].rev
            /\ Occurrence(s, record[s].rev, job[d].due.at).of = s
            /\ Occurrence(s, record[s].rev, job[d].due.at).at = job[d].due.at
        BY <2>4, OccurrenceFields
      <4>2. \A o \in prepared : o.of = s /\ o.rev = record[s].rev => o.at < record[s].cursor
        BY <2>4, ScheduleConstants DEF Inv, Calendar, Handled
      <4>. QED
        BY <2>4, <4>1, <4>2
    <3>2. /\ record'[s].pending.rev = record[s].rev /\ record'[s].pending.at = job[d].due.at
      BY <2>3 DEF Fresh
    <3>. QED
      BY <1>3, <2>3, <3>1, <3>2 DEF Follows, Quiet
  <2>7. Moves(s)
    BY <2>3, <2>4 DEF Moves
  <2>8. Planned(d)' /\ UnderWay(d)'
    <3>1. record'[s].pending \in Pending
      BY <2>3, <2>4, FreshIsPending
    <3>. QED
      BY <1>2, <1>3, <2>2, <2>3, <3>1, UnderWayDispatched
  <2>9. OutcomesAreTrue'
    BY <1>3, <2>3 DEF Inv, OutcomesAreTrue, Quiet
  <2>10. \A e \in Driver : job'[e] = job[e] \/ (Planned(e)' /\ UnderWay(e)')
    BY <1>3, <2>8 DEF Others
  <2>. QED
    BY <1>3, <2>1, <2>2, <2>3, <2>5, <2>6, <2>7, <2>9, <2>10, Assembly
<1>. QED
  BY <1>3, <1>4, <1>5

LEMMA DenyKeepsInv ==
  ASSUME Inv, NEW d \in Driver, DenyPreparation(d)
  PROVE  Inv'
<1>1. TypeOK /\ Planned(d)
  BY DEF Inv
<1>2. PICK s \in Id : s = job[d].of
  BY <1>1, JobFields
<1>3. /\ TypeOK' /\ Others(d) /\ Quiet
      /\ (Rests(d) /\ Stays) \/ Denies(d)
  BY <1>1, DenyEffect
<1>4. Rests(d) /\ clock' = clock
  BY <1>3 DEF Denies, Stays
<1>5. Planned(d)' /\ UnderWay(d)'
  BY <1>1, <1>4, UnderWayRests
<1>6. CASE Stays
  BY <1>3, <1>5, <1>6, StillIdling
<1>7. CASE Denies(d)
  <2>1. /\ Elsewhere(s) /\ Paused(s) /\ Settled(s) /\ record'[s].pending = record[s].pending
        /\ UNCHANGED <<clock, prepared, skipped, received, declined, since, spent>>
    BY <1>2, <1>7 DEF Denies
  <2>2. record[s].rev \in Nat /\ spent[s] \in Nat
    BY <1>1, RecordFields
  <2>3. Calendar(s)'
    BY <1>1, <1>3, <2>1, CalendarSettled DEF Inv
  <2>4. Untouched(s) /\ Follows(s) /\ Moves(s) /\ Foreign(s)
    BY <1>1, <1>3, <2>1, <2>2, Unmoved DEF Untouched, Moves, Settled, Foreign, Quiet
  <2>5. Owed(s)'
    BY <1>1, <1>3, <2>4, OwedUntouched DEF Inv
  <2>6. OutcomesAreTrue'
    BY <1>3, <2>1 DEF Inv, OutcomesAreTrue, Quiet
  <2>7. \A e \in Driver : job'[e] = job[e] \/ (Planned(e)' /\ UnderWay(e)')
    BY <1>3, <1>5 DEF Others
  <2>. QED
    BY <1>3, <2>1, <2>3, <2>4, <2>5, <2>6, <2>7, Assembly
<1>. QED
  BY <1>3, <1>6, <1>7

LEMMA AdmitKeepsInv ==
  ASSUME Inv, NEW d \in Driver, Admit(d)
  PROVE  Inv'
<1>1. TypeOK /\ Planned(d) /\ UnderWay(d)
  BY DEF Inv
<1>2. /\ TypeOK' /\ Others(d) /\ Asks(d)
      /\ UNCHANGED <<clock, record, touched, prepared, skipped, received, declined, since, spent>>
  BY <1>1, AdmitEffect
<1>3. /\ admitted \subseteq admitted' /\ barred \subseteq barred'
      /\ \E at \in Delivering :
           /\ Goes(d, at)
           /\ at = "complete" => Sent(d) \in admitted'
           /\ at = "refuse" => Sent(d) \in barred'
  BY <1>2 DEF Asks, Delivering, Quiet
<1>4. Planned(d)' /\ UnderWay(d)'
  BY <1>1, <1>2, <1>3, UnderWayGoes
<1>5. OutcomesAreTrue'
  BY <1>2, <1>3 DEF Inv, OutcomesAreTrue
<1>6. \A t \in Id : spent[t] \in Nat
  BY <1>1, RecordFields
<1>. QED
  BY <1>2, <1>3, <1>4, <1>5, <1>6, Idling

LEMMA CloseKeepsInv ==
  ASSUME Inv, NEW d \in Driver, Complete(d) \/ Refuse(d)
  PROVE  Inv'
<1>1. TypeOK /\ Planned(d) /\ UnderWay(d)
  BY DEF Inv
<1>2. PICK s \in Id : s = job[d].of
  BY <1>1, JobFields
<1>3. /\ TypeOK' /\ Others(d) /\ Quiet /\ job[d].at \in {"complete", "refuse"}
      /\ \/ Rests(d) /\ Stays
         \/ Goes(d, "retry") /\ Stays
         \/ Completes(d) \/ Refuses(d)
  BY <1>1, CompleteEffect, RefuseEffect
<1>4. job[d].at \in Delivering /\ "retry" \in Delivering
  BY <1>3 DEF Delivering
<1>5. CASE Rests(d) /\ Stays
  <2>1. Planned(d)' /\ UnderWay(d)'
    BY <1>1, <1>5, UnderWayRests DEF Stays
  <2>. QED
    BY <1>3, <1>5, <2>1, StillIdling
<1>6. CASE Goes(d, "retry") /\ Stays
  <2>1. Planned(d)' /\ UnderWay(d)'
    BY <1>1, <1>4, <1>6, UnderWayGoes DEF Stays
  <2>. QED
    BY <1>3, <1>6, <2>1, StillIdling
<1>7. CASE Completes(d) \/ Refuses(d)
  <2>1. /\ Rests(d) /\ Elsewhere(s) /\ Paused(s) /\ Settled(s) /\ record'[s].pending = None
        /\ UNCHANGED <<clock, prepared, skipped, since, spent>>
        /\ \/ received' = received \cup {Sent(d)} /\ declined' = declined
           \/ declined' = declined \cup {Sent(d)} /\ received' = received
    BY <1>2, <1>7 DEF Completes, Refuses
  <2>2. Calendar(s)'
    BY <1>1, <1>3, <2>1, CalendarSettled DEF Inv
  <2>3. Owed(s)'
    BY <1>1, <1>2, <1>4, <1>7, OwedClosed DEF Inv
  <2>4. record[s].rev \in Nat
    BY <1>1, RecordFields
  <2>5. Foreign(s) /\ Moves(s) /\ Follows(s)
    <3>1. Sent(d).of = s
      BY <1>2 DEF Sent, Occurrence
    <3>. QED
      BY <1>3, <2>1, <2>4, <3>1 DEF Foreign, Moves, Settled, Follows, Quiet
  <2>6. OutcomesAreTrue'
    BY <1>1, <1>3, <1>4, <1>7 DEF Inv, OutcomesAreTrue, UnderWay, Completes, Refuses, Quiet
  <2>7. Planned(d)' /\ UnderWay(d)'
    BY <1>1, <2>1, UnderWayRests
  <2>8. \A e \in Driver : job'[e] = job[e] \/ (Planned(e)' /\ UnderWay(e)')
    BY <1>3, <2>7 DEF Others
  <2>. QED
    BY <1>3, <2>1, <2>2, <2>3, <2>5, <2>6, <2>8, Assembly
<1>. QED
  BY <1>3, <1>5, <1>6, <1>7

LEMMA RetryKeepsInv ==
  ASSUME Inv, NEW d \in Driver, Retry(d)
  PROVE  Inv'
<1>1. TypeOK /\ Planned(d) /\ UnderWay(d)
  BY DEF Inv
<1>2. PICK s \in Id : s = job[d].of
  BY <1>1, JobFields
<1>3. /\ TypeOK' /\ Others(d) /\ Quiet /\ Rests(d) /\ job[d].at = "retry"
      /\ Spent(d) /\ \A t \in Id \ {s} : spent'[t] = spent[t]
      /\ UNCHANGED <<clock, prepared, skipped, received, declined, since>>
      /\ UNCHANGED <<record, touched>> \/ Defers(d)
  BY <1>1, <1>2, RetryEffect
<1>4. Planned(d)' /\ UnderWay(d)'
  BY <1>1, <1>3, UnderWayRests
<1>5. OutcomesAreTrue'
  BY <1>3 DEF Inv, OutcomesAreTrue, Quiet
<1>6. \A t \in Id : spent[t] \in Nat /\ record[t].rev \in Nat
  BY <1>1, RecordFields
<1>7. spent[s] <= spent'[s]
  BY <1>2, <1>3, <1>6 DEF Spent
<1>8. CASE UNCHANGED <<record, touched>>
  <2>1. \A t \in Id : spent[t] <= spent'[t] /\ (t # job[d].of => spent'[t] = spent[t])
    BY <1>2, <1>3, <1>6, <1>7
  <2>. QED
    BY <1>3, <1>4, <1>5, <1>8, <2>1, Idling DEF Quiet
<1>9. CASE Defers(d)
  <2>1. /\ Elsewhere(s) /\ Paused(s) /\ Settled(s)
        /\ Mine(d) /\ Spends(record[s].pending, job[d].sends)
        /\ \E next \in Nat : record'[s].pending = Deferred(record[s].pending, job[d].sends, next)
    BY <1>2, <1>9 DEF Defers
  <2>2. Calendar(s)'
    BY <1>1, <1>3, <2>1, CalendarSettled DEF Inv
  <2>3. Owed(s)'
    BY <1>1, <1>2, <1>9, OwedDeferred DEF Inv
  <2>4. Same(s)
    <3>1. /\ record[s].pending \in Pending /\ record[s].pending # None
          /\ job[d].sends \in Pending /\ ~job[d].sends.parked
          /\ job[d].sends.generation = record[s].pending.generation
          /\ record[s].pending.generation \in Nat
      <4>1. record[s].pending # None /\ job[d].sends.generation = record[s].pending.generation
        BY <1>2, <2>1 DEF Mine, IsPending, Spends
      <4>2. job[d].sends \in Pending /\ ~job[d].sends.parked
        BY <1>1, <1>3, JobFields DEF Delivering
      <4>. QED
        BY <1>1, <4>1, <4>2, RecordFields, PendingFields
    <3>2. /\ record'[s].pending.rev = record[s].pending.rev
          /\ record'[s].pending.at = record[s].pending.at
          /\ record'[s].pending.generation = record[s].pending.generation
      BY <2>1, <3>1, DeferredIsPending
    <3>. QED
      BY <1>7, <3>1, <3>2 DEF Same
  <2>5. Foreign(s) /\ Moves(s) /\ Follows(s)
    BY <1>3, <1>6, <2>1, <2>4 DEF Foreign, Moves, Settled, Follows, Quiet
  <2>6. \A e \in Driver : job'[e] = job[e] \/ (Planned(e)' /\ UnderWay(e)')
    BY <1>3, <1>4 DEF Others
  <2>. QED
    BY <1>3, <1>5, <2>1, <2>2, <2>3, <2>5, <2>6, Assembly
<1>. QED
  BY <1>3, <1>8, <1>9

LEMMA NextInv == Inv /\ [Next]_vars => Inv'
<1>. SUFFICES ASSUME Inv, [Next]_vars PROVE Inv'
  OBVIOUS
<1>1. TypeOK /\ TypeOK'
  BY NextTypeOK DEF Inv
<1>2. CASE Manage
  BY <1>2, ManageKeepsInv
<1>3. ASSUME NEW d \in Driver, Proceed(d) PROVE Inv'
  BY <1>3, FetchKeepsInv, PrepareKeepsInv, DenyKeepsInv, AdmitKeepsInv, CloseKeepsInv, RetryKeepsInv
  DEF Proceed
<1>4. ASSUME NEW d \in Driver, Others(d), Rests(d), Stays PROVE Inv'
  <2>1. Planned(d)' /\ UnderWay(d)'
    BY <1>1, <1>4, UnderWayRests DEF Inv, Stays
  <2>. QED
    BY <1>1, <1>4, <2>1, StillIdling
<1>5. ASSUME NEW d \in Driver, NEW s \in Id, Begin(d, s) PROVE Inv'
  BY <1>1, <1>4, <1>5, BeginEffect
<1>6. ASSUME NEW d \in Driver, Stop(d) PROVE Inv'
  BY <1>1, <1>4, <1>6, StopEffect
<1>7. CASE Tick
  BY <1>1, <1>7, TickEffect, Passing
<1>8. CASE UNCHANGED vars
  <2>1. clock \in Nat
    BY <1>1, TypeFacts DEF Time
  <2>. QED
    BY <1>1, <1>8, <2>1, Passing DEF vars, store, world, history
<1>. QED
  BY <1>2, <1>3, <1>5, <1>6, <1>7, <1>8 DEF Next

LEMMA InvHolds == Spec => []Inv
BY InitInv, NextInv, PTL DEF Spec

-----------------------------------------------------------------------------
(***************************************************************************)
(* What follows from the invariant.                                         *)
(***************************************************************************)
\* A prepared occurrence stays the schedule's obligation until a Receipt or a
\* refusal closes it, however updates, pauses, cancellations, recoveries and
\* late deliveries interleave (management.update and cancel keep pending;
\* completeDelivery and refuseDelivery compare it).
THEOREM ObligationsKept == Spec => []ObligationsAreKept
<1>1. Inv => ObligationsAreKept
  <2>. SUFFICES ASSUME Inv, NEW o \in prepared
                PROVE  IsPending(o.of, o.rev, o.at) \/ o \in received \cup declined
    BY DEF ObligationsAreKept
  <2>1. o.of \in Id
    BY OccurrenceFields, TypeFacts DEF Inv
  <2>. QED
    BY <2>1 DEF Inv, Owed
<1>. QED
  BY <1>1, InvHolds, PTL

\* What is pending was never closed before: an occurrence is not prepared
\* again, whatever cursor a resumption or a conflict left behind.
THEOREM PreparedOnlyOnce == Spec => []PreparedOnce
<1>1. Inv => PreparedOnce
  BY DEF Inv, Owed, PendingOf, PreparedOnce
<1>. QED
  BY <1>1, InvHolds, PTL

\* A recorded Receipt was admitted by the destination, a recorded refusal is
\* proof that it was not: an ambiguous failure is never taken for either.
THEOREM OutcomesTrue == Spec => []OutcomesAreTrue
<1>1. Inv => OutcomesAreTrue
  BY DEF Inv
<1>. QED
  BY <1>1, InvHolds, PTL

\* Behind the cursor every firing of the current configuration was prepared or
\* recorded as skipped (dueScheduleOccurrence and resumeScheduleCursor against
\* the ranges the transitions record).
THEOREM FiringsAccounted == Spec => []FiringsAreAccounted
<1>1. Inv => FiringsAreAccounted
  BY DEF Inv, Calendar, Accounted, FiringsAreAccounted
<1>. QED
  BY <1>1, InvHolds, PTL

\* No firing is both prepared and recorded as skipped.
THEOREM SkippedNotPrepared == Spec => []SkippedIsNotPrepared
<1>1. Inv => SkippedIsNotPrepared
  <2>. SUFFICES ASSUME Inv, NEW o \in prepared PROVE o \notin skipped
    BY DEF SkippedIsNotPrepared
  <2>1. o.of \in Id
    BY OccurrenceFields, TypeFacts DEF Inv
  <2>. QED
    BY <2>1 DEF Inv, Calendar, Apart
<1>. QED
  BY <1>1, InvHolds, PTL

\* Together: each firing behind the cursor is prepared once or skipped, and
\* never both (skippedRange and the coalesced occurrence of one reading).
THEOREM FiringsExact == Spec => []FiringsAreExact
<1>. QED
  BY FiringsAccounted, SkippedNotPrepared, PreparedOnlyOnce, PTL DEF FiringsAreExact

\* A delivery is parked only when a whole allowance of attempts has failed
\* since its last recovery (retryDelivery compares the generation).
THEOREM AllowanceWhole == Spec => []AllowanceIsWhole
<1>1. Inv => AllowanceIsWhole
  <2>. SUFFICES ASSUME Inv, NEW s \in Id, record[s].pending # None, record[s].pending.parked
                PROVE  spent[s] = MaxAutomatic
    BY DEF AllowanceIsWhole
  <2>1. record[s].pending \in Pending /\ spent[s] \in 0..MaxAutomatic
    BY RecordFields, TypeFacts DEF Inv
  <2>2. record[s].pending.automatic = MaxAutomatic
    BY <2>1, PendingFields
  <2>3. MaxAutomatic <= spent[s]
    BY <2>2 DEF Inv, Owed
  <2>. QED
    BY <2>1, <2>3, ScheduleConstants
<1>. QED
  BY <1>1, InvHolds, PTL

\* A cancelled schedule stays cancelled and prepares nothing more, though a
\* driver may hold a plan it made before (prepareOccurrence compares the state).
Final(s) ==
  record[s].state = "cancelled" =>
    /\ record'[s].state = "cancelled"
    /\ {o \in prepared' : o.of = s} = {o \in prepared : o.of = s}
LEMMA StepIsFinal ==
  ASSUME TypeOK, [Next]_vars, NEW s \in Id
  PROVE  Final(s)
<1>1. ASSUME prepared' = prepared, NEW t \in Id, Elsewhere(t),
             record[t].state = "cancelled" => record'[t].state = "cancelled"
      PROVE  Final(s)
  BY <1>1 DEF Final, Elsewhere
<1>2. ASSUME prepared' = prepared, record' = record PROVE Final(s)
  BY <1>2 DEF Final
<1>3. ASSUME NEW t \in Id, Settled(t), record[t].state = "cancelled" PROVE record'[t].state = "cancelled"
  BY <1>3 DEF Settled, Live
<1>4. CASE Manage
  <2>1. ASSUME NEW t \in Id, Pause(t) PROVE Final(s)
    BY <1>1, <1>3, <2>1, PauseEffect DEF Untold
  <2>2. ASSUME NEW t \in Id, Cancel(t) PROVE Final(s)
    BY <1>1, <2>2, CancelEffect DEF Untold
  <2>3. ASSUME NEW t \in Id, NEW timing \in Timing, NEW now \in Time,
               Create(t, timing, now) \/ Update(t, timing, now)
        PROVE  Final(s)
    BY <1>1, <2>3, ConfigureEffect DEF Untold
  <2>4. ASSUME NEW t \in Id, NEW now \in Time, Resume(t, now) PROVE Final(s)
    BY <1>1, <2>4, ResumeEffect
  <2>5. ASSUME NEW t \in Id, NEW now \in Time, Recover(t, now) PROVE Final(s)
    BY <1>1, <1>3, <2>5, RecoverEffect DEF Untold
  <2>. QED
    BY <1>4, <2>1, <2>2, <2>3, <2>4, <2>5 DEF Manage
<1>5. ASSUME NEW d \in Driver, Prepares(d) PROVE Final(s)
  <2>1. /\ job[d].of \in Id /\ record[job[d].of].state = "active"
        /\ Elsewhere(job[d].of)
        /\ prepared' = prepared \cup {Occurrence(job[d].of, record[job[d].of].rev, job[d].due.at)}
    BY <1>5, JobFields DEF Prepares, MayPrepare
  <2>2. Occurrence(job[d].of, record[job[d].of].rev, job[d].due.at).of = job[d].of
    BY DEF Occurrence
  <2>. QED
    BY <2>1, <2>2 DEF Final, Elsewhere
<1>6. ASSUME NEW d \in Driver, Denies(d) \/ Completes(d) \/ Refuses(d) PROVE Final(s)
  BY <1>1, <1>3, <1>6, JobFields DEF Denies, Completes, Refuses
<1>7. ASSUME NEW d \in Driver, Proceed(d) PROVE Final(s)
  <2>1. CASE Fetch(d)
    BY <1>2, <2>1, FetchEffect DEF Stays
  <2>2. CASE Prepare(d)
    BY <1>2, <1>5, <2>2, PrepareEffect DEF Stays
  <2>3. CASE DenyPreparation(d)
    BY <1>2, <1>6, <2>3, DenyEffect DEF Stays
  <2>4. CASE Admit(d)
    BY <1>2, <2>4, AdmitEffect
  <2>5. CASE Complete(d) \/ Refuse(d)
    BY <1>2, <1>6, <2>5, CompleteEffect, RefuseEffect DEF Stays
  <2>6. CASE Retry(d)
    <3>1. prepared' = prepared /\ (record' = record \/ Defers(d))
      BY <2>6, RetryEffect
    <3>. QED
      BY <1>1, <1>2, <1>3, <3>1, JobFields DEF Defers
  <2>. QED
    BY <1>7, <2>1, <2>2, <2>3, <2>4, <2>5, <2>6 DEF Proceed
<1>8. ASSUME NEW d \in Driver, NEW t \in Id, Begin(d, t) PROVE Final(s)
  BY <1>2, <1>8, BeginEffect DEF Stays
<1>9. ASSUME NEW d \in Driver, Stop(d) PROVE Final(s)
  BY <1>2, <1>9, StopEffect DEF Stays
<1>10. CASE Tick \/ UNCHANGED vars
  BY <1>2, <1>10, TickEffect DEF vars, store, history
<1>. QED
  BY <1>4, <1>7, <1>8, <1>9, <1>10 DEF Next
THEOREM CancelFinal == Spec => CancelIsFinal
<1>1. TypeOK /\ [Next]_vars => [\A s \in Id : Final(s)]_vars
  BY StepIsFinal
<1>. QED
  BY <1>1, TypeCorrect, PTL DEF Spec, CancelIsFinal, Final

\* The owner's quota holds, whichever transaction brings a record into use.
InUse == {s \in Id : UsesCapacity(record[s])}
LEMMA StoresKeepsQuota ==
  ASSUME TypeOK, QuotaHolds, NEW s \in Id, NEW r, Stores(s, r)
  PROVE  QuotaHolds'
<1>1. IsFiniteSet(Id) /\ OwnerLimit \in Nat
  BY ScheduleConstants
<1>2. InUse \subseteq Id /\ InUse' \subseteq Id
  BY DEF InUse
<1>3. IsFiniteSet(InUse) /\ IsFiniteSet(InUse') /\ IsFiniteSet(InUse \cup {s})
  BY <1>1, <1>2, FS_Subset, FS_AddElement
<1>4. Cardinality(InUse) \in Nat /\ Cardinality(InUse') \in Nat /\ Cardinality(InUse) <= OwnerLimit
  BY <1>3, FS_CardinalityType DEF QuotaHolds, InUse
<1>5. record'[s] = r /\ \A t \in Id \ {s} : record'[t] = record[t]
  BY TypeFacts DEF Stores
<1>6. CASE UsesCapacity(r) /\ ~UsesCapacity(record[s])
  <2>1. Cardinality(InUse) < OwnerLimit
    BY <1>6 DEF Stores, HasRoom, InUse
  <2>2. InUse' = InUse \cup {s} /\ s \notin InUse
    BY <1>5, <1>6 DEF InUse
  <2>3. Cardinality(InUse') = Cardinality(InUse) + 1
    BY <1>3, <2>2, FS_AddElement
  <2>. QED
    BY <1>1, <1>4, <2>1, <2>3 DEF QuotaHolds, InUse
<1>7. CASE ~(UsesCapacity(r) /\ ~UsesCapacity(record[s]))
  <2>1. InUse' \subseteq InUse
    BY <1>5, <1>7 DEF InUse
  <2>2. Cardinality(InUse') <= Cardinality(InUse)
    BY <1>3, <2>1, FS_Subset
  <2>. QED
    BY <1>1, <1>4, <2>2 DEF QuotaHolds, InUse
<1>. QED
  BY <1>6, <1>7

THEOREM QuotaKept == Spec => []QuotaHolds
<1>1. Init => QuotaHolds
  <2>. SUFFICES ASSUME Init PROVE QuotaHolds
    OBVIOUS
  <2>1. InUse = {}
    BY DEF InUse, Init, UsesCapacity, Absent
  <2>. QED
    BY <2>1, FS_EmptySet, ScheduleConstants DEF QuotaHolds, InUse
<1>2. TypeOK /\ QuotaHolds /\ [Next]_vars => QuotaHolds'
  <2>. SUFFICES ASSUME TypeOK, QuotaHolds, [Next]_vars PROVE QuotaHolds'
    OBVIOUS
  <2>1. ASSUME record' = record PROVE QuotaHolds'
    BY <2>1 DEF QuotaHolds
  <2>2. ASSUME NEW s \in Id, NEW r, Stores(s, r) PROVE QuotaHolds'
    BY <2>2, StoresKeepsQuota
  <2>3. CASE Manage
    <3>1. ASSUME NEW s \in Id, Pause(s) \/ Cancel(s) PROVE QuotaHolds'
      BY <2>2, <3>1 DEF Pause, Cancel
    <3>2. ASSUME NEW s \in Id, NEW timing \in Timing, NEW now \in Time,
                 Create(s, timing, now) \/ Update(s, timing, now)
          PROVE  QuotaHolds'
      BY <2>2, <3>2 DEF Create, Update
    <3>3. ASSUME NEW s \in Id, NEW now \in Time, Resume(s, now) \/ Recover(s, now) PROVE QuotaHolds'
      BY <2>2, <3>3 DEF Resume, Recover
    <3>. QED
      BY <2>3, <3>1, <3>2, <3>3 DEF Manage
  <2>4. ASSUME NEW d \in Driver, Proceed(d) PROVE QuotaHolds'
    <3>1. job[d].of \in Id
      BY JobFields
    <3>2. CASE Fetch(d) \/ Admit(d)
      BY <2>1, <3>2 DEF Fetch, Admit, store
    <3>3. CASE Prepare(d) \/ DenyPreparation(d)
      BY <2>1, <2>2, <3>1, <3>3 DEF Prepare, DenyPreparation, Conflict, store
    <3>4. CASE Complete(d) \/ Refuse(d)
      BY <2>1, <2>2, <3>1, <3>4 DEF Complete, Refuse, Stale, Unavailable, store
    <3>5. CASE Retry(d)
      BY <2>1, <2>2, <3>1, <3>5 DEF Retry, store
    <3>. QED
      BY <2>4, <3>2, <3>3, <3>4, <3>5 DEF Proceed
  <2>5. ASSUME NEW d \in Driver, NEW s \in Id, Begin(d, s) PROVE QuotaHolds'
    BY <2>1, <2>5 DEF Begin, store
  <2>6. ASSUME NEW d \in Driver, Stop(d) PROVE QuotaHolds'
    BY <2>1, <2>6 DEF Stop, store
  <2>7. CASE Tick \/ UNCHANGED vars
    BY <2>1, <2>7 DEF Tick, vars, store
  <2>. QED
    BY <2>3, <2>4, <2>5, <2>6, <2>7 DEF Next
<1>. QED
  BY <1>1, <1>2, TypeCorrect, PTL DEF Spec
=============================================================================
