------------------------ MODULE MessageDeliveryProofs ------------------------
(***************************************************************************)
(* Theorems about MessageDelivery, for every set of messages and drivers    *)
(* and every policy.                                                        *)
(***************************************************************************)
EXTENDS MessageDelivery, FiniteSetTheorems, TLAPS

LEMMA Limits ==
  /\ None \notin Nat /\ Message # {}
  /\ MaxPending \in Nat /\ MaxAutomatic \in Nat /\ Attempt \in Nat /\ RetryBase \in Nat
  /\ RetryMax \in Nat /\ Poll \in Nat /\ Lifetime \in Nat
  /\ Horizon \in Nat /\ MaxStop \in Nat /\ MaxRecovery \in Nat /\ MaxTurn \in Nat
BY MessageDeliveryConstants

LEMMA LeastType == \A a, b \in Int : Least(a, b) \in {a, b} /\ Least(a, b) <= a /\ Least(a, b) <= b
BY DEF Least

-----------------------------------------------------------------------------
(***************************************************************************)
(* The changes of a record.  What a status says of the other fields holds   *)
(* of every stored row, and a change keeps it.                              *)
(***************************************************************************)
Sane(r) ==
  /\ r.lease # None => Live(r) /\ r.lease <= r.deadline
  /\ r.status = "accepted" => r.receipt
  /\ r.status = "pending" => ~r.receipt
  /\ r.status = "absent" => r.version = 0 /\ ~r.receipt
  /\ r.status = "refused" => ~r.receipt

\* What all of them do: a new version, and what was heard is not forgotten.
Changed(r, q) ==
  /\ q \in Record /\ Sane(q)
  /\ q.version = r.version + 1
  /\ q.status # "absent"
  /\ r.receipt => q.receipt

LEMMA RecordFields ==
  ASSUME NEW r \in Record
  PROVE  /\ r.status \in {"absent", "pending", "accepted", "processed", "refused", "parked"}
         /\ r.version \in Nat /\ r.receipt \in BOOLEAN /\ r.lease \in Nat \cup {None}
         /\ r.deadline \in Nat /\ r.automatic \in 0..MaxAutomatic /\ r.automatic \in Nat
         /\ r.next \in Nat /\ r.generation \in 0..MaxRecovery
<1>1. MaxAutomatic \in Nat
  BY Limits
<1>. QED
  BY <1>1 DEF Record

LEMMA ParkingEffect ==
  ASSUME NEW r \in Record, r.status # "absent"
  PROVE  /\ Changed(r, Parking(r))
         /\ Parking(r).status = "parked" /\ Parking(r).receipt = r.receipt
<1>1. Bumped(r) \in Record /\ Bumped(r).version = r.version + 1 /\ Bumped(r).receipt = r.receipt
  BY DEF Bumped, Record
<1>2. /\ Parking(r) \in Record /\ Parking(r).version = Bumped(r).version
      /\ Parking(r).receipt = Bumped(r).receipt
      /\ Parking(r).status = "parked" /\ Parking(r).lease = None
  BY <1>1 DEF Parking, Record
<1>. QED
  BY <1>1, <1>2 DEF Changed, Sane

LEMMA DeferralEffect ==
  ASSUME NEW r \in Record, r.status = "pending", Sane(r), NEW now \in Nat
  PROVE  /\ Changed(r, Deferral(r, now))
         /\ Deferral(r, now).status \in {"pending", "parked"}
         /\ Deferral(r, now).receipt = r.receipt
<1>1. CASE now >= r.deadline
  BY <1>1, ParkingEffect DEF Deferral
<1>2. CASE ~(now >= r.deadline)
  <2>0. Least(now + Poll, r.deadline) \in Nat
    BY Limits, RecordFields DEF Least
  <2>1. /\ Bumped(r) \in Record /\ Bumped(r).version = r.version + 1
        /\ Bumped(r).receipt = r.receipt /\ Bumped(r).status = r.status
    BY DEF Bumped, Record
  <2>2. \A n \in Nat :
          /\ [Bumped(r) EXCEPT !.lease = None, !.next = n] \in Record
          /\ [Bumped(r) EXCEPT !.lease = None, !.next = n].version = Bumped(r).version
          /\ [Bumped(r) EXCEPT !.lease = None, !.next = n].receipt = Bumped(r).receipt
          /\ [Bumped(r) EXCEPT !.lease = None, !.next = n].status = Bumped(r).status
          /\ [Bumped(r) EXCEPT !.lease = None, !.next = n].lease = None
    BY <2>1 DEF Record
  <2>3. /\ Deferral(r, now) \in Record /\ Deferral(r, now).version = r.version + 1
        /\ Deferral(r, now).receipt = r.receipt /\ Deferral(r, now).status = r.status
        /\ Deferral(r, now).lease = None
    BY <1>2, <2>0, <2>1, <2>2 DEF Deferral
  <2>. QED
    BY <2>3 DEF Changed, Sane
<1>. QED
  BY <1>1, <1>2

Reopened(b, s, n, g, a, t) ==
  [b EXCEPT !.status = s, !.deadline = n, !.generation = g, !.automatic = a, !.next = t]
LEMMA ReopenedFields ==
  ASSUME NEW b \in Record, NEW s, NEW n, NEW g, NEW a, NEW t
  PROVE  /\ Reopened(b, s, n, g, a, t).version = b.version
         /\ Reopened(b, s, n, g, a, t).receipt = b.receipt
         /\ Reopened(b, s, n, g, a, t).lease = b.lease
         /\ Reopened(b, s, n, g, a, t).status = s
BY DEF Record, Reopened
LEMMA ReopenedRecord ==
  ASSUME NEW b \in Record, NEW g \in 0..MaxRecovery, NEW n \in Nat, NEW a \in 0..MaxAutomatic,
         NEW s \in {"accepted", "pending"}, NEW t \in Nat
  PROVE  Reopened(b, s, n, g, a, t) \in Record
<1>1. CASE s = "accepted"
  BY <1>1 DEF Record, Reopened
<1>2. CASE s = "pending"
  BY <1>2 DEF Record, Reopened
<1>. QED
  BY <1>1, <1>2

LEMMA RecoveryEffect ==
  ASSUME NEW r \in Record, r.status = "parked", Sane(r), r.generation < MaxRecovery,
         NEW now \in Nat
  PROVE  /\ Changed(r, Recovery(r, now))
         /\ Recovery(r, now).status \in {"pending", "accepted"}
         /\ Recovery(r, now).receipt = r.receipt
<1>1. /\ Bumped(r) \in Record /\ Bumped(r).version = r.version + 1
      /\ Bumped(r).receipt = r.receipt /\ Bumped(r).lease = r.lease
      /\ Bumped(r).generation = r.generation
  BY DEF Bumped, Record
<1>2. r.lease = None
  BY DEF Sane, Live
<1>3. r.generation + 1 \in 0..MaxRecovery /\ 0 \in 0..MaxAutomatic /\ now + Lifetime \in Nat
  BY Limits, RecordFields
<1>4. CASE r.receipt
  <2>1. Recovery(r, now) =
          Reopened(Bumped(r), "accepted", now + Lifetime, r.generation + 1, 0, now)
    BY <1>1, <1>4 DEF Recovery, Reopened
  <2>2. Recovery(r, now) \in Record
    BY <1>1, <1>3, <2>1, ReopenedRecord
  <2>3. /\ Recovery(r, now).version = Bumped(r).version /\ Recovery(r, now).status = "accepted"
        /\ Recovery(r, now).receipt = Bumped(r).receipt /\ Recovery(r, now).lease = Bumped(r).lease
    BY <1>1, <2>1, ReopenedFields
  <2>. QED
    BY <1>1, <1>2, <1>4, <2>2, <2>3 DEF Changed, Sane
<1>5. CASE ~r.receipt
  <2>1. Recovery(r, now) =
          Reopened(Bumped(r), "pending", now + Lifetime, r.generation + 1, 0, now)
    BY <1>1, <1>5 DEF Recovery, Reopened
  <2>2. Recovery(r, now) \in Record
    BY <1>1, <1>3, <2>1, ReopenedRecord
  <2>3. /\ Recovery(r, now).version = Bumped(r).version /\ Recovery(r, now).status = "pending"
        /\ Recovery(r, now).receipt = Bumped(r).receipt /\ Recovery(r, now).lease = Bumped(r).lease
    BY <1>1, <2>1, ReopenedFields
  <2>. QED
    BY <1>1, <1>2, <1>5, <2>2, <2>3 DEF Changed, Sane
<1>. QED
  BY <1>4, <1>5

LEMMA ClaimedEffect ==
  ASSUME NEW r \in Record, Live(r), Sane(r), NEW now \in Nat
  PROVE  /\ Changed(r, Claimed(r, now))
         /\ Claimed(r, now).receipt = r.receipt
         /\ Spent(r, now) => Claimed(r, now).status = "parked"
         /\ ~Spent(r, now) =>
              Claimed(r, now).status = r.status /\ Claimed(r, now).lease \in Nat
<1>0. r.status \in {"pending", "accepted"}
  BY DEF Live
<1>1. CASE Spent(r, now)
  BY <1>0, <1>1, ParkingEffect DEF Claimed
<1>2. CASE ~Spent(r, now)
  <2>1. /\ Bumped(r) \in Record /\ Bumped(r).version = r.version + 1
        /\ Bumped(r).receipt = r.receipt /\ Bumped(r).status = r.status
        /\ Bumped(r).automatic = r.automatic /\ Bumped(r).deadline = r.deadline
    BY DEF Bumped, Record
  <2>2. r.automatic + 1 \in 0..MaxAutomatic
    BY <1>2, Limits, RecordFields DEF Spent
  <2>3. /\ Least(now + Attempt, r.deadline) \in Nat
        /\ Least(now + Attempt, r.deadline) <= r.deadline
    BY Limits, RecordFields DEF Least
  <2>. DEFINE u(l, a) == [Bumped(r) EXCEPT !.lease = l, !.automatic = a]
  <2>4. \A l \in Nat, a \in 0..MaxAutomatic :
          /\ u(l, a) \in Record /\ u(l, a).version = Bumped(r).version
          /\ u(l, a).receipt = Bumped(r).receipt /\ u(l, a).status = Bumped(r).status
          /\ u(l, a).lease = l /\ u(l, a).deadline = Bumped(r).deadline
    BY <2>1 DEF Record
  <2>5. Claimed(r, now) = u(Least(now + Attempt, r.deadline), r.automatic + 1)
    BY <1>2, <2>1 DEF Claimed
  <2>. HIDE DEF u
  <2>6. /\ Claimed(r, now) \in Record /\ Claimed(r, now).version = r.version + 1
        /\ Claimed(r, now).receipt = r.receipt /\ Claimed(r, now).status = r.status
        /\ Claimed(r, now).lease \in Nat /\ Claimed(r, now).lease <= Claimed(r, now).deadline
    BY <2>1, <2>2, <2>3, <2>4, <2>5
  <2>. QED
    BY <1>0, <1>2, <2>6, RecordFields DEF Changed, Sane, Live
<1>. QED
  BY <1>1, <1>2

LEMMA AcceptanceEffect ==
  ASSUME NEW r \in Record, Live(r), NEW now \in Nat
  PROVE  /\ Changed(r, Acceptance(r, now))
         /\ Acceptance(r, now).status = "accepted" /\ Acceptance(r, now).receipt
         /\ Acceptance(r, now).lease = None
<1>1. /\ Bumped(r) \in Record /\ Bumped(r).version = r.version + 1
  BY DEF Bumped, Record
<1>2. Least(now + Poll, r.deadline) \in Nat /\ 0 \in 0..MaxAutomatic
  BY Limits, RecordFields DEF Least
<1>. DEFINE u(a, n) == [Bumped(r) EXCEPT !.status = "accepted", !.receipt = TRUE, !.lease = None,
                                         !.automatic = a, !.next = n]
<1>3. \A a \in 0..MaxAutomatic, n \in Nat :
        /\ u(a, n) \in Record /\ u(a, n).version = Bumped(r).version
        /\ u(a, n).status = "accepted" /\ u(a, n).receipt = TRUE /\ u(a, n).lease = None
  BY <1>1 DEF Record
<1>4. Acceptance(r, now) = u(0, Least(now + Poll, r.deadline))
  BY DEF Acceptance
<1>. HIDE DEF u
<1>. QED
  BY <1>1, <1>2, <1>3, <1>4 DEF Changed, Sane

LEMMA RefusalEffect ==
  ASSUME NEW r \in Record, r.status = "pending", Sane(r)
  PROVE  /\ Changed(r, Refusal(r))
         /\ Refusal(r).status = "refused" /\ ~Refusal(r).receipt
<1>1. /\ Bumped(r) \in Record /\ Bumped(r).version = r.version + 1 /\ Bumped(r).receipt = r.receipt
  BY DEF Bumped, Record
<1>2. /\ Refusal(r) \in Record /\ Refusal(r).version = Bumped(r).version
      /\ Refusal(r).receipt = Bumped(r).receipt
      /\ Refusal(r).status = "refused" /\ Refusal(r).lease = None
  BY <1>1 DEF Refusal, Record
<1>. QED
  BY <1>1, <1>2 DEF Changed, Sane

LEMMA ProcessingEffect ==
  ASSUME NEW r \in Record
  PROVE  /\ Changed(r, Processing(r))
         /\ Processing(r).status = "processed" /\ Processing(r).receipt
<1>1. /\ Bumped(r) \in Record /\ Bumped(r).version = r.version + 1
  BY DEF Bumped, Record
<1>2. /\ Processing(r) \in Record /\ Processing(r).version = Bumped(r).version
      /\ Processing(r).receipt = TRUE
      /\ Processing(r).status = "processed" /\ Processing(r).lease = None
  BY <1>1 DEF Processing, Record
<1>. QED
  BY <1>1, <1>2 DEF Changed, Sane

LEMMA RetryingEffect ==
  ASSUME NEW r \in Record, Live(r), Sane(r), NEW now \in Nat
  PROVE  /\ Changed(r, Retrying(r, now))
         /\ Retrying(r, now).receipt = r.receipt
         /\ Retrying(r, now).status \in {r.status, "parked"}
<1>0. r.status \in {"pending", "accepted"}
  BY DEF Live
<1>1. CASE Spent(r, now)
  BY <1>0, <1>1, ParkingEffect DEF Retrying
<1>2. CASE ~Spent(r, now)
  <2>1. /\ Bumped(r) \in Record /\ Bumped(r).version = r.version + 1
        /\ Bumped(r).receipt = r.receipt /\ Bumped(r).status = r.status
    BY DEF Bumped, Record
  <2>. DEFINE delay == IF r.status = "accepted" THEN Poll ELSE Backoff(r)
              u(n) == [Bumped(r) EXCEPT !.lease = None, !.next = n]
  <2>2. delay \in Nat
    BY Limits DEF Backoff
  <2>3. Least(now + delay, r.deadline) \in Nat
    BY <2>2, RecordFields DEF Least
  <2>4. \A n \in Nat :
          /\ u(n) \in Record /\ u(n).version = Bumped(r).version
          /\ u(n).receipt = Bumped(r).receipt /\ u(n).status = Bumped(r).status
          /\ u(n).lease = None
    BY <2>1 DEF Record
  <2>5. Retrying(r, now) = u(Least(now + delay, r.deadline))
    BY <1>2 DEF Retrying
  <2>. HIDE DEF u, delay
  <2>6. /\ Retrying(r, now) \in Record /\ Retrying(r, now).version = r.version + 1
        /\ Retrying(r, now).receipt = r.receipt /\ Retrying(r, now).status = r.status
        /\ Retrying(r, now).lease = None
    BY <2>1, <2>3, <2>4, <2>5
  <2>. QED
    BY <1>0, <2>6, RecordFields DEF Changed, Sane
<1>. QED
  BY <1>1, <1>2

-----------------------------------------------------------------------------
(***************************************************************************)
(* What the state says of the calls.  A call that has claimed its row has   *)
(* its lease in hand until the row moves on, and the row moves on only when *)
(* the lease is over or the source is told of the settlement.               *)
(***************************************************************************)
InHand == {"sign", "send", "ask", "heard"}
Holds == InHand \cup {"park"}

RowsSane == \A m \in Message : Sane(row[m])

Holder(c, r) ==
  /\ Live(r) /\ r.lease # None /\ c.until <= r.lease
  /\ c.at = "sign" => (c.asks <=> r.status = "accepted")
  /\ c.at = "send" \/ (c.at = "heard" /\ c.reply \in {"receipt", "refused"}) =>
       r.status = "pending"
CallOk(c, r) ==
  c.at # "idle" =>
    /\ c.now <= clock /\ c.version <= r.version /\ r.status # "absent"
    /\ c.at \in InHand =>
         /\ c.version = r.version => Holder(c, r)
         /\ c.version < r.version => c.until <= clock \/ r.status = "processed"
Leases == \A d \in Driver : CallOk(call[d], row[call[d].of])

Disjoint(c, b) ==
  c.of = b.of /\ c.at \in Holds /\ b.at \in Holds =>
    /\ c.version # b.version
    /\ c.at \in InHand /\ c.version < b.version => c.until <= clock
Apart == \A d, e \in Driver : d # e => Disjoint(call[d], call[e])

LeaseInv == TypeOK /\ RowsSane /\ Leases /\ Apart

\* What the destination has done when a call has heard of it.
Heard ==
  \A d \in Driver :
    call[d].at = "heard" =>
      /\ call[d].reply = "receipt" => dest[call[d].of] # "none"
      /\ call[d].reply = "settled" => dest[call[d].of] = "final"
TruthInv == SourceIsTrue /\ Heard

Clear(m) ==
  \E i \in 1..Len(journal) :
    journal[i] = m /\ \A j \in 1..(i - 1) : Resolved(journal[j])
Distinct == \A i, j \in 1..Len(journal) : journal[i] = journal[j] => i = j
Drafts ==
  \A m \in Message :
    draft[m] # None => draft[m] <= Len(journal) /\ \A i \in 1..draft[m] : journal[i] # m
RowsAccepted == \A m \in Message : row[m].status # "absent" => m \in Accepted
Prefix ==
  \A i, j \in 1..Len(journal) : i < j /\ Resolved(journal[j]) => Resolved(journal[i])
ClearSent ==
  /\ \A m \in Message : dest[m] # "none" => Clear(m)
  /\ \A m \in wire : Clear(m)
  /\ \A d \in Driver : call[d].at \notin {"idle", "order", "defer"} => Clear(call[d].of)
OrderInv == Distinct /\ Drafts /\ RowsAccepted /\ Prefix /\ ClearSent

Capacity ==
  /\ IsFiniteSet(Occupied) /\ Cardinality(Occupied) <= MaxPending
  /\ \A m \in Message : draft[m] = Len(journal) => Cardinality(Occupied) < MaxPending

-----------------------------------------------------------------------------
LEMMA CallFields ==
  ASSUME NEW c \in Call
  PROVE  /\ c.at \in {"idle", "order", "defer", "claim", "sign", "send", "ask", "heard", "park"}
         /\ c.of \in Message /\ c.version \in Nat /\ c.asks \in BOOLEAN /\ c.now \in Nat
         /\ c.now \in Time /\ c.until \in Nat /\ c.reply \in Reply
BY Limits DEF Call, Time

LEMMA NoCallType == NoCall \in Call /\ NoCall.at = "idle"
<1>1. Someone \in Message
  BY Limits DEF Someone
<1>2. 0 \in Time /\ None \in Reply
  BY Limits DEF Time, Reply
<1>. QED
  BY <1>1, <1>2 DEF NoCall, Call

\* The call that goes on with a row.
Held(m, step, v, a, u) ==
  [NoCall EXCEPT !.at = step, !.of = m, !.version = v, !.asks = a, !.until = u]
LEMMA HeldType ==
  ASSUME NEW m \in Message, NEW step \in {"sign", "park"}, NEW v \in Nat, NEW a \in BOOLEAN,
         NEW u \in Nat
  PROVE  /\ Held(m, step, v, a, u) \in Call
         /\ Held(m, step, v, a, u).at = step /\ Held(m, step, v, a, u).of = m
         /\ Held(m, step, v, a, u).version = v /\ Held(m, step, v, a, u).now = 0
         /\ Held(m, step, v, a, u).asks = a /\ Held(m, step, v, a, u).until = u
<1>1. NoCall \in Call /\ NoCall.now = 0
  BY NoCallType DEF NoCall
<1>2. CASE step = "sign"
  BY <1>1, <1>2 DEF Call, Held
<1>3. CASE step = "park"
  BY <1>1, <1>3 DEF Call, Held
<1>. QED
  BY <1>2, <1>3

LEMMA HoldingType ==
  ASSUME NEW m \in Message, NEW step \in {"sign", "park"}, row'[m] \in Record
  PROVE  /\ Holding(m, step) \in Call
         /\ Holding(m, step).at = step /\ Holding(m, step).of = m
         /\ Holding(m, step).version = row'[m].version /\ Holding(m, step).now = 0
         /\ Holding(m, step).asks = (row'[m].status = "accepted")
         /\ row'[m].lease # None => Holding(m, step).until = row'[m].lease
<1>. DEFINE u == IF row'[m].lease = None THEN 0 ELSE row'[m].lease
            a == row'[m].status = "accepted"
            v == row'[m].version
<1>1. u \in Nat /\ v \in Nat /\ a \in BOOLEAN
  BY DEF Record
<1>2. Holding(m, step) = Held(m, step, v, a, u)
  BY DEF Holding, Held
<1>3. row'[m].lease # None => u = row'[m].lease
  OBVIOUS
<1>. HIDE DEF u, v, a
<1>4. /\ Holding(m, step) \in Call
      /\ Holding(m, step).at = step /\ Holding(m, step).of = m
      /\ Holding(m, step).version = v /\ Holding(m, step).now = 0
      /\ Holding(m, step).asks = a /\ Holding(m, step).until = u
  BY <1>1, <1>2, HeldType
<1>. QED
  BY <1>3, <1>4 DEF v, a

\* The calls that a change of the row leaves where they are.
LEMMA Superseded ==
  ASSUME TypeOK, NEW e \in Driver, CallOk(call[e], row[call[e].of]),
         call'[e] = call[e], clock' = clock,
         NEW m \in Message, NEW q, Changed(row[m], q), row' = [row EXCEPT ![m] = q],
         row[m].status # "processed",
         call[e].of = m /\ call[e].at \in InHand /\ call[e].version = row[m].version
           => call[e].until <= clock \/ q.status = "processed"
  PROVE  CallOk(call[e], row[call[e].of])'
<1>1. /\ call[e].of \in Message /\ call[e].version \in Nat /\ row[m].version \in Nat
      /\ row \in [Message -> Record]
  BY CallFields, RecordFields DEF TypeOK
<1>2. CASE call[e].of # m
  BY <1>1, <1>2 DEF CallOk, Holder
<1>3. CASE call[e].of = m
  <2>1. row'[m] = q /\ q.version = row[m].version + 1 /\ q.status # "absent"
    BY <1>1 DEF Changed
  <2>. QED
    BY <1>1, <1>3, <2>1 DEF CallOk
<1>. QED
  BY <1>2, <1>3

LEMMA RowsSaneStep ==
  ASSUME TypeOK, RowsSane, NEW m \in Message, NEW q, Changed(row[m], q),
         row' = [row EXCEPT ![m] = q]
  PROVE  RowsSane'
BY DEF TypeOK, RowsSane, Changed

\* A step of one driver that leaves the rows alone.
LEMMA CallMove ==
  ASSUME LeaseInv, NEW d \in Driver, NEW c \in Call, call' = [call EXCEPT ![d] = c],
         row' = row, clock' = clock, CallOk(c, row[c.of]),
         \A e \in Driver \ {d} : Disjoint(c, call[e]) /\ Disjoint(call[e], c)
  PROVE  RowsSane' /\ Leases' /\ Apart'
<1>0. call \in [Driver -> Call]
  BY DEF LeaseInv, TypeOK
<1>1. RowsSane'
  BY DEF LeaseInv, RowsSane
<1>2. ASSUME NEW e \in Driver
      PROVE  CallOk(call[e], row[call[e].of])'
  <2>1. CASE e = d
    <3>1. call'[e] = c
      BY <1>0, <2>1
    <3>. QED
      BY <3>1 DEF CallOk, Holder
  <2>2. CASE e # d
    <3>1. call'[e] = call[e] /\ CallOk(call[e], row[call[e].of])
      BY <1>0, <2>2 DEF LeaseInv, Leases
    <3>. QED
      BY <3>1 DEF CallOk, Holder
  <2>. QED
    BY <2>1, <2>2
<1>3. ASSUME NEW e \in Driver, NEW f \in Driver, e # f
      PROVE  Disjoint(call[e], call[f])'
  <2>0. Disjoint(call[e], call[f])
    BY <1>3 DEF LeaseInv, Apart
  <2>1. /\ call'[e] = (IF e = d THEN c ELSE call[e])
        /\ call'[f] = (IF f = d THEN c ELSE call[f])
    BY <1>0
  <2>2. Disjoint(call'[e], call'[f])
    BY <1>3, <2>0, <2>1
  <2>. QED
    BY <2>2 DEF Disjoint
<1>. QED
  BY <1>1, <1>2, <1>3 DEF Leases, Apart

\* A step that changes one row, with the call of the driver that takes it, if one does.
LEMMA RowMove ==
  ASSUME LeaseInv, NEW m \in Message, NEW q, Changed(row[m], q), row' = [row EXCEPT ![m] = q],
         row[m].status # "processed", clock' = clock,
         NEW D \in SUBSET Driver, NEW c \in Call,
         \A d, e \in D : d = e,
         call' = [e \in Driver |-> IF e \in D THEN c ELSE call[e]],
         c.at # "idle" => c.of = m /\ CallOk(c, q),
         \A e \in Driver \ D :
           /\ call[e].of = m /\ call[e].at \in InHand /\ call[e].version = row[m].version
                => call[e].until <= clock \/ q.status = "processed"
           /\ D # {} => Disjoint(c, call[e]) /\ Disjoint(call[e], c)
  PROVE  RowsSane' /\ Leases' /\ Apart'
<1>0. call \in [Driver -> Call] /\ row \in [Message -> Record] /\ TypeOK /\ RowsSane
  BY DEF LeaseInv, TypeOK
<1>1. RowsSane'
  BY <1>0, RowsSaneStep
<1>2. ASSUME NEW e \in Driver
      PROVE  CallOk(call[e], row[call[e].of])'
  <2>1. CASE e \in D
    <3>1. call'[e] = c /\ row'[m] = q
      BY <1>0, <2>1
    <3>. QED
      BY <3>1 DEF CallOk, Holder
  <2>2. CASE e \notin D
    <3>1. call'[e] = call[e] /\ CallOk(call[e], row[call[e].of])
      BY <1>0, <2>2 DEF LeaseInv, Leases
    <3>. QED
      BY <1>0, <2>2, <3>1, Superseded
  <2>. QED
    BY <2>1, <2>2
<1>3. ASSUME NEW e \in Driver, NEW f \in Driver, e # f
      PROVE  Disjoint(call[e], call[f])'
  <2>0. Disjoint(call[e], call[f])
    BY <1>3 DEF LeaseInv, Apart
  <2>1. /\ call'[e] = (IF e \in D THEN c ELSE call[e])
        /\ call'[f] = (IF f \in D THEN c ELSE call[f])
        /\ ~(e \in D /\ f \in D)
    BY <1>0, <1>3
  <2>2. Disjoint(call'[e], call'[f])
    BY <1>3, <2>0, <2>1
  <2>. QED
    BY <2>2 DEF Disjoint
<1>. QED
  BY <1>1, <1>2, <1>3 DEF Leases, Apart

-----------------------------------------------------------------------------
\* The steps that change no row.
LEMMA Elsewhere ==
  ASSUME LeaseInv, UNCHANGED <<row, call, clock>>
  PROVE  RowsSane' /\ Leases' /\ Apart'
BY DEF LeaseInv, RowsSane, Leases, Apart, CallOk, Holder, Disjoint

LEMMA TickKeeps ==
  ASSUME LeaseInv, Tick
  PROVE  RowsSane' /\ Leases' /\ Apart'
<1>0. call \in [Driver -> Call] /\ clock \in Nat
  BY Limits DEF LeaseInv, TypeOK, Time
<1>1. row' = row /\ call' = call /\ clock' = clock + 1
  BY DEF Tick
<1>2. RowsSane'
  BY <1>1 DEF LeaseInv, RowsSane
<1>3. ASSUME NEW e \in Driver
      PROVE  CallOk(call[e], row[call[e].of])'
  <2>1. CallOk(call[e], row[call[e].of]) /\ call[e].now \in Nat /\ call[e].until \in Nat
    BY <1>0, CallFields DEF LeaseInv, Leases
  <2>. QED
    BY <1>0, <1>1, <2>1 DEF CallOk, Holder
<1>4. ASSUME NEW e \in Driver, NEW f \in Driver, e # f
      PROVE  Disjoint(call[e], call[f])'
  <2>1. Disjoint(call[e], call[f]) /\ call[e].until \in Nat
    BY <1>0, <1>4, CallFields DEF LeaseInv, Apart
  <2>. QED
    BY <1>0, <1>1, <2>1 DEF Disjoint
<1>. QED
  BY <1>2, <1>3, <1>4 DEF Leases, Apart

\* A call without a lease excludes no other.
LEMMA Unheld ==
  ASSUME LeaseInv, NEW d \in Driver, NEW c \in Call, call' = [call EXCEPT ![d] = c],
         row' = row, clock' = clock, c.at \notin Holds, CallOk(c, row[c.of])
  PROVE  RowsSane' /\ Leases' /\ Apart'
<1>1. \A e \in Driver \ {d} : Disjoint(c, call[e]) /\ Disjoint(call[e], c)
  BY DEF Disjoint
<1>. QED
  BY <1>1, CallMove

LEMMA IdleKeeps ==
  ASSUME LeaseInv, NEW d \in Driver, Idle(d), row' = row, clock' = clock
  PROVE  RowsSane' /\ Leases' /\ Apart'
<1>1. NoCall \in Call /\ NoCall.at \notin Holds /\ CallOk(NoCall, row[NoCall.of])
  BY NoCallType DEF Holds, InHand, CallOk
<1>. QED
  BY <1>1, Unheld DEF Idle

\* A call that goes on with the lease it has.
LEMMA Onward ==
  ASSUME LeaseInv, NEW d \in Driver, NEW c \in Call, call' = [call EXCEPT ![d] = c],
         row' = row, clock' = clock,
         c.of = call[d].of, c.version = call[d].version, c.now = call[d].now,
         c.until <= call[d].until, call[d].at \in InHand, c.at \in InHand,
         c.version = row[c.of].version /\ Holder(call[d], row[c.of]) => Holder(c, row[c.of])
  PROVE  RowsSane' /\ Leases' /\ Apart'
<1>0. /\ call[d] \in Call /\ clock \in Nat /\ call \in [Driver -> Call]
      /\ c.until \in Nat /\ call[d].until \in Nat
  BY CallFields, Limits DEF LeaseInv, TypeOK, Time
<1>1. CallOk(call[d], row[c.of])
  BY DEF LeaseInv, Leases
<1>2. call[d].at # "idle" /\ c.at # "idle" /\ call[d].at \in Holds /\ c.at \in Holds
  BY DEF InHand, Holds
<1>3. CallOk(c, row[c.of])
  BY <1>0, <1>1, <1>2 DEF CallOk
<1>4. ASSUME NEW e \in Driver \ {d}
      PROVE  Disjoint(c, call[e]) /\ Disjoint(call[e], c)
  <2>1. Disjoint(call[d], call[e]) /\ Disjoint(call[e], call[d])
    BY <1>4 DEF LeaseInv, Apart
  <2>. QED
    BY <1>0, <1>2, <2>1 DEF Disjoint
<1>. QED
  BY <1>3, <1>4, CallMove

LEMMA AnswersKeeps ==
  ASSUME LeaseInv, NEW d \in Driver, call[d].at \in {"send", "ask"}, NEW reply \in Reply,
         reply \in {"receipt", "refused"} => call[d].at = "send",
         Answers(d, reply), row' = row, clock' = clock
  PROVE  RowsSane' /\ Leases' /\ Apart'
<1>. DEFINE c == [call[d] EXCEPT !.at = "heard", !.reply = reply]
<1>0. call[d] \in Call /\ call \in [Driver -> Call]
  BY DEF LeaseInv, TypeOK
<1>1. /\ c \in Call /\ c.at = "heard" /\ c.reply = reply /\ c.of = call[d].of
      /\ c.version = call[d].version /\ c.now = call[d].now /\ c.until = call[d].until
      /\ c.asks = call[d].asks
  BY <1>0 DEF Call
<1>2. call' = [call EXCEPT ![d] = c]
  BY <1>0 DEF Answers
<1>3. c.until \in Nat
  BY <1>1, CallFields
<1>. HIDE DEF c
<1>4. call[d].at \in InHand /\ c.at \in InHand
  BY <1>1 DEF InHand
<1>5. Holder(call[d], row[c.of]) => Holder(c, row[c.of])
  BY <1>1 DEF Holder
<1>6. c.until <= call[d].until
  BY <1>1, <1>3
<1>. QED
  BY <1>1, <1>2, <1>4, <1>5, <1>6, Onward

LEMMA StartKeeps ==
  ASSUME LeaseInv, NEW d \in Driver, NEW m \in Message, Start(d, m)
  PROVE  RowsSane' /\ Leases' /\ Apart' /\ call' \in [Driver -> Call]
<1>0. /\ call \in [Driver -> Call] /\ row[m] \in Record /\ clock \in Time /\ clock \in Nat
      /\ NoCall \in Call
  BY NoCallType, Limits DEF LeaseInv, TypeOK, Time
<1>. DEFINE at == IF row[m].status = "pending" /\ \E p \in Accepted : Follows(m, p)
                  THEN "order" ELSE "claim"
            c(a, v) == [NoCall EXCEPT !.at = a, !.of = m, !.version = v, !.now = clock]
<1>1. \A v \in Nat, a \in {"order", "claim"} :
        /\ c(a, v) \in Call /\ c(a, v).at = a /\ c(a, v).of = m
        /\ c(a, v).version = v /\ c(a, v).now = clock
  <2>1. \A v \in Nat : c("order", v) \in Call /\ c("claim", v) \in Call
    BY <1>0 DEF Call
  <2>. QED
    BY <1>0, <2>1 DEF Call
<1>2. call' = [call EXCEPT ![d] = c(at, row[m].version)] /\ row' = row /\ clock' = clock
  BY DEF Start
<1>3. row[m].version \in Nat /\ at \in {"order", "claim"} /\ row[m].status # "absent"
  BY <1>0, RecordFields DEF Start, Due, Live
<1>. DEFINE b == c(at, row[m].version)
<1>. HIDE DEF c, at
<1>4. b \in Call /\ b.at \in {"order", "claim"} /\ b.of = m /\ b.version = row[m].version
      /\ b.now = clock
  BY <1>1, <1>3
<1>. HIDE DEF b
<1>5. b.at \notin Holds /\ CallOk(b, row[b.of])
  BY <1>0, <1>3, <1>4 DEF CallOk, InHand, Holds
<1>. QED
  BY <1>0, <1>2, <1>4, <1>5, Unheld DEF b

LEMMA OrderKeeps ==
  ASSUME LeaseInv, NEW d \in Driver, Order(d)
  PROVE  RowsSane' /\ Leases' /\ Apart' /\ call' \in [Driver -> Call]
<1>0. call \in [Driver -> Call] /\ call[d] \in Call
  BY DEF LeaseInv, TypeOK
<1>1. PICK a \in {"claim", "defer"} : call' = [call EXCEPT ![d] = [call[d] EXCEPT !.at = a]]
  BY <1>0 DEF Order
<1>. DEFINE c == [call[d] EXCEPT !.at = a]
<1>2. /\ c \in Call /\ c.at = a /\ c.of = call[d].of /\ c.version = call[d].version
      /\ c.now = call[d].now
  <2>1. [call[d] EXCEPT !.at = "claim"] \in Call /\ [call[d] EXCEPT !.at = "defer"] \in Call
    BY <1>0 DEF Call
  <2>. QED
    BY <1>0, <2>1 DEF Call
<1>3. row' = row /\ clock' = clock /\ call[d].at = "order"
  BY DEF Order
<1>4. CallOk(call[d], row[call[d].of])
  BY DEF LeaseInv, Leases
<1>. HIDE DEF c
<1>5. c.at \notin Holds /\ CallOk(c, row[c.of])
  BY <1>2, <1>3, <1>4 DEF CallOk, InHand, Holds
<1>. QED
  BY <1>0, <1>1, <1>2, <1>3, <1>5, Unheld DEF c

LEMMA SignKeeps ==
  ASSUME LeaseInv, NEW d \in Driver, Sign(d)
  PROVE  RowsSane' /\ Leases' /\ Apart' /\ call' \in [Driver -> Call]
<1>. DEFINE limit == Least(Attempt, call[d].until - clock)
            step == IF call[d].asks THEN "ask" ELSE "send"
            c == [call[d] EXCEPT !.at = step, !.until = clock + limit]
<1>0. /\ call \in [Driver -> Call] /\ call[d] \in Call /\ clock \in Nat
      /\ call[d].until \in Nat /\ NoCall \in Call
  BY CallFields, NoCallType, Limits DEF LeaseInv, TypeOK, Time
<1>1. limit \in Int /\ limit <= call[d].until - clock
  BY <1>0, LeastType, Limits
<1>2. /\ call[d].at = "sign" /\ row' = row /\ clock' = clock
      /\ call' = [call EXCEPT ![d] = IF limit > 0 THEN c ELSE NoCall]
  BY <1>0 DEF Sign, Signing
<1>. HIDE DEF limit
<1>3. CASE limit > 0
  <2>1. clock + limit \in Nat /\ clock + limit <= call[d].until
    BY <1>0, <1>1, <1>3
  <2>. DEFINE u(a, n) == [call[d] EXCEPT !.at = a, !.until = n]
  <2>2. \A n \in Nat : u("ask", n) \in Call /\ u("send", n) \in Call
    BY <1>0 DEF Call
  <2>3. \A a, n : /\ u(a, n).at = a /\ u(a, n).until = n /\ u(a, n).of = call[d].of
                  /\ u(a, n).version = call[d].version /\ u(a, n).now = call[d].now
                  /\ u(a, n).asks = call[d].asks
    BY <1>0 DEF Call
  <2>4. c = u(step, clock + limit) /\ step \in {"ask", "send"}
    OBVIOUS
  <2>5. (step = "ask") <=> call[d].asks
    OBVIOUS
  <2>. HIDE DEF u, c, step
  <2>6. /\ c \in Call /\ c.at = step /\ c.until <= call[d].until /\ c.of = call[d].of
        /\ c.version = call[d].version /\ c.now = call[d].now /\ c.until \in Nat
    BY <2>1, <2>2, <2>3, <2>4
  <2>7. ASSUME Holder(call[d], row[c.of])
        PROVE  Holder(c, row[c.of])
    <3>1. row[c.of] \in Record
      BY <1>0, <2>6, CallFields DEF LeaseInv, TypeOK
    <3>2. row[c.of].lease \in Nat
      BY <2>7, <3>1, RecordFields DEF Holder
    <3>3. c.until <= row[c.of].lease
      BY <1>0, <2>6, <2>7, <3>2 DEF Holder
    <3>. QED
      BY <1>2, <2>4, <2>5, <2>6, <2>7, <3>3 DEF Holder, Live
  <2>8. call[d].at \in InHand /\ c.at \in InHand
    BY <1>2, <2>4, <2>6 DEF InHand
  <2>9. call' = [call EXCEPT ![d] = c]
    BY <1>2, <1>3
  <2>. QED
    BY <1>0, <1>2, <2>6, <2>7, <2>8, <2>9, Onward
<1>4. CASE ~(limit > 0)
  BY <1>0, <1>2, <1>4, IdleKeeps DEF Idle
<1>. QED
  BY <1>3, <1>4

LEMMA AnswersType ==
  ASSUME TypeOK, NEW d \in Driver, NEW reply \in Reply, Answers(d, reply)
  PROVE  call' \in [Driver -> Call]
<1>0. call[d] \in Call /\ call \in [Driver -> Call]
  BY DEF TypeOK
<1>1. [call[d] EXCEPT !.at = "heard", !.reply = reply] \in Call
  BY <1>0 DEF Call
<1>2. call' = [call EXCEPT ![d] = [call[d] EXCEPT !.at = "heard", !.reply = reply]]
  BY <1>0 DEF Answers
<1>. QED
  BY <1>0, <1>1, <1>2

LEMMA AttemptKeeps ==
  ASSUME LeaseInv, NEW d \in Driver, Send(d) \/ Ask(d) \/ TimeOut(d)
  PROVE  RowsSane' /\ Leases' /\ Apart' /\ call' \in [Driver -> Call]
<1>1. PICK reply \in Reply :
        /\ Answers(d, reply) /\ call[d].at \in {"send", "ask"}
        /\ reply \in {"receipt", "refused"} => call[d].at = "send"
  <2>1. CASE Send(d)
    BY <2>1 DEF Send, Reply
  <2>2. CASE Ask(d)
    BY <2>2 DEF Ask, Reply
  <2>3. CASE TimeOut(d)
    BY <2>3 DEF TimeOut, Reply
  <2>. QED
    BY <2>1, <2>2, <2>3
<1>2. row' = row /\ clock' = clock
  BY DEF Send, Ask, TimeOut
<1>. QED
  BY <1>1, <1>2, AnswersKeeps, AnswersType DEF LeaseInv

LEMMA IdleType ==
  ASSUME TypeOK, NEW d \in Driver, Idle(d)
  PROVE  call' \in [Driver -> Call]
BY NoCallType DEF TypeOK, Idle

\* The lease of a row that is due is over, so no call has a lease on it that is not.
LEMMA DueIsOver ==
  ASSUME NEW r \in Record, Sane(r), NEW now \in Nat, Due(r, now)
  PROVE  Live(r) /\ (r.lease # None => r.lease <= now)
<1>1. r.deadline \in Nat /\ r.lease \in Nat \cup {None} /\ r.next \in Nat
  BY RecordFields
<1>. QED
  BY <1>1 DEF Due, WakeAt, Least, Sane

LEMMA LeaseIsOver ==
  ASSUME LeaseInv, NEW e \in Driver, NEW m \in Message, call[e].of = m, call[e].at \in InHand,
         Live(row[m]), NEW now \in Nat, now <= clock, row[m].lease # None => row[m].lease <= now
  PROVE  call[e].until <= clock
<1>1. /\ clock \in Nat /\ call[e] \in Call /\ row[m] \in Record
  BY Limits DEF LeaseInv, TypeOK, Time
<1>2. /\ call[e].until \in Nat /\ call[e].version \in Nat /\ row[m].version \in Nat
      /\ row[m].lease \in Nat \cup {None}
  BY <1>1, CallFields, RecordFields
<1>3. CallOk(call[e], row[m]) /\ call[e].at # "idle" /\ row[m].status # "processed"
  BY DEF LeaseInv, Leases, InHand, Live
<1>4. CASE call[e].version = row[m].version
  BY <1>1, <1>2, <1>3, <1>4 DEF CallOk, Holder
<1>5. CASE call[e].version # row[m].version
  BY <1>1, <1>2, <1>3, <1>5 DEF CallOk
<1>. QED
  BY <1>4, <1>5

\* A row is changed by the call of one driver, which then is idle.
LEMMA LastMove ==
  ASSUME LeaseInv, NEW d \in Driver, Idle(d), NEW m \in Message, NEW q, Changed(row[m], q),
         row' = [row EXCEPT ![m] = q], row[m].status # "processed", clock' = clock,
         \A e \in Driver \ {d} :
           call[e].of = m /\ call[e].at \in InHand /\ call[e].version = row[m].version
             => call[e].until <= clock
  PROVE  RowsSane' /\ Leases' /\ Apart' /\ row' \in [Message -> Record]
<1>0. call \in [Driver -> Call] /\ row \in [Message -> Record]
  BY DEF LeaseInv, TypeOK
<1>1. NoCall \in Call /\ NoCall.at = "idle"
  BY NoCallType
<1>2. call' = [e \in Driver |-> IF e \in {d} THEN NoCall ELSE call[e]]
  BY <1>0 DEF Idle
<1>3. \A e \in Driver : Disjoint(NoCall, call[e]) /\ Disjoint(call[e], NoCall)
  BY <1>1 DEF Disjoint, Holds, InHand
<1>4. RowsSane' /\ Leases' /\ Apart'
  <2>. DEFINE D == {d}
  <2>1. D \in SUBSET Driver /\ (\A a, b \in D : a = b)
    OBVIOUS
  <2>2. \A e \in Driver \ D :
          /\ call[e].of = m /\ call[e].at \in InHand /\ call[e].version = row[m].version
               => call[e].until <= clock \/ q.status = "processed"
          /\ D # {} => Disjoint(NoCall, call[e]) /\ Disjoint(call[e], NoCall)
    BY <1>3
  <2>3. call' = [e \in Driver |-> IF e \in D THEN NoCall ELSE call[e]]
    BY <1>2
  <2>. HIDE DEF D
  <2>. QED
    BY <1>1, <2>1, <2>2, <2>3, RowMove, ZenonT(60)
<1>5. row' \in [Message -> Record]
  BY <1>0 DEF Changed
<1>. QED
  BY <1>4, <1>5

\* A row is changed by its owner or by the destination.
LEMMA OutsideMove ==
  ASSUME LeaseInv, NEW m \in Message, NEW q, Changed(row[m], q), call' = call,
         row' = [row EXCEPT ![m] = q], row[m].status # "processed", clock' = clock,
         \A e \in Driver :
           call[e].of = m /\ call[e].at \in InHand /\ call[e].version = row[m].version
             => q.status = "processed"
  PROVE  RowsSane' /\ Leases' /\ Apart' /\ row' \in [Message -> Record]
<1>0. call \in [Driver -> Call] /\ row \in [Message -> Record]
  BY DEF LeaseInv, TypeOK
<1>1. NoCall \in Call /\ NoCall.at = "idle"
  BY NoCallType
<1>2. call' = [e \in Driver |-> IF e \in {} THEN NoCall ELSE call[e]]
  BY <1>0
<1>3. RowsSane' /\ Leases' /\ Apart'
  <2>. DEFINE D == {}
  <2>1. D \in SUBSET Driver /\ (\A a, b \in D : a = b)
    OBVIOUS
  <2>2. \A e \in Driver \ D :
          /\ call[e].of = m /\ call[e].at \in InHand /\ call[e].version = row[m].version
               => call[e].until <= clock \/ q.status = "processed"
          /\ D # {} => Disjoint(NoCall, call[e]) /\ Disjoint(call[e], NoCall)
    OBVIOUS
  <2>3. call' = [e \in Driver |-> IF e \in D THEN NoCall ELSE call[e]]
    BY <1>2
  <2>. HIDE DEF D
  <2>. QED
    BY <1>1, <2>1, <2>2, <2>3, RowMove
<1>4. row' \in [Message -> Record]
  BY <1>0 DEF Changed
<1>. QED
  BY <1>3, <1>4

-----------------------------------------------------------------------------
\* The steps that change a row.
LEMMA RowTypes ==
  ASSUME LeaseInv, NEW m \in Message
  PROVE  row[m] \in Record /\ Sane(row[m]) /\ clock \in Nat
BY Limits DEF LeaseInv, TypeOK, RowsSane, Time

LEMMA CallOf ==
  ASSUME LeaseInv, NEW d \in Driver, call[d].at # "idle"
  PROVE  /\ call[d] \in Call /\ call[d].of \in Message /\ call[d].now \in Nat
         /\ call[d].now <= clock /\ CallOk(call[d], row[call[d].of])
<1>1. call[d] \in Call /\ CallOk(call[d], row[call[d].of])
  BY DEF LeaseInv, TypeOK, Leases
<1>. QED
  BY <1>1, CallFields DEF CallOk

LEMMA InsertKeeps ==
  ASSUME LeaseInv, NEW m \in Message, Insert(m)
  PROVE  RowsSane' /\ Leases' /\ Apart' /\ row' \in [Message -> Record]
<1>. DEFINE q == [Absent EXCEPT !.status = "pending", !.version = 1, !.next = born[m],
                               !.deadline = born[m] + Lifetime]
<1>1. born[m] \in Nat /\ born[m] + Lifetime \in Nat /\ 0 \in 0..MaxAutomatic
      /\ 0 \in 0..MaxRecovery
  BY Limits DEF LeaseInv, TypeOK, Time
<1>2. \A n, b \in Nat :
        LET x == [Absent EXCEPT !.status = "pending", !.version = 1, !.next = n, !.deadline = b]
        IN  /\ x \in Record /\ x.status = "pending" /\ x.version = 1 /\ x.lease = None
            /\ x.receipt = FALSE
  BY <1>1 DEF Absent, Record
<1>3. /\ q \in Record /\ q.status = "pending" /\ q.version = 1 /\ q.lease = None
      /\ q.receipt = FALSE
  BY <1>1, <1>2
<1>4. row' = [row EXCEPT ![m] = q] /\ row[m].status = "absent" /\ clock' = clock /\ call' = call
  BY DEF Insert
<1>. HIDE DEF q
<1>5. row[m].version = 0 /\ ~row[m].receipt
  BY <1>4, RowTypes DEF Sane
<1>6. Changed(row[m], q)
  BY <1>3, <1>5 DEF Changed, Sane
<1>7. ASSUME NEW e \in Driver, call[e].of = m, call[e].at \in InHand
      PROVE  FALSE
  BY <1>4, <1>7, CallOf DEF CallOk, InHand
<1>. QED
  BY <1>4, <1>6, <1>7, OutsideMove

LEMMA RecoverKeeps ==
  ASSUME LeaseInv, NEW m \in Message, Recover(m)
  PROVE  RowsSane' /\ Leases' /\ Apart' /\ row' \in [Message -> Record]
<1>1. /\ row' = [row EXCEPT ![m] = Recovery(row[m], clock)] /\ row[m].status = "parked"
      /\ row[m].generation < MaxRecovery /\ clock' = clock /\ call' = call
  BY DEF Recover, LeaseInv, TypeOK
<1>2. Changed(row[m], Recovery(row[m], clock))
  BY <1>1, RowTypes, RecoveryEffect
<1>3. ASSUME NEW e \in Driver, call[e].of = m, call[e].at \in InHand,
             call[e].version = row[m].version
      PROVE  FALSE
  BY <1>1, <1>3, CallOf DEF CallOk, InHand, Holder, Live
<1>. QED
  BY <1>1, <1>2, <1>3, OutsideMove

LEMMA AcknowledgeKeeps ==
  ASSUME LeaseInv, NEW m \in Message, Acknowledge(m)
  PROVE  RowsSane' /\ Leases' /\ Apart' /\ row' \in [Message -> Record]
<1>1. clock' = clock /\ call' = call /\ row \in [Message -> Record]
  BY DEF Acknowledge, LeaseInv, TypeOK
<1>2. CASE row[m].status = "processed"
  <2>1. row' = row
    BY <1>2 DEF Acknowledge
  <2>. QED
    BY <1>1, <2>1, Elsewhere
<1>3. CASE row[m].status # "processed"
  <2>1. row' = [row EXCEPT ![m] = Processing(row[m])]
    BY <1>1, <1>3 DEF Acknowledge
  <2>2. Changed(row[m], Processing(row[m])) /\ Processing(row[m]).status = "processed"
    BY RowTypes, ProcessingEffect
  <2>. QED
    BY <1>1, <1>3, <2>1, <2>2, OutsideMove
<1>. QED
  BY <1>2, <1>3

LEMMA DeferKeeps ==
  ASSUME LeaseInv, NEW d \in Driver, Defer(d)
  PROVE  RowsSane' /\ Leases' /\ Apart' /\ row' \in [Message -> Record]
<1>. DEFINE m == call[d].of
            now == call[d].now
<1>1. clock' = clock /\ Idle(d) /\ row \in [Message -> Record] /\ call[d].at = "defer"
  BY DEF Defer, LeaseInv, TypeOK
<1>2. m \in Message /\ now \in Nat /\ now <= clock /\ row[m] \in Record /\ Sane(row[m])
  BY <1>1, CallOf, RowTypes
<1>3. CASE row' = row
  BY <1>1, <1>3, IdleKeeps
<1>4. CASE row' # row
  <2>1. /\ row[m].status = "pending" /\ (row[m].lease # None => row[m].lease <= now)
        /\ row' = [row EXCEPT ![m] = Deferral(row[m], now)]
    BY <1>4 DEF Defer
  <2>. HIDE DEF m, now
  <2>2. Changed(row[m], Deferral(row[m], now))
    BY <1>2, <2>1, DeferralEffect
  <2>3. Live(row[m]) /\ row[m].status # "processed"
    BY <2>1 DEF Live
  <2>. QED
    BY <1>1, <1>2, <2>1, <2>2, <2>3, LeaseIsOver, LastMove
<1>. QED
  BY <1>3, <1>4

\* A call changes its row and keeps hold of it.
LEMMA HoldingMove ==
  ASSUME LeaseInv, NEW d \in Driver, NEW c \in Call, call' = [call EXCEPT ![d] = c],
         NEW m \in Message, c.of = m, c.at \in {"sign", "park"}, c.now <= clock,
         NEW q, Changed(row[m], q), c.version = q.version, c.at = "sign" => Holder(c, q),
         row' = [row EXCEPT ![m] = q], row[m].status # "processed", clock' = clock,
         \A e \in Driver \ {d} :
           call[e].of = m /\ call[e].at \in Holds =>
             /\ call[e].version <= row[m].version
             /\ call[e].at \in InHand => call[e].until <= clock
  PROVE  /\ RowsSane' /\ Leases' /\ Apart' /\ row' \in [Message -> Record]
         /\ call' \in [Driver -> Call]
<1>0. call \in [Driver -> Call] /\ row \in [Message -> Record] /\ row[m].version \in Nat
  BY RecordFields DEF LeaseInv, TypeOK
<1>1. q \in Record /\ q.version = row[m].version + 1 /\ q.status # "absent"
  BY DEF Changed
<1>2. c.at # "idle" /\ c.of = m /\ CallOk(c, q)
  BY <1>0, <1>1 DEF CallOk, InHand
<1>3. ASSUME NEW e \in Driver \ {d}
      PROVE  Disjoint(c, call[e]) /\ Disjoint(call[e], c)
  <2>1. call[e].version \in Nat
    BY <1>0, CallFields
  <2>. QED
    BY <1>0, <1>1, <2>1 DEF Disjoint, Holds, InHand
<1>4. RowsSane' /\ Leases' /\ Apart'
  <2>. DEFINE D == {d}
  <2>1. D \in SUBSET Driver /\ (\A a, b \in D : a = b)
    OBVIOUS
  <2>2. \A e \in Driver \ D :
          /\ call[e].of = m /\ call[e].at \in InHand /\ call[e].version = row[m].version
               => call[e].until <= clock \/ q.status = "processed"
          /\ D # {} => Disjoint(c, call[e]) /\ Disjoint(call[e], c)
    BY <1>3 DEF Holds
  <2>3. call' = [e \in Driver |-> IF e \in D THEN c ELSE call[e]]
    BY <1>0
  <2>. HIDE DEF D
  <2>. QED
    BY <1>2, <2>1, <2>2, <2>3, RowMove, ZenonT(60)
<1>. QED
  BY <1>0, <1>1, <1>4

\* Whoever else holds the row held it under an earlier version.
LEMMA Others ==
  ASSUME LeaseInv, NEW e \in Driver, NEW m \in Message, call[e].of = m, call[e].at \in Holds
  PROVE  call[e].version <= row[m].version
BY CallOf DEF CallOk, Holds, InHand

LEMMA ClaimKeeps ==
  ASSUME LeaseInv, NEW d \in Driver, Claim(d)
  PROVE  /\ RowsSane' /\ Leases' /\ Apart' /\ row' \in [Message -> Record]
         /\ call' \in [Driver -> Call]
<1>. DEFINE m == call[d].of
            now == call[d].now
            permitted == Current(row[m], call[d].version) /\ Due(row[m], now)
<1>1. /\ clock' = clock /\ row \in [Message -> Record] /\ call[d].at = "claim"
      /\ row' = IF permitted THEN [row EXCEPT ![m] = Claimed(row[m], now)] ELSE row
      /\ call' = [call EXCEPT ![d] =
                   IF permitted /\ ~Spent(row[m], now) THEN Holding(m, "sign") ELSE NoCall]
  BY DEF Claim, LeaseInv, TypeOK
<1>2. m \in Message /\ now \in Nat /\ now <= clock /\ row[m] \in Record /\ Sane(row[m])
      /\ clock \in Nat
  BY <1>1, CallOf, RowTypes
<1>3. CASE ~permitted
  <2>1. Idle(d) /\ row' = row
    BY <1>1, <1>3 DEF Idle
  <2>. QED
    BY <1>1, <2>1, IdleKeeps, IdleType DEF LeaseInv
<1>4. CASE permitted
  <2>0. Due(row[m], now)
    BY <1>4
  <2>1. Live(row[m]) /\ (row[m].lease # None => row[m].lease <= now)
    BY <1>2, <2>0, DueIsOver
  <2>2. row' = [row EXCEPT ![m] = Claimed(row[m], now)] /\ row[m].status # "processed"
    BY <1>1, <1>4, <2>1 DEF Live
  <2>3. /\ call' = [call EXCEPT ![d] = IF Spent(row[m], now) THEN NoCall ELSE Holding(m, "sign")]
    BY <1>1, <1>4
  <2>. HIDE DEF m, now, permitted
  <2>4. /\ Changed(row[m], Claimed(row[m], now))
        /\ ~Spent(row[m], now) => /\ Claimed(row[m], now).status = row[m].status
                                 /\ Claimed(row[m], now).lease \in Nat
    BY <1>2, <2>1, ClaimedEffect
  <2>5. ASSUME NEW e \in Driver, call[e].of = m, call[e].at \in InHand
        PROVE  call[e].until <= clock
    BY <1>2, <2>1, <2>5, LeaseIsOver
  <2>6. CASE Spent(row[m], now)
    <3>1. Idle(d)
      BY <2>3, <2>6 DEF Idle
    <3>. QED
      BY <1>1, <1>2, <2>2, <2>4, <2>5, <3>1, LastMove, IdleType DEF LeaseInv
  <2>7. CASE ~Spent(row[m], now)
    <3>. DEFINE q == Claimed(row[m], now)
                c == Holding(m, "sign")
    <3>1. row'[m] = q /\ q \in Record /\ q.lease \in Nat /\ Live(q)
      BY <1>1, <1>2, <2>1, <2>2, <2>4, <2>7 DEF Changed, Live
    <3>. HIDE DEF q
    <3>2. /\ c \in Call /\ c.at = "sign" /\ c.of = m /\ c.version = q.version /\ c.now = 0
          /\ c.asks = (q.status = "accepted") /\ (q.lease # None => c.until = q.lease)
      BY <1>2, <3>1, HoldingType
    <3>3. call' = [call EXCEPT ![d] = c]
      BY <2>3, <2>7
    <3>. HIDE DEF c
    <3>4. Holder(c, q)
      <4>1. q.lease # None /\ c.until <= q.lease
        BY <3>1, <3>2, Limits
      <4>2. c.asks <=> q.status = "accepted"
        BY <3>2, Zenon
      <4>. QED
        BY <3>1, <3>2, <4>1, <4>2 DEF Holder
    <3>5. \A e \in Driver \ {d} :
            call[e].of = m /\ call[e].at \in Holds =>
              /\ call[e].version <= row[m].version
              /\ call[e].at \in InHand => call[e].until <= clock
      BY <1>2, <2>5, Others
    <3>6. Changed(row[m], q) /\ row' = [row EXCEPT ![m] = q]
      BY <2>2, <2>4 DEF q
    <3>7. c.now <= clock /\ c.at \in {"sign", "park"}
      BY <1>2, <3>2
    <3>. QED
      BY <1>1, <1>2, <2>2, <3>2, <3>3, <3>4, <3>5, <3>6, <3>7, HoldingMove
  <2>. QED
    BY <2>6, <2>7
<1>. QED
  BY <1>3, <1>4

LEMMA ParkKeeps ==
  ASSUME LeaseInv, NEW d \in Driver, Park(d)
  PROVE  RowsSane' /\ Leases' /\ Apart' /\ row' \in [Message -> Record]
<1>. DEFINE m == call[d].of
<1>1. clock' = clock /\ Idle(d) /\ row \in [Message -> Record] /\ call[d].at = "park"
  BY DEF Park, LeaseInv, TypeOK
<1>2. m \in Message /\ row[m] \in Record
  BY <1>1, CallOf, RowTypes
<1>3. CASE row' = row
  BY <1>1, <1>3, IdleKeeps
<1>4. CASE row' # row
  <2>1. /\ Live(row[m]) /\ row' = [row EXCEPT ![m] = Parking(row[m])]
        /\ call[d].version = row[m].version
    BY <1>4 DEF Park, Current
  <2>2. Changed(row[m], Parking(row[m])) /\ row[m].status # "processed"
    BY <1>2, <2>1, ParkingEffect DEF Live
  <2>3. ASSUME NEW e \in Driver \ {d}, call[e].of = m, call[e].at \in InHand,
               call[e].version = row[m].version
        PROVE  FALSE
    BY <1>1, <2>1, <2>3 DEF LeaseInv, Apart, Disjoint, Holds
  <2>. HIDE DEF m
  <2>. QED
    BY <1>1, <1>2, <2>1, <2>2, <2>3, LastMove
<1>. QED
  BY <1>3, <1>4

\* What a call that still holds its row makes of it, by what it heard.
LEMMA OutcomeEffect ==
  ASSUME NEW r \in Record, Live(r), Sane(r), clock \in Nat, NEW reply,
         reply = "refused" => r.status = "pending"
  PROVE  /\ Changed(r, Outcome(r, reply))
         /\ reply = "receipt" => Outcome(r, reply).status = "accepted" /\ Outcome(r, reply).receipt
         /\ reply = "refused" => Outcome(r, reply).status = "refused" /\ ~Outcome(r, reply).receipt
         /\ reply = "settled" => Outcome(r, reply).status = "processed" /\ Outcome(r, reply).receipt
         /\ reply \notin {"receipt", "refused", "settled"} =>
              /\ Outcome(r, reply).receipt = r.receipt
              /\ Outcome(r, reply).status \in {r.status, "parked"}
<1>0. r.status # "absent"
  BY DEF Live
<1>1. CASE reply = "receipt"
  BY <1>1, AcceptanceEffect DEF Outcome
<1>2. CASE reply = "refused"
  BY <1>2, RefusalEffect DEF Outcome
<1>3. CASE reply = "settled"
  BY <1>3, ProcessingEffect DEF Outcome
<1>4. CASE reply \in {"pending", "unavailable"}
  BY <1>0, <1>4, ParkingEffect DEF Outcome
<1>5. CASE reply \notin {"receipt", "refused", "settled", "pending", "unavailable"}
  <2>1. Outcome(r, reply) = Retrying(r, clock)
    BY <1>5 DEF Outcome
  <2>. QED
    BY <1>5, <2>1, RetryingEffect
<1>. QED
  BY <1>1, <1>2, <1>3, <1>4, <1>5

\* The record of a commit that is not rejected.
LEMMA CommitHolds ==
  ASSUME LeaseInv, NEW d \in Driver, call[d].at = "heard", NEW m \in Message, m = call[d].of,
         Current(row[m], call[d].version), Live(row[m])
  PROVE  /\ call[d].reply = "refused" => row[m].status = "pending"
         /\ \A e \in Driver \ {d} :
              call[e].of = m /\ call[e].at \in Holds =>
                /\ call[e].version < row[m].version
                /\ call[e].at \in InHand => call[e].until <= clock
<1>1. /\ call[d].version = row[m].version /\ call[d].at # "idle" /\ call[d].at \in Holds
      /\ call[d].at \in InHand /\ row[m].status # "processed"
  BY DEF Current, Holds, InHand, Live
<1>2. Holder(call[d], row[m])
  BY <1>1, CallOf DEF CallOk
<1>3. ASSUME NEW e \in Driver \ {d}, call[e].of = m, call[e].at \in Holds
      PROVE  call[e].version < row[m].version /\ (call[e].at \in InHand => call[e].until <= clock)
  <2>0. call[e].at # "idle"
    BY <1>3 DEF Holds, InHand
  <2>1. call[e].version \in Nat /\ row[m].version \in Nat /\ CallOk(call[e], row[m])
    BY <1>3, <2>0, CallOf, CallFields, RowTypes, RecordFields
  <2>2. Disjoint(call[e], call[d])
    BY <1>3 DEF LeaseInv, Apart
  <2>3. call[e].version # row[m].version
    BY <1>1, <1>3, <2>2 DEF Disjoint
  <2>4. call[e].version < row[m].version
    BY <2>0, <2>1, <2>3 DEF CallOk
  <2>. QED
    BY <1>1, <2>0, <2>1, <2>4 DEF CallOk
<1>. QED
  BY <1>2, <1>3 DEF Holder

LEMMA CommitKeeps ==
  ASSUME LeaseInv, NEW d \in Driver, Commit(d)
  PROVE  /\ RowsSane' /\ Leases' /\ Apart' /\ row' \in [Message -> Record]
         /\ call' \in [Driver -> Call]
<1>. DEFINE m == call[d].of
            reply == call[d].reply
            permitted == /\ Current(row[m], call[d].version) /\ Live(row[m])
                         /\ reply # "unavailable" => Leased(row[m], clock)
            q == Outcome(row[m], reply)
            c == Holding(m, "park")
<1>1. /\ clock' = clock /\ row \in [Message -> Record] /\ call[d].at = "heard"
      /\ row' = IF permitted THEN [row EXCEPT ![m] = q] ELSE row
      /\ call' = [call EXCEPT ![d] = IF permitted /\ reply = "receipt" THEN c ELSE NoCall]
  BY DEF Commit, LeaseInv, TypeOK
<1>2. m \in Message /\ row[m] \in Record /\ Sane(row[m]) /\ clock \in Nat
  BY <1>1, CallOf, RowTypes
<1>3. CASE ~permitted
  <2>1. Idle(d) /\ row' = row
    BY <1>1, <1>3 DEF Idle
  <2>. QED
    BY <1>1, <2>1, IdleKeeps, IdleType DEF LeaseInv
<1>4. CASE permitted
  <2>1. /\ Current(row[m], call[d].version) /\ Live(row[m]) /\ row[m].status # "processed"
        /\ row[m].version \in Nat
    BY <1>2, <1>4, RecordFields DEF Live
  <2>2. row' = [row EXCEPT ![m] = q]
    BY <1>1, <1>4
  <2>3. call' = [call EXCEPT ![d] = IF reply = "receipt" THEN c ELSE NoCall]
    BY <1>1, <1>4
  <2>4. /\ reply = "refused" => row[m].status = "pending"
        /\ \A e \in Driver \ {d} :
             call[e].of = m /\ call[e].at \in Holds =>
               /\ call[e].version < row[m].version
               /\ call[e].at \in InHand => call[e].until <= clock
    BY <1>1, <1>2, <2>1, CommitHolds
  <2>5. Changed(row[m], q)
    BY <1>2, <2>1, <2>4, OutcomeEffect
  <2>. HIDE DEF m, reply, permitted, q
  <2>6. CASE reply = "receipt"
    <3>1. row'[m] = q /\ q \in Record
      BY <1>1, <1>2, <2>2, <2>5 DEF Changed
    <3>2. c \in Call /\ c.at = "park" /\ c.of = m /\ c.version = q.version /\ c.now = 0
      BY <1>2, <3>1, HoldingType
    <3>3. call' = [call EXCEPT ![d] = c]
      BY <2>3, <2>6
    <3>. HIDE DEF c
    <3>4. /\ c.now <= clock /\ c.at \in {"sign", "park"} /\ c.at # "sign"
      BY <1>2, <3>2
    <3>5. \A e \in Driver \ {d} :
            call[e].of = m /\ call[e].at \in Holds =>
              /\ call[e].version <= row[m].version
              /\ call[e].at \in InHand => call[e].until <= clock
      BY <1>1, <1>2, <2>4, Others
    <3>. QED
      BY <1>1, <1>2, <2>1, <2>2, <2>5, <3>2, <3>3, <3>4, <3>5, HoldingMove
  <2>7. CASE reply # "receipt"
    <3>1. Idle(d)
      BY <2>3, <2>7 DEF Idle
    <3>2. \A e \in Driver \ {d} :
            call[e].of = m /\ call[e].at \in InHand /\ call[e].version = row[m].version
              => call[e].until <= clock
      BY <2>4 DEF Holds
    <3>. QED
      BY <1>1, <1>2, <2>1, <2>2, <2>5, <3>1, <3>2, LastMove, IdleType DEF LeaseInv
  <2>. QED
    BY <2>6, <2>7
<1>. QED
  BY <1>3, <1>4

-----------------------------------------------------------------------------
(***************************************************************************)
(* LeaseInv is inductive.                                                   *)
(***************************************************************************)
\* What no driver's row or call is about.
Rest ==
  /\ clock \in Time /\ journal \in Seq(Message) /\ born \in [Message -> Time]
  /\ draft \in [Message -> Nat \cup {None}]
  /\ dest \in [Message -> {"none", "accepted", "settled", "acknowledged", "final"}]
  /\ wire \subseteq Message /\ allowed \in BOOLEAN
  /\ stops \in 0..MaxStop /\ turns \in 0..MaxTurn

LEMMA AdmitsType ==
  ASSUME Rest, NEW m \in Message, Admits(m)
  PROVE  dest' \in [Message -> {"none", "accepted", "settled", "acknowledged", "final"}]
BY DEF Rest, Admits

LEMMA RestStep ==
  ASSUME LeaseInv, [Next]_vars
  PROVE  Rest'
<1>0. Rest /\ clock \in Nat /\ MaxStop \in Nat /\ MaxTurn \in Nat /\ Horizon \in Nat
  BY Limits DEF LeaseInv, TypeOK, Rest, Time
<1>1. ASSUME NEW m \in Message, Draft(m)
      PROVE  Rest'
  BY <1>0, <1>1 DEF Draft, Rest, world, bounds
<1>2. ASSUME NEW m \in Message, Accept(m)
      PROVE  Rest'
  <2>1. journal' \in Seq(Message) /\ draft' \in [Message -> Nat \cup {None}]
    BY <1>0, <1>2 DEF Accept, Rest
  <2>. QED
    BY <1>0, <1>2, <2>1 DEF Accept, Rest, world, bounds
<1>3. ASSUME NEW m \in Message, Insert(m) \/ Recover(m) \/ Acknowledge(m) \/ Settle(m) \/ Finalize(m)
      PROVE  Rest'
  BY <1>0, <1>3 DEF Insert, Recover, Acknowledge, Settle, Finalize, Rest, source, world, bounds
<1>4. ASSUME NEW m \in Message, Land(m)
      PROVE  Rest'
  BY <1>0, <1>4, AdmitsType DEF Land, Rest, source, bounds
<1>5. ASSUME NEW d \in Driver, NEW m \in Message, Start(d, m)
      PROVE  Rest'
  BY <1>0, <1>5 DEF Start, Rest, source, world, bounds
<1>6. ASSUME NEW d \in Driver, Order(d) \/ Defer(d) \/ Claim(d) \/ Sign(d) \/ Commit(d) \/ Park(d)
      PROVE  Rest'
  BY <1>0, <1>6 DEF Order, Defer, Claim, Sign, Signing, Commit, Park, Rest, source, world, bounds
<1>7. ASSUME NEW d \in Driver, Send(d)
      PROVE  Rest'
  <2>1. call[d].of \in Message
    BY CallFields DEF LeaseInv, TypeOK
  <2>2. dest' \in [Message -> {"none", "accepted", "settled", "acknowledged", "final"}]
    BY <1>0, <1>7, <2>1, AdmitsType DEF Send, Rest
  <2>3. stops' \in 0..MaxStop
    BY <1>0, <1>7 DEF Send, Rest
  <2>. QED
    BY <1>0, <1>7, <2>2, <2>3 DEF Send, Rest, source
<1>8. ASSUME NEW d \in Driver, Ask(d)
      PROVE  Rest'
  BY <1>0, <1>8 DEF Ask, Rest, source, world
<1>9. ASSUME NEW d \in Driver, TimeOut(d) \/ Interrupt(d)
      PROVE  Rest'
  <2>1. call[d].of \in Message
    BY CallFields DEF LeaseInv, TypeOK
  <2>. QED
    BY <1>0, <1>9, <2>1 DEF TimeOut, Interrupt, Rest, source
<1>10. CASE Authorize
  <2>1. allowed' \in BOOLEAN
    BY <1>10, Zenon DEF Authorize
  <2>2. turns' \in 0..MaxTurn
    BY <1>0, <1>10 DEF Authorize, Rest
  <2>. QED
    BY <1>0, <1>10, <2>1, <2>2 DEF Authorize, Rest, source
<1>12. CASE Tick
  BY <1>0, <1>12 DEF Tick, Rest, Time, source, world, bounds
<1>11. CASE UNCHANGED vars
  BY <1>0, <1>11 DEF vars, Rest, source, world, bounds
<1>. QED
  BY <1>1, <1>2, <1>3, <1>4, <1>5, <1>6, <1>7, <1>8, <1>9, <1>10, <1>11, <1>12 DEF Next, Process

LEMMA LeaseStep ==
  ASSUME LeaseInv, [Next]_vars
  PROVE  LeaseInv'
<1>0. Rest' /\ TypeOK
  BY RestStep DEF LeaseInv
<1>. DEFINE Kept == /\ RowsSane' /\ Leases' /\ Apart'
                    /\ row' \in [Message -> Record] /\ call' \in [Driver -> Call]
<1>1. ASSUME NEW m \in Message,
             Draft(m) \/ Accept(m) \/ Land(m) \/ Settle(m) \/ Finalize(m)
      PROVE  Kept
  <2>1. UNCHANGED <<row, call, clock>>
    BY <1>1 DEF Draft, Accept, Land, Settle, Finalize
  <2>. QED
    BY <1>0, <2>1, Elsewhere DEF TypeOK
<1>2. ASSUME NEW m \in Message, Insert(m) \/ Recover(m) \/ Acknowledge(m)
      PROVE  Kept
  <2>1. call' = call
    BY <1>2 DEF Insert, Recover, Acknowledge
  <2>. QED
    BY <1>0, <1>2, <2>1, InsertKeeps, RecoverKeeps, AcknowledgeKeeps DEF TypeOK
<1>3. ASSUME NEW m \in Message, NEW d \in Driver, Start(d, m)
      PROVE  Kept
  <2>1. row' = row
    BY <1>3 DEF Start
  <2>. QED
    BY <1>0, <1>3, <2>1, StartKeeps DEF TypeOK
<1>4. ASSUME NEW d \in Driver, Order(d) \/ Sign(d) \/ Send(d) \/ Ask(d) \/ TimeOut(d)
      PROVE  Kept
  <2>1. row' = row
    BY <1>4 DEF Order, Sign, Signing, Send, Ask, TimeOut
  <2>. QED
    BY <1>0, <1>4, <2>1, OrderKeeps, SignKeeps, AttemptKeeps DEF TypeOK
<1>5. ASSUME NEW d \in Driver, Defer(d) \/ Park(d)
      PROVE  Kept
  <2>1. Idle(d)
    BY <1>5 DEF Defer, Park
  <2>. QED
    BY <1>0, <1>5, <2>1, DeferKeeps, ParkKeeps, IdleType
<1>6. ASSUME NEW d \in Driver, Claim(d) \/ Commit(d)
      PROVE  Kept
  BY <1>6, ClaimKeeps, CommitKeeps
<1>7. ASSUME NEW d \in Driver, Interrupt(d)
      PROVE  Kept
  <2>1. Idle(d) /\ row' = row /\ clock' = clock
    BY <1>7 DEF Interrupt
  <2>. QED
    BY <1>0, <2>1, IdleKeeps, IdleType DEF TypeOK
<1>8. ASSUME Authorize
      PROVE  Kept
  <2>1. UNCHANGED <<row, call, clock>>
    BY <1>8 DEF Authorize
  <2>. QED
    BY <1>0, <2>1, Elsewhere DEF TypeOK
<1>9. ASSUME Tick
      PROVE  Kept
  <2>1. UNCHANGED <<row, call>>
    BY <1>9 DEF Tick
  <2>. QED
    BY <1>0, <1>9, <2>1, TickKeeps DEF TypeOK
<1>10. ASSUME UNCHANGED vars
       PROVE  Kept
  <2>1. UNCHANGED <<row, call, clock>>
    BY <1>10 DEF vars
  <2>. QED
    BY <1>0, <2>1, Elsewhere DEF TypeOK
<1>. HIDE DEF Kept
<1>11. Kept
  BY <1>1, <1>2, <1>3, <1>4, <1>5, <1>6, <1>7, <1>8, <1>9, <1>10 DEF Next, Process
<1>. QED
  BY <1>0, <1>11 DEF Kept, LeaseInv, TypeOK, Rest

LEMMA LeaseInit == Init => LeaseInv
<1>. SUFFICES ASSUME Init
              PROVE  LeaseInv
  OBVIOUS
<1>1. NoCall \in Call /\ NoCall.at = "idle" /\ 0 \in Time /\ 0 \in 0..MaxStop /\ 0 \in 0..MaxTurn
  BY NoCallType, Limits DEF Time
<1>2. Absent \in Record /\ Sane(Absent)
  BY Limits DEF Absent, Record, Sane
<1>3. <<>> \in Seq(Message)
  OBVIOUS
<1>4. TypeOK
  BY <1>1, <1>2, <1>3 DEF Init, TypeOK
<1>5. \A d \in Driver : call[d].at = "idle"
  BY <1>1 DEF Init
<1>6. RowsSane /\ Leases /\ Apart
  BY <1>2, <1>5 DEF Init, RowsSane, Leases, Apart, CallOk, Disjoint, Holds, InHand
<1>. QED
  BY <1>4, <1>6 DEF LeaseInv

\* TypeOK: rows, calls, journal and destination keep their shapes, whatever the policy.
THEOREM DeliveryTyped == Spec => []TypeOK
<1>1. LeaseInv /\ [Next]_vars => LeaseInv'
  BY LeaseStep
<1>2. LeaseInv => TypeOK
  BY DEF LeaseInv
<1>. QED
  BY <1>1, <1>2, LeaseInit, PTL DEF Spec

\* OneSubmitter: two calls of MessageDeliveryDriver.process never both hold an unexpired attempt
\* on one message.
THEOREM SubmitterIsOne == Spec => []OneSubmitter
<1>1. LeaseInv /\ [Next]_vars => LeaseInv'
  BY LeaseStep
<1>2. LeaseInv => OneSubmitter
  <2>. SUFFICES ASSUME LeaseInv, NEW d \in Driver, NEW e \in Driver, d # e,
                       call[d].of = call[e].of, call[d].at = "send", call[e].at = "send"
                PROVE  call[d].until <= clock \/ call[e].until <= clock
    BY DEF OneSubmitter
  <2>1. Disjoint(call[d], call[e]) /\ Disjoint(call[e], call[d])
    BY DEF LeaseInv, Apart
  <2>2. call[d].version \in Nat /\ call[e].version \in Nat
    BY CallFields DEF LeaseInv, TypeOK
  <2>. QED
    BY <2>1, <2>2 DEF Disjoint, Holds, InHand
<1>. QED
  BY <1>1, <1>2, LeaseInit, PTL DEF Spec

-----------------------------------------------------------------------------
(***************************************************************************)
(* How a step changes what the worker knows.  A change that decides nothing *)
(* keeps the Receipt and ends nothing; a decision is what a call heard, or  *)
(* what the destination tells its source.                                   *)
(***************************************************************************)
Quietly(m, q) ==
  /\ row' = [row EXCEPT ![m] = q] /\ q \in Record
  /\ q.receipt = row[m].receipt /\ q.status \notin {"absent", "processed", "refused"}
  /\ row[m].status \notin {"processed", "refused"}
  /\ row[m].status = "absent" => m \in Accepted
Deciding(d, q) ==
  LET m == call[d].of
  IN  /\ call[d].at = "heard" /\ Live(row[m])
      /\ row' = [row EXCEPT ![m] = q] /\ q \in Record
      /\ \/ call[d].reply = "receipt" /\ q.receipt /\ q.status = "accepted"
         \/ /\ call[d].reply = "refused" /\ ~q.receipt /\ q.status = "refused"
            /\ ~row[m].receipt
         \/ call[d].reply = "settled" /\ q.receipt /\ q.status = "processed"
Acknowledged(m, q) ==
  /\ dest[m] = "settled" /\ row[m].status \notin {"processed", "refused"}
  /\ row' = [row EXCEPT ![m] = q] /\ q \in Record /\ q.receipt /\ q.status = "processed"

Unmoved == UNCHANGED <<journal, draft, dest, wire>>

LEMMA CommitMoves ==
  ASSUME LeaseInv, NEW d \in Driver, Commit(d)
  PROVE  \/ row' = row
         \/ \E q : Quietly(call[d].of, q)
         \/ \E q : Deciding(d, q)
<1>. DEFINE m == call[d].of
            q == Outcome(row[m], call[d].reply)
<1>1. /\ row \in [Message -> Record] /\ call[d].at = "heard"
  BY DEF Commit, LeaseInv, TypeOK
<1>2. m \in Message /\ row[m] \in Record /\ Sane(row[m]) /\ clock \in Nat
  BY <1>1, CallOf, RowTypes
<1>3. CASE row' # row
  <2>1. /\ Current(row[m], call[d].version) /\ Live(row[m])
        /\ row' = [row EXCEPT ![m] = q]
    BY <1>3 DEF Commit
  <2>2. call[d].reply = "refused" => row[m].status = "pending"
    BY <1>1, <1>2, <2>1, CommitHolds
  <2>3. row[m].status = "pending" => ~row[m].receipt
    BY <1>2 DEF Sane
  <2>4. row[m].status \in {"pending", "accepted"}
    BY <2>1 DEF Live
  <2>5. /\ Changed(row[m], q)
        /\ call[d].reply = "receipt" => q.status = "accepted" /\ q.receipt
        /\ call[d].reply = "refused" => q.status = "refused" /\ ~q.receipt
        /\ call[d].reply = "settled" => q.status = "processed" /\ q.receipt
        /\ call[d].reply \notin {"receipt", "refused", "settled"} =>
             q.receipt = row[m].receipt /\ q.status \in {row[m].status, "parked"}
    BY <1>2, <2>1, <2>2, OutcomeEffect
  <2>. HIDE DEF q
  <2>6. q \in Record
    BY <2>5 DEF Changed
  <2>7. CASE call[d].reply \in {"receipt", "refused", "settled"}
    <3>1. Deciding(d, q)
      BY <1>1, <2>1, <2>2, <2>3, <2>5, <2>6, <2>7 DEF Deciding
    <3>. QED
      BY <3>1
  <2>8. CASE call[d].reply \notin {"receipt", "refused", "settled"}
    <3>1. Quietly(m, q)
      BY <2>1, <2>4, <2>5, <2>6, <2>8 DEF Quietly
    <3>. QED
      BY <3>1
  <2>. QED
    BY <2>7, <2>8
<1>. QED
  BY <1>3

\* A step that changes a row leaves the journal and the destination alone, the
\* acknowledgement apart.
LEMMA RowStep ==
  ASSUME LeaseInv, [Next]_vars
  PROVE  \/ row' = row
         \/ Unmoved /\ \E m \in Message, q \in Record : Quietly(m, q)
         \/ Unmoved /\ \E d \in Driver, q \in Record : Deciding(d, q)
         \/ \E m \in Message, q \in Record : Acknowledge(m) /\ Acknowledged(m, q)
<1>0. row \in [Message -> Record] /\ clock \in Nat
  BY Limits DEF LeaseInv, TypeOK, Time
<1>. SUFFICES ASSUME row' # row
              PROVE  \/ Unmoved /\ \E m \in Message, q \in Record : Quietly(m, q)
                     \/ Unmoved /\ \E d \in Driver, q \in Record : Deciding(d, q)
                     \/ \E m \in Message, q \in Record : Acknowledge(m) /\ Acknowledged(m, q)
  OBVIOUS
<1>1. ASSUME NEW m \in Message, Insert(m)
      PROVE  Unmoved /\ \E q \in Record : Quietly(m, q)
  <2>1. row' \in [Message -> Record] /\ Sane(row[m])
    BY <1>1, InsertKeeps DEF LeaseInv, RowsSane
  <2>. DEFINE q == [Absent EXCEPT !.status = "pending", !.version = 1, !.next = born[m],
                                 !.deadline = born[m] + Lifetime]
  <2>2. row' = [row EXCEPT ![m] = q] /\ row[m].status = "absent" /\ m \in Accepted
    BY <1>1 DEF Insert
  <2>3. q.status = "pending" /\ q.receipt = FALSE
    BY DEF Absent
  <2>. HIDE DEF q
  <2>4. q \in Record
    BY <1>0, <2>1, <2>2
  <2>5. row[m].receipt = FALSE
    <3>1. row[m].receipt \in BOOLEAN /\ ~row[m].receipt
      BY <1>0, <2>1, <2>2, RecordFields DEF Sane
    <3>. QED
      BY <3>1
  <2>6. Quietly(m, q)
    BY <2>2, <2>3, <2>4, <2>5 DEF Quietly
  <2>. QED
    BY <1>1, <2>4, <2>6 DEF Insert, Unmoved, source, world
<1>2. ASSUME NEW m \in Message, Recover(m)
      PROVE  Unmoved /\ \E q \in Record : Quietly(m, q)
  <2>. DEFINE q == Recovery(row[m], clock)
  <2>1. row' = [row EXCEPT ![m] = q] /\ row[m].status = "parked" /\ row[m].generation < MaxRecovery
    BY <1>0, <1>2 DEF Recover
  <2>2. Changed(row[m], q) /\ q.status \in {"pending", "accepted"} /\ q.receipt = row[m].receipt
    BY <2>1, RowTypes, RecoveryEffect
  <2>. HIDE DEF q
  <2>3. q \in Record /\ Quietly(m, q)
    BY <2>1, <2>2 DEF Changed, Quietly
  <2>. QED
    BY <1>2, <2>3 DEF Recover, Unmoved, source, world
<1>3. ASSUME NEW m \in Message, Acknowledge(m)
      PROVE  \E q \in Record : Acknowledged(m, q)
  <2>. DEFINE q == Processing(row[m])
  <2>1. /\ row' = [row EXCEPT ![m] = q] /\ row[m].status \notin {"processed", "refused"}
        /\ dest[m] = "settled"
    BY <1>0, <1>3 DEF Acknowledge
  <2>2. Changed(row[m], q) /\ q.status = "processed" /\ q.receipt
    BY RowTypes, ProcessingEffect
  <2>. HIDE DEF q
  <2>3. q \in Record /\ Acknowledged(m, q)
    BY <2>1, <2>2 DEF Changed, Acknowledged
  <2>. QED
    BY <2>3
<1>4. ASSUME NEW d \in Driver, Defer(d)
      PROVE  Unmoved /\ \E m \in Message, q \in Record : Quietly(m, q)
  <2>. DEFINE m == call[d].of
              q == Deferral(row[m], call[d].now)
  <2>1. /\ row' = [row EXCEPT ![m] = q] /\ row[m].status = "pending" /\ call[d].at = "defer"
    BY <1>0, <1>4 DEF Defer
  <2>2. m \in Message /\ call[d].now \in Nat
    BY <2>1, CallOf
  <2>3. Changed(row[m], q) /\ q.status \in {"pending", "parked"} /\ q.receipt = row[m].receipt
    BY <2>1, <2>2, RowTypes, DeferralEffect
  <2>. HIDE DEF q
  <2>4. q \in Record /\ Quietly(m, q)
    BY <2>1, <2>3 DEF Changed, Quietly
  <2>. QED
    BY <1>4, <2>2, <2>4 DEF Defer, Unmoved, source, world
<1>5. ASSUME NEW d \in Driver, Claim(d)
      PROVE  Unmoved /\ \E m \in Message, q \in Record : Quietly(m, q)
  <2>. DEFINE m == call[d].of
              q == Claimed(row[m], call[d].now)
  <2>1. /\ row' = [row EXCEPT ![m] = q] /\ Due(row[m], call[d].now) /\ call[d].at = "claim"
    BY <1>0, <1>5 DEF Claim
  <2>2. m \in Message /\ call[d].now \in Nat /\ Live(row[m])
    BY <2>1, CallOf DEF Due
  <2>3. /\ Changed(row[m], q) /\ q.receipt = row[m].receipt
        /\ q.status = "parked" \/ q.status = row[m].status
    BY <2>1, <2>2, RowTypes, ClaimedEffect
  <2>. HIDE DEF q
  <2>4. q \in Record /\ Quietly(m, q)
    BY <2>1, <2>2, <2>3 DEF Changed, Quietly, Live
  <2>. QED
    BY <1>5, <2>2, <2>4 DEF Claim, Unmoved, source, world
<1>6. ASSUME NEW d \in Driver, Park(d)
      PROVE  Unmoved /\ \E m \in Message, q \in Record : Quietly(m, q)
  <2>. DEFINE m == call[d].of
              q == Parking(row[m])
  <2>1. /\ row' = [row EXCEPT ![m] = q] /\ Live(row[m]) /\ call[d].at = "park"
    BY <1>0, <1>6 DEF Park
  <2>2. m \in Message /\ row[m].status \in {"pending", "accepted"}
    BY <2>1, CallOf DEF Live
  <2>3. /\ Changed(row[m], q) /\ q.receipt = row[m].receipt /\ q.status = "parked"
    BY <2>1, <2>2, RowTypes, ParkingEffect
  <2>. HIDE DEF q
  <2>4. q \in Record /\ Quietly(m, q)
    BY <2>1, <2>2, <2>3 DEF Changed, Quietly
  <2>. QED
    BY <1>6, <2>2, <2>4 DEF Park, Unmoved, source, world
<1>7. ASSUME NEW d \in Driver, Commit(d)
      PROVE  \/ Unmoved /\ \E m \in Message, q \in Record : Quietly(m, q)
             \/ Unmoved /\ \E q \in Record : Deciding(d, q)
  <2>1. call[d].of \in Message /\ Unmoved
    BY <1>7, CallOf DEF Commit, Unmoved, source, world
  <2>. QED
    BY <1>7, <2>1, CommitMoves DEF Quietly, Deciding
<1>8. \A m \in Message : /\ ~Draft(m) /\ ~Accept(m) /\ ~Land(m) /\ ~Settle(m) /\ ~Finalize(m)
                         /\ \A d \in Driver : ~Start(d, m)
  BY DEF Draft, Accept, Land, Settle, Finalize, Start
<1>9. \A d \in Driver : /\ ~Order(d) /\ ~Sign(d) /\ ~Send(d) /\ ~Ask(d) /\ ~TimeOut(d)
                        /\ ~Interrupt(d)
  BY DEF Order, Sign, Signing, Send, Ask, TimeOut, Interrupt
<1>10. ~Authorize /\ ~Tick /\ ~UNCHANGED vars
  BY DEF Authorize, Tick, vars
<1>. QED
  BY <1>1, <1>2, <1>3, <1>4, <1>5, <1>6, <1>7, <1>8, <1>9, <1>10 DEF Next, Process

-----------------------------------------------------------------------------
(***************************************************************************)
(* SourceIsTrue.                                                            *)
(***************************************************************************)
Past(m) == dest[m] \in {"settled", "acknowledged", "final"}
DestMoves ==
  \A m \in Message :
    /\ dest[m] # "none" => dest'[m] # "none"
    /\ dest[m] = "final" => dest'[m] = "final"
    /\ Past(m) => Past(m)'
    /\ m \in Native /\ dest'[m] \in {"acknowledged", "final"} =>
         dest[m] \in {"acknowledged", "final"} \/ row'[m].status = "processed"

LEMMA AdmitsMoves ==
  ASSUME LeaseInv, NEW k \in Message, Admits(k)
  PROVE  DestMoves
BY DEF LeaseInv, TypeOK, Admits, DestMoves, Past

LEMMA DestStep ==
  ASSUME LeaseInv, [Next]_vars
  PROVE  DestMoves
<1>0. dest \in [Message -> {"none", "accepted", "settled", "acknowledged", "final"}]
      /\ row \in [Message -> Record]
  BY DEF LeaseInv, TypeOK
<1>1. CASE dest' = dest
  BY <1>0, <1>1 DEF DestMoves, Past
<1>2. ASSUME NEW m \in Message, Land(m)
      PROVE  DestMoves
  BY <1>2, AdmitsMoves DEF Land
<1>3. ASSUME NEW m \in Message, Settle(m) \/ Finalize(m)
      PROVE  DestMoves
  BY <1>0, <1>3 DEF Settle, Finalize, DestMoves, Past
<1>4. ASSUME NEW m \in Message, Acknowledge(m)
      PROVE  DestMoves
  <2>1. row'[m].status = "processed"
    BY <1>0, <1>4, RowTypes, ProcessingEffect DEF Acknowledge
  <2>2. dest[m] = "settled" /\ dest' = [dest EXCEPT ![m] = "acknowledged"]
    BY <1>4 DEF Acknowledge
  <2>. QED
    BY <1>0, <2>1, <2>2 DEF DestMoves, Past
<1>5. ASSUME NEW d \in Driver, Send(d)
      PROVE  DestMoves
  <2>1. call[d].of \in Message
    BY <1>5, CallOf DEF Send
  <2>2. CASE dest' # dest
    BY <1>5, <2>1, <2>2, AdmitsMoves DEF Send
  <2>. QED
    BY <1>1, <2>2
<1>6. \A m \in Message :
        /\ Draft(m) \/ Accept(m) \/ Insert(m) \/ Recover(m) => dest' = dest
        /\ \A d \in Driver : Start(d, m) => dest' = dest
  BY DEF Draft, Accept, Insert, Recover, Start, world
<1>7. \A d \in Driver :
        Order(d) \/ Defer(d) \/ Claim(d) \/ Sign(d) \/ Ask(d) \/ TimeOut(d) \/ Commit(d) \/ Park(d)
          \/ Interrupt(d) => dest' = dest
  BY DEF Order, Defer, Claim, Sign, Signing, Ask, TimeOut, Commit, Park, Interrupt, world
<1>8. Authorize \/ Tick \/ UNCHANGED vars => dest' = dest
  BY DEF Authorize, Tick, vars, world
<1>. QED
  BY <1>1, <1>2, <1>3, <1>4, <1>5, <1>6, <1>7, <1>8 DEF Next, Process

\* A call hears only what the destination did.
HearsTrue(c) ==
  c.at = "heard" =>
    /\ c.reply = "receipt" => dest'[c.of] # "none"
    /\ c.reply = "settled" => dest'[c.of] = "final"

LEMMA HeardStep ==
  ASSUME LeaseInv, Heard, [Next]_vars
  PROVE  Heard'
<1>0. call \in [Driver -> Call] /\ DestMoves
  BY DestStep DEF LeaseInv, TypeOK
<1>1. ASSUME NEW d \in Driver, call'[d] = call[d]
      PROVE  HearsTrue(call'[d])
  <2>1. call[d].of \in Message
    BY <1>0, CallFields
  <2>. QED
    BY <1>0, <1>1, <2>1 DEF Heard, HearsTrue, DestMoves
<1>2. ASSUME NEW d \in Driver, NEW c, call' = [call EXCEPT ![d] = c], c.at # "heard"
      PROVE  \A e \in Driver : HearsTrue(call'[e])
  <2>1. \A e \in Driver : e # d => call'[e] = call[e]
    BY <1>0, <1>2
  <2>2. HearsTrue(call'[d])
    BY <1>0, <1>2 DEF HearsTrue
  <2>. QED
    BY <1>1, <2>1, <2>2
<1>3. ASSUME NEW d \in Driver, NEW reply, Answers(d, reply), call[d].of \in Message,
             reply = "receipt" => dest'[call[d].of] # "none",
             reply = "settled" => dest'[call[d].of] = "final"
      PROVE  \A e \in Driver : HearsTrue(call'[e])
  <2>1. \A e \in Driver : e # d => call'[e] = call[e]
    BY <1>0, <1>3 DEF Answers
  <2>2. call'[d].of = call[d].of /\ call'[d].reply = reply
    BY <1>0, <1>3 DEF Answers, Call
  <2>3. HearsTrue(call'[d])
    BY <1>3, <2>2 DEF HearsTrue
  <2>. QED
    BY <1>1, <2>1, <2>3
<1>. DEFINE G == \A e \in Driver : HearsTrue(call'[e])
<1>4. CASE call' = call
  BY <1>1, <1>4 DEF HearsTrue, Heard
<1>5. ASSUME NEW d \in Driver, Idle(d)
      PROVE  G
  BY <1>2, <1>5, NoCallType DEF Idle
<1>6. ASSUME NEW d \in Driver, NEW m \in Message, Start(d, m)
      PROVE  G
  <2>. DEFINE at == IF row[m].status = "pending" /\ \E p \in Accepted : Follows(m, p)
                    THEN "order" ELSE "claim"
              c(a) == [NoCall EXCEPT !.at = a, !.of = m, !.version = row[m].version, !.now = clock]
  <2>1. call' = [call EXCEPT ![d] = c(at)]
    BY <1>6 DEF Start
  <2>2. \A a : c(a).at = a
    BY DEF NoCall
  <2>3. at # "heard"
    OBVIOUS
  <2>. HIDE DEF c, at
  <2>. QED
    BY <1>2, <2>1, <2>2, <2>3
<1>7. ASSUME NEW d \in Driver, Order(d)
      PROVE  G
  <2>1. PICK a \in {"claim", "defer"} : call' = [call EXCEPT ![d] = [call[d] EXCEPT !.at = a]]
    BY <1>0, <1>7 DEF Order
  <2>2. [call[d] EXCEPT !.at = a].at = a
    BY <1>0 DEF Call
  <2>. QED
    BY <1>2, <2>1, <2>2
<1>8. ASSUME NEW d \in Driver, Sign(d)
      PROVE  G
  <2>. DEFINE u(a, n) == [call[d] EXCEPT !.at = a, !.until = n]
              step == IF call[d].asks THEN "ask" ELSE "send"
              limit == Least(Attempt, call[d].until - clock)
  <2>1. \/ call' = [call EXCEPT ![d] = u(step, clock + limit)]
        \/ call' = [call EXCEPT ![d] = NoCall]
    BY <1>0, <1>8 DEF Sign, Signing
  <2>2. \A a, n : u(a, n).at = a
    BY <1>0 DEF Call
  <2>3. step # "heard"
    OBVIOUS
  <2>. HIDE DEF u, step, limit
  <2>. QED
    BY <1>2, <2>1, <2>2, <2>3, NoCallType
<1>9. ASSUME NEW d \in Driver, Claim(d) \/ Commit(d)
      PROVE  G
  <2>1. PICK step \in {"sign", "park"} :
          \/ call' = [call EXCEPT ![d] = Holding(call[d].of, step)]
          \/ call' = [call EXCEPT ![d] = NoCall]
    BY <1>9 DEF Claim, Commit
  <2>2. Holding(call[d].of, step).at = step
    BY DEF Holding, NoCall
  <2>. QED
    BY <1>2, <2>1, <2>2, NoCallType
<1>10. ASSUME NEW d \in Driver, Send(d)
       PROVE  G
  <2>1. call[d].of \in Message /\ dest \in [Message -> {"none", "accepted", "settled", "acknowledged", "final"}]
    BY <1>10, CallOf DEF Send, LeaseInv, TypeOK
  <2>2. CASE Answers(d, "retry")
    BY <1>3, <2>1, <2>2
  <2>3. CASE ~Answers(d, "retry")
    <3>1. Admits(call[d].of) /\ Answers(d, IF allowed THEN "receipt" ELSE "refused")
      BY <1>10, <2>3 DEF Send
    <3>2. CASE allowed
      <4>1. dest'[call[d].of] # "none"
        BY <2>1, <3>1, <3>2 DEF Admits
      <4>. QED
        BY <1>3, <2>1, <3>1, <3>2, <4>1
    <3>3. CASE ~allowed
      BY <1>3, <2>1, <3>1, <3>3
    <3>. QED
      BY <3>2, <3>3
  <2>. QED
    BY <2>2, <2>3
<1>11. ASSUME NEW d \in Driver, Ask(d)
       PROVE  G
  <2>1. call[d].of \in Message /\ dest' = dest
    BY <1>11, CallOf DEF Ask, world
  <2>2. PICK reply : /\ Answers(d, reply) /\ reply # "receipt"
                     /\ reply = "settled" => dest[call[d].of] = "final"
    BY <1>11 DEF Ask
  <2>. QED
    BY <1>3, <2>1, <2>2
<1>12. ASSUME NEW d \in Driver, TimeOut(d)
       PROVE  G
  <2>1. call[d].of \in Message /\ Answers(d, "retry")
    BY <1>12, CallOf DEF TimeOut
  <2>. QED
    BY <1>3, <2>1
<1>13. \A d \in Driver : Defer(d) \/ Park(d) \/ Interrupt(d) => Idle(d)
  BY DEF Defer, Park, Interrupt
<1>14. \A m \in Message :
         Draft(m) \/ Accept(m) \/ Insert(m) \/ Land(m) \/ Recover(m) \/ Settle(m) \/ Acknowledge(m)
           \/ Finalize(m) => call' = call
  BY DEF Draft, Accept, Insert, Land, Recover, Settle, Acknowledge, Finalize
<1>15. Authorize \/ Tick \/ UNCHANGED vars => call' = call
  BY DEF Authorize, Tick, vars
<1>16. call' = call \/ G
  <2>. HIDE DEF G
  <2>. QED
    BY <1>5, <1>6, <1>7, <1>8, <1>9, <1>10, <1>11, <1>12, <1>13, <1>14, <1>15 DEF Next, Process
<1>17. G
  BY <1>1, <1>16
<1>. QED
  BY <1>17 DEF HearsTrue, Heard

RowMoves(m) ==
  /\ row'[m].receipt => row[m].receipt \/ dest[m] # "none"
  /\ row'[m].status = "processed" => row[m].status = "processed" \/ Past(m)
  /\ row[m].status = "processed" => row'[m].status = "processed"

LEMMA TruthStep ==
  ASSUME LeaseInv, TruthInv, [Next]_vars
  PROVE  TruthInv'
<1>0. row \in [Message -> Record] /\ call \in [Driver -> Call] /\ DestMoves
  BY DestStep DEF LeaseInv, TypeOK
<1>1. Heard'
  BY HeardStep DEF TruthInv
<1>2. ASSUME NEW m \in Message
      PROVE  RowMoves(m)
  <2>1. ASSUME NEW k \in Message, NEW q, Quietly(k, q)
        PROVE  RowMoves(m)
    BY <1>0, <2>1 DEF Quietly, RowMoves
  <2>2. ASSUME NEW d \in Driver, NEW q, Deciding(d, q)
        PROVE  RowMoves(m)
    <3>1. call[d].of \in Message /\ call[d].at = "heard"
      BY <2>2, CallFields, <1>0 DEF Deciding
    <3>. QED
      BY <1>0, <2>2, <3>1 DEF Deciding, Live, TruthInv, Heard, Past, RowMoves
  <2>3. ASSUME NEW k \in Message, NEW q, Acknowledged(k, q)
        PROVE  RowMoves(m)
    BY <1>0, <2>3 DEF Acknowledged, Past, RowMoves
  <2>4. row' = row => RowMoves(m)
    BY DEF RowMoves
  <2>. QED
    BY <2>1, <2>2, <2>3, <2>4, RowStep
<1>3. SourceIsTrue'
  <2>. SUFFICES ASSUME NEW m \in Message
                PROVE  /\ row'[m].receipt => dest'[m] # "none"
                       /\ row'[m].status = "processed" =>
                            dest'[m] \in {"settled", "acknowledged", "final"}
                       /\ m \in Native /\ dest'[m] \in {"acknowledged", "final"} =>
                            row'[m].status = "processed"
    BY DEF SourceIsTrue
  <2>. QED
    BY <1>0, <1>2 DEF DestMoves, RowMoves, Past, TruthInv, SourceIsTrue
<1>. QED
  BY <1>1, <1>3 DEF TruthInv

-----------------------------------------------------------------------------
(***************************************************************************)
(* OrderInv is inductive beside LeaseInv: what is sent, admitted or decided *)
(* comes after everything the journal has before it was decided.            *)
(***************************************************************************)
LEMMA JournalTypes ==
  ASSUME LeaseInv
  PROVE  /\ journal \in Seq(Message) /\ Len(journal) \in Nat
         /\ \A i \in 1..Len(journal) : journal[i] \in Message
         /\ Accepted \subseteq Message
         /\ \A m : m \in Accepted <=> \E i \in 1..Len(journal) : journal[i] = m
<1>1. journal \in Seq(Message)
  BY DEF LeaseInv, TypeOK
<1>. QED
  BY <1>1 DEF Accepted

LEMMA ResolvedKept ==
  ASSUME LeaseInv, [Next]_vars, NEW p \in Message, Resolved(p)
  PROVE  Resolved(p)'
<1>0. row \in [Message -> Record]
  BY DEF LeaseInv, TypeOK
<1>1. ASSUME NEW m \in Message, NEW q, Quietly(m, q)
      PROVE  Resolved(p)'
  BY <1>0, <1>1 DEF Quietly, Resolved
<1>2. ASSUME NEW d \in Driver, NEW q, Deciding(d, q)
      PROVE  Resolved(p)'
  <2>1. call[d].of \in Message
    BY CallFields DEF LeaseInv, TypeOK
  <2>2. p # call[d].of => row'[p] = row[p]
    BY <1>0, <1>2, <2>1 DEF Deciding
  <2>3. row'[call[d].of] = q
    BY <1>0, <1>2, <2>1 DEF Deciding
  <2>. QED
    BY <1>2, <2>2, <2>3 DEF Deciding, Resolved, Live
<1>3. ASSUME NEW m \in Message, NEW q, Acknowledged(m, q)
      PROVE  Resolved(p)'
  BY <1>0, <1>3 DEF Acknowledged, Resolved
<1>4. row' = row => Resolved(p)'
  BY DEF Resolved
<1>. QED
  BY <1>1, <1>2, <1>3, <1>4, RowStep

\* A decision is about a message with nothing undecided before it.
LEMMA DecidedInOrder ==
  ASSUME LeaseInv, OrderInv, [Next]_vars, NEW p \in Message, Resolved(p)', ~Resolved(p)
  PROVE  Clear(p)
<1>0. row \in [Message -> Record]
  BY DEF LeaseInv, TypeOK
<1>1. ASSUME NEW m \in Message, NEW q, Quietly(m, q)
      PROVE  FALSE
  BY <1>0, <1>1 DEF Quietly, Resolved
<1>2. ASSUME NEW d \in Driver, NEW q, Deciding(d, q)
      PROVE  Clear(p)
  <2>1. call[d].of \in Message /\ call[d].at = "heard"
    BY <1>2, CallFields DEF Deciding, LeaseInv, TypeOK
  <2>2. p = call[d].of
    BY <1>0, <1>2, <2>1 DEF Deciding, Resolved
  <2>. QED
    BY <2>1, <2>2 DEF OrderInv, ClearSent
<1>3. ASSUME NEW m \in Message, NEW q, Acknowledged(m, q)
      PROVE  Clear(p)
  <2>1. p = m /\ dest[m] # "none"
    BY <1>0, <1>3 DEF Acknowledged, Resolved
  <2>. QED
    BY <2>1 DEF OrderInv, ClearSent
<1>4. row' # row
  BY DEF Resolved
<1>. QED
  BY <1>1, <1>2, <1>3, <1>4, RowStep

\* The journal only grows, by a draft whose tail still holds.
LEMMA JournalStep ==
  ASSUME LeaseInv, [Next]_vars
  PROVE  \/ journal' = journal
         \/ \E m \in Message : Accept(m) /\ draft[m] = Len(journal) /\ journal' = Append(journal, m)
<1>1. ASSUME NEW m \in Message, Accept(m)
      PROVE  journal' = journal \/ (draft[m] = Len(journal) /\ journal' = Append(journal, m))
  BY <1>1 DEF Accept
<1>2. \A m \in Message :
        /\ Draft(m) \/ Insert(m) \/ Land(m) \/ Recover(m) \/ Settle(m) \/ Acknowledge(m)
             \/ Finalize(m) => journal' = journal
        /\ \A d \in Driver : Start(d, m) => journal' = journal
  BY DEF Draft, Insert, Land, Recover, Settle, Acknowledge, Finalize, Start, source
<1>3. \A d \in Driver : Process(d) \/ Interrupt(d) => journal' = journal
  BY DEF Process, Order, Defer, Claim, Sign, Signing, Send, Ask, TimeOut, Commit, Park, Interrupt,
         source
<1>4. Authorize \/ Tick \/ UNCHANGED vars => journal' = journal
  BY DEF Authorize, Tick, vars, source
<1>. QED
  BY <1>1, <1>2, <1>3, <1>4 DEF Next

LEMMA JournalKept ==
  ASSUME LeaseInv, [Next]_vars
  PROVE  /\ Len(journal') \in Nat /\ Len(journal) <= Len(journal')
         /\ \A i \in 1..Len(journal) : i \in 1..Len(journal') /\ journal'[i] = journal[i]
         /\ Accepted \subseteq Accepted'
<1>0. journal \in Seq(Message) /\ Len(journal) \in Nat
  BY JournalTypes
<1>1. CASE journal' = journal
  BY <1>0, <1>1 DEF Accepted
<1>2. CASE journal' # journal
  <2>1. PICK m \in Message : journal' = Append(journal, m)
    BY <1>2, JournalStep
  <2>2. /\ Len(journal') = Len(journal) + 1
        /\ \A i \in 1..Len(journal) : journal'[i] = journal[i]
    BY <1>0, <2>1
  <2>. QED
    BY <1>0, <2>2 DEF Accepted
<1>. QED
  BY <1>1, <1>2

LEMMA ClearKept ==
  ASSUME LeaseInv, [Next]_vars, NEW m \in Message, Clear(m)
  PROVE  Clear(m)'
<1>1. PICK i \in 1..Len(journal) : journal[i] = m /\ \A j \in 1..(i - 1) : Resolved(journal[j])
  BY DEF Clear
<1>2. i \in 1..Len(journal') /\ journal'[i] = m
  BY <1>1, JournalKept
<1>3. ASSUME NEW j \in 1..(i - 1)
      PROVE  Resolved(journal[j])'
  <2>1. j \in 1..Len(journal) /\ journal[j] \in Message
    BY JournalTypes
  <2>2. journal'[j] = journal[j]
    BY <2>1, JournalKept
  <2>3. Resolved(journal[j])
    BY <1>1
  <2>4. \A p \in Message : Resolved(p) => (row'[p].receipt \/ row'[p].status = "refused")
    BY ResolvedKept DEF Resolved
  <2>. QED
    BY <2>1, <2>2, <2>3, <2>4 DEF Resolved
<1>. QED
  BY <1>2, <1>3 DEF Clear

\* A message without a predecessor, or whose predecessor is decided, is clear.
LEMMA PredecessorDecided ==
  ASSUME LeaseInv, OrderInv, NEW m \in Message, row[m].status # "absent",
         \A p \in Accepted : Follows(m, p) => Resolved(p)
  PROVE  Clear(m)
<1>1. PICK i \in 1..Len(journal) : journal[i] = m
  BY JournalTypes DEF OrderInv, RowsAccepted
<1>2. CASE i = 1
  BY <1>1, <1>2 DEF Clear
<1>3. CASE i # 1
  <2>1. i \in 2..Len(journal) /\ i - 1 \in 1..Len(journal)
    BY <1>3, JournalTypes
  <2>2. Follows(m, journal[i - 1]) /\ journal[i - 1] \in Accepted
    BY <1>1, <2>1, JournalTypes DEF Follows
  <2>3. Resolved(journal[i - 1])
    BY <2>2
  <2>4. ASSUME NEW j \in 1..(i - 1)
        PROVE  Resolved(journal[j])
    <3>1. CASE j = i - 1
      BY <2>3, <3>1
    <3>2. CASE j # i - 1
      <4>1. j \in 1..Len(journal) /\ j < i - 1
        BY <2>1, <3>2, JournalTypes
      <4>. QED
        BY <2>1, <2>3, <4>1 DEF OrderInv, Prefix
    <3>. QED
      BY <3>1, <3>2
  <2>. QED
    BY <1>1, <2>4 DEF Clear
<1>. QED
  BY <1>2, <1>3

LEMMA ResolvedIsClear ==
  ASSUME LeaseInv, OrderInv, NEW m \in Message, row[m].status # "absent", Resolved(m)
  PROVE  Clear(m)
<1>1. PICK i \in 1..Len(journal) : journal[i] = m
  BY JournalTypes DEF OrderInv, RowsAccepted
<1>2. ASSUME NEW j \in 1..(i - 1)
      PROVE  Resolved(journal[j])
  <2>1. j \in 1..Len(journal) /\ j < i
    BY JournalTypes
  <2>. QED
    BY <1>1, <2>1 DEF OrderInv, Prefix
<1>. QED
  BY <1>1, <1>2 DEF Clear

Before == {"idle", "order", "defer"}
\* A call gets past the check of its order only if its message is clear.
LEMMA CallsStep ==
  ASSUME LeaseInv, OrderInv, [Next]_vars, NEW e \in Driver, call'[e].at \notin Before
  PROVE  call'[e].of \in Message /\ Clear(call'[e].of)
<1>0. call \in [Driver -> Call] /\ call[e].of \in Message
  BY CallFields DEF LeaseInv, TypeOK
<1>1. ASSUME call'[e].of = call[e].of, call[e].at \notin Before
      PROVE  Clear(call'[e].of)
  BY <1>1 DEF OrderInv, ClearSent, Before
<1>2. ASSUME NEW d \in Driver, NEW c, call' = [call EXCEPT ![d] = c],
             c.at \notin Before => Clear(c.of) /\ c.of \in Message
      PROVE  call'[e].of \in Message /\ Clear(call'[e].of)
  <2>1. CASE e = d
    BY <1>0, <1>2, <2>1
  <2>2. CASE e # d
    BY <1>0, <1>1, <1>2, <2>2
  <2>. QED
    BY <2>1, <2>2
<1>. DEFINE G == call'[e].of \in Message /\ Clear(call'[e].of)
<1>3. CASE call' = call
  BY <1>0, <1>1, <1>3
<1>4. ASSUME NEW d \in Driver, Idle(d)
      PROVE  G
  BY <1>2, <1>4, NoCallType DEF Idle, Before
<1>5. ASSUME NEW d \in Driver, NEW m \in Message, Start(d, m)
      PROVE  G
  <2>. DEFINE at == IF row[m].status = "pending" /\ \E p \in Accepted : Follows(m, p)
                    THEN "order" ELSE "claim"
              c(a) == [NoCall EXCEPT !.at = a, !.of = m, !.version = row[m].version, !.now = clock]
  <2>1. call' = [call EXCEPT ![d] = c(at)]
    BY <1>5 DEF Start
  <2>2. \A a : c(a).at = a /\ c(a).of = m
    BY DEF NoCall
  <2>3. at \notin Before => Clear(m)
    <3>1. Live(row[m])
      BY <1>5 DEF Start, Due
    <3>2. CASE row[m].status = "accepted"
      <4>1. row[m].receipt
        BY <3>2, RowTypes DEF Sane
      <4>. QED
        BY <3>2, <4>1, ResolvedIsClear DEF Resolved
    <3>3. CASE row[m].status = "pending" /\ ~\E p \in Accepted : Follows(m, p)
      BY <3>3, PredecessorDecided
    <3>. QED
      BY <3>1, <3>2, <3>3 DEF Live, Before
  <2>. HIDE DEF c, at
  <2>. QED
    BY <1>2, <2>1, <2>2, <2>3
<1>6. ASSUME NEW d \in Driver, Order(d)
      PROVE  G
  <2>. DEFINE ready == \A p \in Accepted : Follows(call[d].of, p) => Resolved(p)
              a == IF ready THEN "claim" ELSE "defer"
  <2>1. call' = [call EXCEPT ![d] = [call[d] EXCEPT !.at = a]] /\ call[d].at = "order"
    BY <1>0, <1>6 DEF Order
  <2>2. [call[d] EXCEPT !.at = a].at = a /\ [call[d] EXCEPT !.at = a].of = call[d].of
    BY <1>0 DEF Call
  <2>3. call[d].of \in Message /\ row[call[d].of].status # "absent"
    BY <2>1, CallOf DEF CallOk
  <2>4. a \notin Before => Clear(call[d].of)
    BY <2>3, PredecessorDecided DEF Before
  <2>. HIDE DEF a
  <2>. QED
    BY <1>2, <2>1, <2>2, <2>3, <2>4
<1>7. ASSUME NEW d \in Driver, Sign(d)
      PROVE  G
  <2>. DEFINE u(a, n) == [call[d] EXCEPT !.at = a, !.until = n]
              step == IF call[d].asks THEN "ask" ELSE "send"
              limit == Least(Attempt, call[d].until - clock)
  <2>1. \/ call' = [call EXCEPT ![d] = u(step, clock + limit)]
        \/ call' = [call EXCEPT ![d] = NoCall]
    BY <1>0, <1>7 DEF Sign, Signing
  <2>2. \A a, n : u(a, n).of = call[d].of
    BY <1>0 DEF Call
  <2>3. call[d].at = "sign" /\ call[d].of \in Message
    BY <1>7, CallOf DEF Sign, Signing
  <2>4. Clear(call[d].of)
    BY <2>3 DEF OrderInv, ClearSent
  <2>. HIDE DEF u, step, limit
  <2>. QED
    BY <1>2, <2>1, <2>2, <2>3, <2>4, NoCallType DEF Before
<1>8. ASSUME NEW d \in Driver, Claim(d) \/ Commit(d)
      PROVE  G
  <2>1. PICK step \in {"sign", "park"} :
          \/ call' = [call EXCEPT ![d] = Holding(call[d].of, step)]
          \/ call' = [call EXCEPT ![d] = NoCall]
    BY <1>8 DEF Claim, Commit
  <2>2. Holding(call[d].of, step).of = call[d].of
    BY DEF Holding, NoCall
  <2>3. call[d].at \in {"claim", "heard"} /\ call[d].of \in Message
    BY <1>8, CallOf DEF Claim, Commit
  <2>4. Clear(call[d].of)
    BY <2>3 DEF OrderInv, ClearSent
  <2>. QED
    BY <1>2, <2>1, <2>2, <2>3, <2>4, NoCallType DEF Before
<1>9. ASSUME NEW d \in Driver, Send(d) \/ Ask(d) \/ TimeOut(d)
      PROVE  G
  <2>1. PICK reply : Answers(d, reply)
    BY <1>9 DEF Send, Ask, TimeOut
  <2>2. call[d].at \in {"send", "ask"}
    BY <1>9 DEF Send, Ask, TimeOut
  <2>3. call'[e].of = call[e].of /\ (call[e].at \in Before => call'[e].at \in Before)
    BY <1>0, <2>1, <2>2 DEF Answers, Call, Before
  <2>. QED
    BY <1>0, <1>1, <2>3
<1>10. \A d \in Driver : Defer(d) \/ Park(d) \/ Interrupt(d) => Idle(d)
  BY DEF Defer, Park, Interrupt
<1>11. \A m \in Message :
         Draft(m) \/ Accept(m) \/ Insert(m) \/ Land(m) \/ Recover(m) \/ Settle(m) \/ Acknowledge(m)
           \/ Finalize(m) => call' = call
  BY DEF Draft, Accept, Insert, Land, Recover, Settle, Acknowledge, Finalize
<1>12. Authorize \/ Tick \/ UNCHANGED vars => call' = call
  BY DEF Authorize, Tick, vars
<1>13. call' = call \/ G
  <2>. HIDE DEF G
  <2>. QED
    BY <1>4, <1>5, <1>6, <1>7, <1>8, <1>9, <1>10, <1>11, <1>12 DEF Next, Process
<1>. QED
  BY <1>3, <1>13

\* The destination admits what a call sent, or a request that outlived its call.
LEMMA AdmissionStep ==
  ASSUME LeaseInv, [Next]_vars, NEW m \in Message
  PROVE  /\ dest'[m] # "none" =>
              \/ dest[m] # "none" \/ m \in wire
              \/ \E d \in Driver : call[d].at = "send" /\ call[d].of = m
         /\ m \in wire' => m \in wire \/ \E d \in Driver : call[d].at = "send" /\ call[d].of = m
<1>0. dest \in [Message -> {"none", "accepted", "settled", "acknowledged", "final"}]
  BY DEF LeaseInv, TypeOK
<1>. DEFINE Sent == \E d \in Driver : call[d].at = "send" /\ call[d].of = m
            A == dest'[m] # "none" => dest[m] # "none" \/ m \in wire \/ Sent
            B == m \in wire' => m \in wire \/ Sent
<1>1. ASSUME NEW k \in Message, Admits(k), k = m => m \in wire \/ Sent
      PROVE  A
  BY <1>0, <1>1 DEF Admits
<1>2. ASSUME NEW k \in Message, Land(k)
      PROVE  A /\ B
  <2>1. Admits(k) /\ k \in wire /\ wire' = wire \ {k}
    BY <1>2 DEF Land
  <2>. QED
    BY <1>1, <2>1
<1>3. ASSUME NEW k \in Message, Settle(k) \/ Finalize(k) \/ Acknowledge(k)
      PROVE  A /\ B
  BY <1>0, <1>3 DEF Settle, Finalize, Acknowledge
<1>4. ASSUME NEW d \in Driver, Send(d)
      PROVE  A /\ B
  <2>1. call[d].of \in Message /\ call[d].at = "send" /\ wire' = wire
    BY <1>4, CallOf DEF Send
  <2>2. dest' = dest \/ Admits(call[d].of)
    BY <1>4 DEF Send
  <2>. QED
    BY <1>1, <2>1, <2>2
<1>5. ASSUME NEW d \in Driver, TimeOut(d) \/ Interrupt(d)
      PROVE  A /\ B
  BY <1>5 DEF TimeOut, Interrupt
<1>6. \A k \in Message :
        /\ Draft(k) \/ Accept(k) \/ Insert(k) \/ Recover(k) => dest' = dest /\ wire' = wire
        /\ \A d \in Driver : Start(d, k) => dest' = dest /\ wire' = wire
  BY DEF Draft, Accept, Insert, Recover, Start, world
<1>7. \A d \in Driver :
        Order(d) \/ Defer(d) \/ Claim(d) \/ Sign(d) \/ Ask(d) \/ Commit(d) \/ Park(d)
          => dest' = dest /\ wire' = wire
  BY DEF Order, Defer, Claim, Sign, Signing, Ask, Commit, Park, world
<1>8. Authorize \/ Tick \/ UNCHANGED vars => dest' = dest /\ wire' = wire
  BY DEF Authorize, Tick, vars, world
<1>9. dest' = dest /\ wire' = wire => A /\ B
  OBVIOUS
<1>. HIDE DEF A, B
<1>10. A /\ B
  BY <1>2, <1>3, <1>4, <1>5, <1>6, <1>7, <1>8, <1>9 DEF Next, Process
<1>. QED
  BY <1>10 DEF A, B

LEMMA DraftsStep ==
  ASSUME LeaseInv, OrderInv, [Next]_vars
  PROVE  Drafts'
<1>0. /\ draft \in [Message -> Nat \cup {None}] /\ None \notin Nat /\ Len(journal) \in Nat
      /\ Len(journal) <= Len(journal') /\ Len(journal') \in Nat
  BY Limits, JournalTypes, JournalKept DEF LeaseInv, TypeOK
<1>1. ASSUME NEW n \in Message, draft[n] # None, draft'[n] = draft[n]
      PROVE  draft'[n] <= Len(journal') /\ \A i \in 1..draft'[n] : journal'[i] # n
  <2>1. draft[n] \in Nat /\ draft[n] <= Len(journal) /\ \A i \in 1..draft[n] : journal[i] # n
    BY <1>0, <1>1 DEF OrderInv, Drafts
  <2>2. \A i \in 1..draft[n] : i \in 1..Len(journal)
    BY <1>0, <2>1
  <2>. QED
    BY <1>0, <1>1, <2>1, <2>2, JournalKept
<1>2. CASE draft' = draft
  BY <1>1, <1>2 DEF Drafts
<1>3. ASSUME NEW m \in Message, Draft(m)
      PROVE  Drafts'
  <2>1. m \notin Accepted /\ draft' = [draft EXCEPT ![m] = Len(journal)] /\ journal' = journal
    BY <1>3 DEF Draft
  <2>2. draft'[m] = Len(journal) /\ \A n \in Message \ {m} : draft'[n] = draft[n]
    BY <1>0, <2>1
  <2>3. \A i \in 1..Len(journal) : journal[i] # m
    BY <2>1, JournalTypes
  <2>. QED
    BY <1>0, <1>1, <2>1, <2>2, <2>3 DEF Drafts
<1>4. ASSUME NEW m \in Message, Accept(m)
      PROVE  Drafts'
  <2>1. draft'[m] = None /\ \A n \in Message \ {m} : draft'[n] = draft[n]
    BY <1>0, <1>4 DEF Accept
  <2>. QED
    BY <1>1, <2>1 DEF Drafts
<1>5. \A m \in Message :
        /\ Insert(m) \/ Land(m) \/ Recover(m) \/ Settle(m) \/ Acknowledge(m) \/ Finalize(m)
             => draft' = draft
        /\ \A d \in Driver : Start(d, m) => draft' = draft
  BY DEF Insert, Land, Recover, Settle, Acknowledge, Finalize, Start, source
<1>6. \A d \in Driver : Process(d) \/ Interrupt(d) => draft' = draft
  BY DEF Process, Order, Defer, Claim, Sign, Signing, Send, Ask, TimeOut, Commit, Park, Interrupt,
         source
<1>7. Authorize \/ Tick \/ UNCHANGED vars => draft' = draft
  BY DEF Authorize, Tick, vars, source
<1>. QED
  BY <1>2, <1>3, <1>4, <1>5, <1>6, <1>7 DEF Next

\* What an accepted draft appends is new, and its row is not there yet.
LEMMA AppendedIsNew ==
  ASSUME LeaseInv, OrderInv, NEW m \in Message, draft[m] = Len(journal)
  PROVE  m \notin Accepted /\ ~Resolved(m)
<1>1. draft[m] # None
  BY Limits, JournalTypes
<1>2. m \notin Accepted
  BY <1>1, JournalTypes DEF OrderInv, Drafts
<1>3. row[m].status = "absent"
  BY <1>2 DEF OrderInv, RowsAccepted
<1>. QED
  BY <1>2, <1>3, RowTypes DEF Sane, Resolved

LEMMA ClearAccepted ==
  ASSUME LeaseInv, NEW m, Clear(m)
  PROVE  m \in Accepted
BY JournalTypes DEF Clear

LEMMA RowsAcceptedStep ==
  ASSUME LeaseInv, OrderInv, [Next]_vars
  PROVE  RowsAccepted'
<1>0. row \in [Message -> Record] /\ Accepted \subseteq Accepted'
  BY JournalKept DEF LeaseInv, TypeOK
<1>. SUFFICES ASSUME NEW n \in Message, row'[n].status # "absent"
              PROVE  n \in Accepted
  BY <1>0 DEF RowsAccepted
<1>1. CASE row'[n] = row[n]
  BY <1>1 DEF OrderInv, RowsAccepted
<1>2. ASSUME NEW m \in Message, NEW q, Quietly(m, q)
      PROVE  n \in Accepted
  <2>1. n # m => row'[n] = row[n]
    BY <1>0, <1>2 DEF Quietly
  <2>2. m \in Accepted
    BY <1>2 DEF Quietly, OrderInv, RowsAccepted
  <2>. QED
    BY <1>1, <2>1, <2>2
<1>3. ASSUME NEW d \in Driver, NEW q, Deciding(d, q)
      PROVE  n \in Accepted
  <2>0. call[d].of \in Message
    BY CallFields DEF LeaseInv, TypeOK
  <2>1. n # call[d].of => row'[n] = row[n]
    BY <1>0, <1>3, <2>0 DEF Deciding
  <2>2. call[d].of \in Accepted
    BY <1>3, <2>0 DEF Deciding, Live, OrderInv, RowsAccepted
  <2>. QED
    BY <1>1, <2>1, <2>2
<1>4. ASSUME NEW m \in Message, NEW q, Acknowledged(m, q)
      PROVE  n \in Accepted
  <2>1. n # m => row'[n] = row[n]
    BY <1>0, <1>4 DEF Acknowledged
  <2>2. m \in Accepted
    BY <1>4, ClearAccepted DEF Acknowledged, OrderInv, ClearSent
  <2>. QED
    BY <1>1, <2>1, <2>2
<1>. QED
  BY <1>1, <1>2, <1>3, <1>4, RowStep

LEMMA PrefixStep ==
  ASSUME LeaseInv, OrderInv, [Next]_vars
  PROVE  Distinct' /\ Prefix'
<1>0. /\ journal \in Seq(Message) /\ Len(journal) \in Nat /\ Distinct
      /\ \A k \in 1..Len(journal) : journal[k] \in Message
  BY JournalTypes DEF OrderInv
<1>1. CASE journal' = journal
  <2>1. Distinct'
    BY <1>0, <1>1 DEF Distinct
  <2>2. ASSUME NEW i \in 1..Len(journal), NEW j \in 1..Len(journal), i < j,
               row'[journal[j]].receipt \/ row'[journal[j]].status = "refused"
        PROVE  row'[journal[i]].receipt \/ row'[journal[i]].status = "refused"
    <3>1. Resolved(journal[i])
      <4>1. CASE Resolved(journal[j])
        BY <2>2, <4>1 DEF OrderInv, Prefix
      <4>2. CASE ~Resolved(journal[j])
        <5>0. \A p \in Message :
                (row'[p].receipt \/ row'[p].status = "refused") /\ ~Resolved(p) => Clear(p)
          BY DecidedInOrder DEF Resolved
        <5>1. Clear(journal[j])
          BY <1>0, <2>2, <4>2, <5>0
        <5>2. PICK k \in 1..Len(journal) :
                journal[k] = journal[j] /\ \A h \in 1..(k - 1) : Resolved(journal[h])
          BY <5>1 DEF Clear
        <5>3. k = j
          BY <1>0, <5>2 DEF Distinct
        <5>. QED
          BY <1>0, <2>2, <5>2, <5>3
      <4>. QED
        BY <4>1, <4>2
    <3>2. \A p \in Message : Resolved(p) => row'[p].receipt \/ row'[p].status = "refused"
      BY ResolvedKept DEF Resolved
    <3>. QED
      BY <1>0, <3>1, <3>2
  <2>. QED
    BY <1>1, <2>1, <2>2 DEF Prefix, Resolved
<1>2. CASE journal' # journal
  <2>1. PICK m \in Message :
          Accept(m) /\ draft[m] = Len(journal) /\ journal' = Append(journal, m)
    BY <1>2, JournalStep
  <2>2. /\ Len(journal') = Len(journal) + 1 /\ journal'[Len(journal) + 1] = m
        /\ \A i \in 1..Len(journal) : journal'[i] = journal[i]
    BY <1>0, <2>1
  <2>3. m \notin Accepted /\ ~Resolved(m) /\ row' = row
    BY <2>1, AppendedIsNew DEF Accept
  <2>4. \A i \in 1..Len(journal) : journal[i] # m
    BY <2>3, JournalTypes
  <2>5. \A i \in 1..Len(journal') : i \in 1..Len(journal) \/ i = Len(journal) + 1
    BY <1>0, <2>2
  <2>6. Distinct'
    BY <1>0, <2>2, <2>4, <2>5 DEF Distinct
  <2>7. ASSUME NEW i \in 1..Len(journal'), NEW j \in 1..Len(journal'), i < j,
               Resolved(journal'[j])
        PROVE  Resolved(journal'[i])
    <3>1. j \in 1..Len(journal)
      BY <2>2, <2>3, <2>5, <2>7
    <3>2. i \in 1..Len(journal)
      BY <1>0, <2>7, <3>1
    <3>. QED
      BY <2>2, <2>7, <3>1, <3>2 DEF OrderInv, Prefix
  <2>8. Prefix'
    BY <2>3, <2>7 DEF Prefix, Resolved
  <2>. QED
    BY <2>6, <2>8
<1>. QED
  BY <1>1, <1>2

LEMMA ClearSentStep ==
  ASSUME LeaseInv, OrderInv, [Next]_vars
  PROVE  ClearSent'
<1>0. \A d \in Driver : call[d].of \in Message
  BY CallFields DEF LeaseInv, TypeOK
<1>1. ASSUME NEW m \in Message, Clear(m)
      PROVE  Clear(m)'
  BY <1>1, ClearKept
<1>2. ASSUME NEW m \in Message, dest'[m] # "none" \/ m \in wire'
      PROVE  Clear(m)'
  <2>1. Clear(m)
    BY <1>2, AdmissionStep DEF OrderInv, ClearSent
  <2>. QED
    BY <1>1, <2>1
<1>3. ASSUME NEW d \in Driver, call'[d].at \notin Before
      PROVE  Clear(call[d].of)'
  <2>1. PICK m \in Message : m = call'[d].of /\ Clear(m)
    BY <1>3, CallsStep
  <2>2. Clear(m)'
    BY <1>1, <2>1
  <2>. QED
    BY <2>1, <2>2 DEF Clear
<1>4. wire' \subseteq Message
  BY RestStep DEF Rest
<1>. QED
  BY <1>2, <1>3, <1>4 DEF ClearSent, Before

LEMMA OrderStep ==
  ASSUME LeaseInv, OrderInv, [Next]_vars
  PROVE  OrderInv'
BY DraftsStep, RowsAcceptedStep, PrefixStep, ClearSentStep DEF OrderInv

LEMMA OrderInit == Init => OrderInv
<1>. SUFFICES ASSUME Init
              PROVE  OrderInv
  OBVIOUS
<1>1. Len(journal) = 0 /\ journal = <<>>
  BY DEF Init
<1>2. (\A m \in Message : row[m].status = "absent" /\ draft[m] = None /\ dest[m] = "none")
      /\ wire = {}
  BY DEF Init, Absent
<1>3. \A d \in Driver : call[d].at = "idle"
  BY NoCallType DEF Init
<1>. QED
  BY <1>1, <1>2, <1>3 DEF OrderInv, Distinct, Drafts, RowsAccepted, Prefix, ClearSent

LEMMA TruthInit == Init => TruthInv
<1>. SUFFICES ASSUME Init
              PROVE  TruthInv
  OBVIOUS
<1>1. \A m \in Message : row[m].status = "absent" /\ row[m].receipt = FALSE /\ dest[m] = "none"
  BY DEF Init, Absent
<1>2. \A d \in Driver : call[d].at = "idle"
  BY NoCallType DEF Init
<1>. QED
  BY <1>1, <1>2 DEF TruthInv, SourceIsTrue, Heard

DeliveryInv == LeaseInv /\ TruthInv /\ OrderInv
LEMMA DeliveryInvariant == Spec => []DeliveryInv
<1>1. Init => DeliveryInv
  BY LeaseInit, TruthInit, OrderInit DEF DeliveryInv
<1>2. DeliveryInv /\ [Next]_vars => DeliveryInv'
  BY LeaseStep, TruthStep, OrderStep DEF DeliveryInv
<1>. QED
  BY <1>1, <1>2, PTL DEF Spec

\* SourceIsTrue: what the delivery store shows of a Receipt or a settlement happened at the
\* destination, and a final settlement of a native message is known at its source.
THEOREM SourceTrue == Spec => []SourceIsTrue
<1>1. DeliveryInv => SourceIsTrue
  BY DEF DeliveryInv, TruthInv
<1>. QED
  BY <1>1, DeliveryInvariant, PTL

\* Retained submissions keep the order of the journal: what the destination admitted has
\* nothing undecided before it.
THEOREM AdmissionInOrder == Spec => [](\A m \in Message : dest[m] # "none" => Clear(m))
<1>1. DeliveryInv => \A m \in Message : dest[m] # "none" => Clear(m)
  BY DEF DeliveryInv, OrderInv, ClearSent
<1>. QED
  BY <1>1, DeliveryInvariant, PTL

-----------------------------------------------------------------------------
(***************************************************************************)
(* Retained delivery implements OrderedHandover.                            *)
(***************************************************************************)
Taken == {m \in Message : dest[m] # "none"}
Verdicts == [m \in Message |-> Verdict(row[m])]
Ended == {m \in Message : row[m].status = "processed"}

LEMMA VerdictOpen ==
  ASSUME NEW r
  PROVE  /\ Verdict(r) # "open" <=> r.receipt \/ r.status = "refused"
         /\ Verdict(r) = "refused" <=> r.status = "refused"
BY DEF Verdict

LEMMA ClearUnblocked ==
  ASSUME LeaseInv, NEW m \in Message, Clear(m)
  PROVE  Handover!Unblocked(m)
<1>1. PICK i \in 1..Len(journal) : journal[i] = m /\ \A j \in 1..(i - 1) : Resolved(journal[j])
  BY DEF Clear
<1>2. \A j \in 1..(i - 1) : j \in 1..Len(journal) /\ journal[j] \in Message
  BY JournalTypes
<1>3. \A j \in 1..(i - 1) : Verdicts[journal[j]] # "open"
  BY <1>1, <1>2, VerdictOpen DEF Verdicts, Resolved
<1>. QED
  BY <1>1, <1>3 DEF Handover!Unblocked, Handover!Position, Verdicts

LEMMA HandoverStutters ==
  ASSUME journal' = journal, Taken' = Taken, Verdicts' = Verdicts, Ended' = Ended
  PROVE  UNCHANGED Handover!vars
BY DEF Handover!vars, Taken, Verdicts, Ended

LEMMA HandoverEnds ==
  ASSUME NEW m \in Message, journal' = journal, Taken' = Taken, m \in Taken, m \notin Ended,
         Verdicts[m] # "refused", Verdicts' = [Verdicts EXCEPT ![m] = "receipt"],
         Ended' = Ended \cup {m}
  PROVE  Handover!End(m)
BY DEF Handover!End, Taken, Verdicts, Ended

LEMMA HandoverInit == Init => Handover!Init
<1>. SUFFICES ASSUME Init
              PROVE  Handover!Init
  OBVIOUS
<1>1. /\ journal = <<>>
      /\ \A m \in Message : /\ row[m].status = "absent" /\ row[m].receipt = FALSE
                            /\ dest[m] = "none"
  BY DEF Init, Absent
<1>2. Taken = {} /\ Ended = {} /\ Verdicts = [m \in Message |-> "open"]
  BY <1>1 DEF Taken, Ended, Verdicts, Verdict
<1>. QED
  BY <1>1, <1>2 DEF Handover!Init, Taken, Ended, Verdicts

\* The destination admits a clear message, or takes over nothing.
LEMMA TakenStep ==
  ASSUME DeliveryInv, [Next]_vars, row' = row, journal' = journal
  PROVE  [Handover!Next]_(Handover!vars)
<1>0. LeaseInv /\ Verdicts' = Verdicts /\ Ended' = Ended
      /\ dest \in [Message -> {"none", "accepted", "settled", "acknowledged", "final"}]
  BY DEF DeliveryInv, LeaseInv, TypeOK, Verdicts, Ended
<1>1. CASE Taken' = Taken
  BY <1>0, <1>1, HandoverStutters
<1>2. CASE Taken' # Taken
  <2>1. \A m \in Message : m \in Taken => m \in Taken'
    BY <1>0, DestStep DEF DestMoves, Taken
  <2>2. PICK m \in Message : m \in Taken' /\ m \notin Taken
    BY <1>2, <2>1 DEF Taken
  <2>3. dest[m] = "none" /\ dest'[m] # "none"
    BY <2>2 DEF Taken
  <2>4. Clear(m)
    BY <1>0, <2>3, AdmissionStep DEF DeliveryInv, OrderInv, ClearSent
  <2>. DEFINE OneMoves == \E k \in Message : dest' = [dest EXCEPT ![k] = dest'[k]]
  <2>5. OneMoves
    <3>1. ASSUME NEW k \in Message, Admits(k)
          PROVE  OneMoves
      BY <1>0, <3>1 DEF Admits
    <3>2. ASSUME NEW k \in Message, Land(k) \/ Settle(k) \/ Finalize(k) \/ Acknowledge(k)
          PROVE  OneMoves
      BY <1>0, <3>1, <3>2 DEF Land, Settle, Finalize, Acknowledge
    <3>3. ASSUME NEW d \in Driver, Send(d)
          PROVE  OneMoves
      <4>1. call[d].of \in Message /\ (dest' = dest \/ Admits(call[d].of))
        BY <1>0, <3>3, CallOf DEF Send
      <4>. QED
        BY <2>3, <3>1, <4>1
    <3>4. \A k \in Message :
            /\ Draft(k) \/ Accept(k) \/ Insert(k) \/ Recover(k) => dest' = dest
            /\ \A d \in Driver : Start(d, k) => dest' = dest
      BY DEF Draft, Accept, Insert, Recover, Start, world
    <3>5. \A d \in Driver :
            Order(d) \/ Defer(d) \/ Claim(d) \/ Sign(d) \/ Ask(d) \/ TimeOut(d) \/ Commit(d)
              \/ Park(d) \/ Interrupt(d) => dest' = dest
      BY DEF Order, Defer, Claim, Sign, Signing, Ask, TimeOut, Commit, Park, Interrupt, world
    <3>6. Authorize \/ Tick \/ UNCHANGED vars => dest' = dest
      BY DEF Authorize, Tick, vars, world
    <3>. QED
      BY <2>3, <3>2, <3>3, <3>4, <3>5, <3>6 DEF Next, Process
  <2>6. \A n \in Message : n # m => dest'[n] = dest[n]
    BY <1>0, <2>3, <2>5
  <2>7. Taken' = Taken \cup {m}
    BY <2>1, <2>2, <2>6 DEF Taken
  <2>8. Handover!Unblocked(m)
    BY <1>0, <2>4, ClearUnblocked
  <2>9. Handover!Take(m)
    BY <1>0, <2>2, <2>7, <2>8 DEF Handover!Take, Taken, Verdicts, Ended
  <2>. QED
    BY <2>9 DEF Handover!Next
<1>. QED
  BY <1>1, <1>2

LEMMA HandoverStep ==
  ASSUME DeliveryInv, [Next]_vars
  PROVE  [Handover!Next]_(Handover!vars)
<1>0. /\ LeaseInv /\ OrderInv /\ SourceIsTrue /\ Heard
      /\ row \in [Message -> Record]
      /\ dest \in [Message -> {"none", "accepted", "settled", "acknowledged", "final"}]
  BY DEF DeliveryInv, TruthInv, LeaseInv, TypeOK
<1>1. CASE row' = row
  <2>1. CASE journal' = journal
    BY <1>1, <2>1, TakenStep
  <2>2. CASE journal' # journal
    <3>1. PICK m \in Message :
            Accept(m) /\ draft[m] = Len(journal) /\ journal' = Append(journal, m)
      BY <1>0, <2>2, JournalStep
    <3>2. dest' = dest
      BY <3>1 DEF Accept, world
    <3>3. m \notin Accepted
      BY <1>0, <3>1, AppendedIsNew
    <3>4. Handover!Position(m) = {}
      BY <1>0, <3>3, JournalTypes DEF Handover!Position
    <3>5. Handover!Accept(m)
      BY <1>1, <3>1, <3>2, <3>4 DEF Handover!Accept
    <3>. QED
      BY <3>5 DEF Handover!Next
  <2>. QED
    BY <2>1, <2>2
<1>2. ASSUME NEW m \in Message, NEW q \in Record, Unmoved, Quietly(m, q)
      PROVE  UNCHANGED Handover!vars
  <2>1. ASSUME NEW n \in Message
        PROVE  /\ Verdict(row'[n]) = Verdict(row[n])
               /\ row'[n].status = "processed" <=> row[n].status = "processed"
    <3>1. n # m => row'[n] = row[n]
      BY <1>0, <1>2 DEF Quietly
    <3>2. row'[m] = q
      BY <1>0, <1>2 DEF Quietly
    <3>. QED
      BY <1>2, <3>1, <3>2 DEF Quietly, Verdict
  <2>2. Taken' = Taken /\ journal' = journal
    BY <1>2 DEF Unmoved, Taken
  <2>3. Ended' = Ended
    BY <2>1 DEF Ended
  <2>4. Verdicts' = Verdicts
    BY <2>1 DEF Verdicts
  <2>. QED
    BY <2>2, <2>3, <2>4, HandoverStutters
<1>3. ASSUME NEW d \in Driver, NEW q \in Record, Unmoved, Deciding(d, q)
      PROVE  [Handover!Next]_(Handover!vars)
  <2>1. PICK m \in Message : m = call[d].of /\ call[d].at = "heard" /\ Live(row[m])
                               /\ row' = [row EXCEPT ![m] = q]
    BY <1>0, <1>3, CallFields DEF Deciding, LeaseInv, TypeOK
  <2>2. Clear(m)
    BY <1>0, <2>1 DEF OrderInv, ClearSent
  <2>3. /\ Taken' = Taken /\ journal' = journal
        /\ call[d].reply = "receipt" => m \in Taken
        /\ call[d].reply = "settled" => m \in Taken
    BY <1>0, <1>3, <2>1 DEF Unmoved, Taken, Heard
  <2>4. /\ \/ call[d].reply = "receipt" /\ q.receipt /\ q.status = "accepted"
           \/ call[d].reply = "refused" /\ ~q.receipt /\ q.status = "refused" /\ ~row[m].receipt
           \/ call[d].reply = "settled" /\ q.receipt /\ q.status = "processed"
    BY <1>3, <2>1 DEF Deciding
  <2>5. row[m].status \in {"pending", "accepted"}
    BY <2>1 DEF Live
  <2>6. Handover!Unblocked(m)
    BY <1>0, <2>1, <2>2, ClearUnblocked
  <2>7. \A v : Verdict(q) = v => Verdicts' = [Verdicts EXCEPT ![m] = v]
    BY <1>0, <2>1 DEF Verdicts
  <2>8. Verdicts[m] = Verdict(row[m])
    BY <2>1 DEF Verdicts
  <2>9. CASE call[d].reply = "receipt"
    <3>1. q.receipt /\ q.status = "accepted"
      BY <2>4, <2>9
    <3>2. Verdict(q) = "receipt" /\ Ended' = Ended
      BY <1>0, <2>1, <2>5, <3>1 DEF Verdict, Ended
    <3>3. CASE row[m].receipt
      <4>1. Verdict(row[m]) = "receipt"
        BY <2>5, <3>3 DEF Verdict
      <4>2. Verdicts' = Verdicts
        BY <2>7, <2>8, <3>2, <4>1 DEF Verdicts
      <4>. QED
        BY <2>3, <3>2, <4>2, HandoverStutters
    <3>4. CASE ~row[m].receipt
      <4>1. Verdicts[m] = "open"
        BY <2>5, <2>8, <3>4 DEF Verdict
      <4>2. Handover!Learn(m)
        BY <2>3, <2>7, <2>9, <3>2, <4>1 DEF Handover!Learn, Taken, Verdicts, Ended
      <4>. QED
        BY <2>1, <4>2 DEF Handover!Next
    <3>. QED
      BY <3>3, <3>4
  <2>10. CASE call[d].reply = "refused"
    <3>1. ~q.receipt /\ q.status = "refused" /\ ~row[m].receipt
      BY <2>4, <2>10
    <3>2. Verdict(q) = "refused" /\ Ended' = Ended
      BY <1>0, <2>1, <2>5, <3>1 DEF Verdict, Ended
    <3>3. Verdicts[m] = "open"
      BY <2>5, <2>8, <3>1 DEF Verdict
    <3>4. Handover!Refuse(m)
      BY <2>3, <2>6, <2>7, <3>2, <3>3 DEF Handover!Refuse, Taken, Verdicts, Ended
    <3>. QED
      BY <2>1, <3>4 DEF Handover!Next
  <2>11. CASE call[d].reply = "settled"
    <3>1. q.receipt /\ q.status = "processed"
      BY <2>4, <2>11
    <3>2. Verdict(q) = "receipt" /\ Ended' = Ended \cup {m} /\ m \notin Ended
      BY <1>0, <2>1, <2>5, <3>1 DEF Verdict, Ended
    <3>3. Verdicts[m] # "refused"
      BY <2>5, <2>8 DEF Verdict
    <3>4. Verdicts' = [Verdicts EXCEPT ![m] = "receipt"] /\ m \in Taken \ Ended
      BY <2>3, <2>7, <2>11, <3>2
    <3>5. Handover!End(m)
      BY <2>1, <2>3, <3>2, <3>3, <3>4, HandoverEnds
    <3>. QED
      BY <2>1, <3>5 DEF Handover!Next
  <2>. QED
    BY <2>4, <2>9, <2>10, <2>11
<1>4. ASSUME NEW m \in Message, NEW q \in Record, Acknowledge(m), Acknowledged(m, q)
      PROVE  Handover!Next
  <2>1. /\ row' = [row EXCEPT ![m] = q] /\ q.receipt /\ q.status = "processed"
        /\ row[m].status \notin {"processed", "refused"} /\ dest[m] = "settled"
    BY <1>4 DEF Acknowledged
  <2>2. dest' = [dest EXCEPT ![m] = "acknowledged"] /\ journal' = journal
    BY <1>4 DEF Acknowledge, source
  <2>3. Taken' = Taken /\ m \in Taken
    BY <1>0, <2>1, <2>2 DEF Taken
  <2>4. Verdict(q) = "receipt" /\ Ended' = Ended \cup {m} /\ m \notin Ended
    BY <1>0, <2>1 DEF Verdict, Ended
  <2>5. Verdicts' = [Verdicts EXCEPT ![m] = "receipt"] /\ Verdicts[m] # "refused"
    BY <1>0, <2>1, <2>4, VerdictOpen DEF Verdicts
  <2>6. Handover!End(m)
    BY <2>2, <2>3, <2>4, <2>5, HandoverEnds
  <2>. QED
    BY <2>6 DEF Handover!Next
<1>. QED
  BY <1>0, <1>1, <1>2, <1>3, <1>4, RowStep

\* HandsOver: every behaviour of the outbox, its drivers and the destination is an ordered
\* hand-over, whatever is lost, late or repeated.
THEOREM DeliveryHandsOver == Spec => HandsOver
<1>1. Init => Handover!Init
  BY HandoverInit
<1>2. DeliveryInv /\ [Next]_vars => [Handover!Next]_(Handover!vars)
  BY HandoverStep
<1>. QED
  BY <1>1, <1>2, DeliveryInvariant, PTL DEF Spec, HandsOver, Handover!Spec

-----------------------------------------------------------------------------
(***************************************************************************)
(* AcceptedFits: an accepted update has its place, with or without its row. *)
(***************************************************************************)
Taking(r) == r.status = "absent" \/ Open(r)

LEMMA OccupiedStep ==
  ASSUME LeaseInv, [Next]_vars, NEW m \in Message, Taking(row'[m])
  PROVE  Taking(row[m])
<1>0. row \in [Message -> Record]
  BY DEF LeaseInv, TypeOK
<1>1. ASSUME NEW k \in Message, NEW q, Quietly(k, q)
      PROVE  Taking(row[m])
  <2>1. m # k => row'[m] = row[m]
    BY <1>0, <1>1 DEF Quietly
  <2>2. row[k].status \notin {"processed", "refused"}
    BY <1>1 DEF Quietly
  <2>3. Taking(row[k])
    BY <1>0, <2>2, RecordFields DEF Taking, Open
  <2>. QED
    BY <2>1, <2>3
<1>2. ASSUME NEW d \in Driver, NEW q, Deciding(d, q)
      PROVE  Taking(row[m])
  <2>0. call[d].of \in Message
    BY CallFields DEF LeaseInv, TypeOK
  <2>1. m # call[d].of => row'[m] = row[m]
    BY <1>0, <1>2, <2>0 DEF Deciding
  <2>2. Taking(row[call[d].of])
    BY <1>2 DEF Deciding, Live, Taking, Open
  <2>. QED
    BY <2>1, <2>2
<1>3. ASSUME NEW k \in Message, NEW q, Acknowledged(k, q)
      PROVE  Taking(row[m])
  <2>1. m # k => row'[m] = row[m]
    BY <1>0, <1>3 DEF Acknowledged
  <2>2. row'[k].status = "processed"
    BY <1>0, <1>3 DEF Acknowledged
  <2>3. m # k
    BY <2>2 DEF Taking, Open
  <2>. QED
    BY <2>1, <2>3
<1>4. row' = row => Taking(row[m])
  OBVIOUS
<1>. QED
  BY <1>1, <1>2, <1>3, <1>4, RowStep

LEMMA OccupiedIs == Occupied = {m \in Accepted : Taking(row[m])}
BY DEF Occupied, Taking

LEMMA DraftStep ==
  ASSUME LeaseInv, [Next]_vars, NEW m \in Message, draft'[m] = Len(journal)
  PROVE  draft[m] = Len(journal) \/ Cardinality(Occupied) < MaxPending
<1>0. draft \in [Message -> Nat \cup {None}] /\ Len(journal) \in Nat /\ None \notin Nat
  BY JournalTypes, Limits DEF LeaseInv, TypeOK
<1>1. CASE draft' = draft
  BY <1>1
<1>2. ASSUME NEW k \in Message, Draft(k)
      PROVE  Cardinality(Occupied) < MaxPending
  BY <1>2 DEF Draft
<1>3. ASSUME NEW k \in Message, Accept(k)
      PROVE  draft[m] = Len(journal)
  BY <1>0, <1>3 DEF Accept
<1>4. \A k \in Message :
        /\ Insert(k) \/ Land(k) \/ Recover(k) \/ Settle(k) \/ Acknowledge(k) \/ Finalize(k)
             => draft' = draft
        /\ \A d \in Driver : Start(d, k) => draft' = draft
  BY DEF Insert, Land, Recover, Settle, Acknowledge, Finalize, Start, source
<1>5. \A d \in Driver : Process(d) \/ Interrupt(d) => draft' = draft
  BY DEF Process, Order, Defer, Claim, Sign, Signing, Send, Ask, TimeOut, Commit, Park, Interrupt,
         source
<1>6. Authorize \/ Tick \/ UNCHANGED vars => draft' = draft
  BY DEF Authorize, Tick, vars, source
<1>. QED
  BY <1>1, <1>2, <1>3, <1>4, <1>5, <1>6 DEF Next

LEMMA CapacityStep ==
  ASSUME LeaseInv, OrderInv, Capacity, [Next]_vars
  PROVE  Capacity'
<1>0. /\ IsFiniteSet(Occupied) /\ Cardinality(Occupied) \in Nat /\ MaxPending \in Nat
      /\ Cardinality(Occupied) <= MaxPending
  BY Limits, FS_CardinalityType DEF Capacity
<1>1. CASE journal' = journal
  <2>1. Accepted' = Accepted /\ Accepted \subseteq Message
    BY <1>1, JournalTypes DEF Accepted
  <2>2. Occupied' \subseteq Occupied
    BY <2>1, OccupiedStep DEF Occupied, Taking
  <2>3. IsFiniteSet(Occupied') /\ Cardinality(Occupied') <= Cardinality(Occupied)
        /\ Cardinality(Occupied') \in Nat
    BY <1>0, <2>2, FS_Subset, FS_CardinalityType
  <2>4. ASSUME NEW m \in Message, draft'[m] = Len(journal')
        PROVE  Cardinality(Occupied') < MaxPending
    BY <1>0, <1>1, <2>3, <2>4, DraftStep DEF Capacity
  <2>. QED
    BY <1>0, <2>3, <2>4 DEF Capacity
<1>2. CASE journal' # journal
  <2>1. PICK m \in Message :
          Accept(m) /\ draft[m] = Len(journal) /\ journal' = Append(journal, m)
    BY <1>2, JournalStep
  <2>2. m \notin Accepted /\ row' = row
    BY <2>1, AppendedIsNew DEF Accept
  <2>3. Accepted' = Accepted \cup {m} /\ Len(journal') = Len(journal) + 1 /\ Len(journal) \in Nat
    BY <2>1, JournalTypes DEF Accepted
  <2>4. row[m].status = "absent"
    BY <2>2 DEF OrderInv, RowsAccepted
  <2>5. Occupied' = Occupied \cup {m} /\ m \notin Occupied
    BY <2>2, <2>3, <2>4 DEF Occupied
  <2>6. IsFiniteSet(Occupied') /\ Cardinality(Occupied') = Cardinality(Occupied) + 1
    BY <1>0, <2>5, FS_AddElement
  <2>7. Cardinality(Occupied) < MaxPending
    BY <2>1 DEF Capacity
  <2>8. ASSUME NEW n \in Message
        PROVE  draft'[n] # Len(journal')
    <3>1. draft'[n] # None => draft'[n] = draft[n] /\ draft[n] # None
      BY <2>1 DEF Accept, LeaseInv, TypeOK
    <3>2. draft[n] # None => draft[n] \in Nat /\ draft[n] <= Len(journal)
      BY DEF OrderInv, Drafts, LeaseInv, TypeOK
    <3>. QED
      BY <2>3, <3>1, <3>2, Limits
  <2>. QED
    BY <1>0, <2>6, <2>7, <2>8 DEF Capacity
<1>. QED
  BY <1>1, <1>2

LEMMA CapacityInit == Init => Capacity
<1>. SUFFICES ASSUME Init
              PROVE  Capacity
  OBVIOUS
<1>1. Occupied = {}
  BY DEF Init, Occupied, Accepted
<1>2. IsFiniteSet(Occupied) /\ Cardinality(Occupied) = 0
  BY <1>1, FS_EmptySet
<1>3. \A m \in Message : draft[m] = None
  BY DEF Init
<1>. QED
  BY <1>2, <1>3, Limits, MessageDeliveryConstants DEF Capacity, Init

\* AcceptedFits: the row of an accepted update always finds room, so that a repair
\* (projectMissingAcceptedUpdates) does not fail for capacity.
THEOREM AcceptedFit == Spec => []AcceptedFits
<1>1. Init => Capacity
  BY CapacityInit
<1>2. DeliveryInv /\ Capacity /\ [Next]_vars => Capacity'
  BY CapacityStep DEF DeliveryInv
<1>3. DeliveryInv /\ Capacity => AcceptedFits
  <2>. SUFFICES ASSUME DeliveryInv, Capacity, Occupied # Stored
                PROVE  Room
    BY DEF AcceptedFits
  <2>1. Stored \subseteq Occupied
    BY DEF Stored, Occupied, Open, DeliveryInv, OrderInv, RowsAccepted
  <2>2. IsFiniteSet(Occupied) /\ Cardinality(Occupied) <= MaxPending /\ MaxPending \in Nat
    BY Limits DEF Capacity
  <2>3. /\ Cardinality(Stored) <= Cardinality(Occupied) /\ IsFiniteSet(Stored)
        /\ Cardinality(Stored) # Cardinality(Occupied)
    BY <2>1, <2>2, FS_Subset
  <2>4. Cardinality(Stored) \in Nat /\ Cardinality(Occupied) \in Nat
    BY <2>2, <2>3, FS_CardinalityType
  <2>. QED
    BY <2>2, <2>3, <2>4 DEF Room
<1>. QED
  BY <1>1, <1>2, <1>3, DeliveryInvariant, PTL DEF Spec

=============================================================================
