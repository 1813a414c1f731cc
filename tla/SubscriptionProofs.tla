------------------------ MODULE SubscriptionProofs -------------------------
(***************************************************************************)
(* Machine-checked proofs about the subscriptions of a source partition.    *)
(* What every action makes of the registrations, the events, the rows and    *)
(* the calls is stated once, first; the invariants are then proved over      *)
(* those effects, each on top of the one before: types, the order of the     *)
(* sequence, selection, routing, compaction, delivery and the allowance.     *)
(* For any number of drivers, and of registrations if they are finitely      *)
(* many, and for any events, configurations, failures and interruptions.     *)
(***************************************************************************)
EXTENDS Subscription, FiniteSetTheorems, WellFoundedInduction, TLAPS

-----------------------------------------------------------------------------
(***************************************************************************)
(* The constants.                                                           *)
(***************************************************************************)
LEMMA Limits ==
  /\ IsFiniteSet(Sub)
  /\ \A c \in Config : Wants[c] \in SUBSET Event
  /\ Once \subseteq Config /\ Sourced \subseteq Once
  /\ Sender \subseteq Driver
  /\ None \notin Envelope /\ None \notin Config /\ None \notin Event
  /\ None # "preparation" /\ None # "admission"
  /\ BatchSize \in Nat /\ BatchSize >= 1 /\ MaxAutomatic \in Nat /\ MaxAutomatic >= 1
  /\ MaxTombstones \in Nat /\ MaxSequence \in Nat /\ MaxRecovery \in Nat /\ MaxFault \in Nat
BY SubscriptionConstants

-----------------------------------------------------------------------------
(***************************************************************************)
(* What is known of a call beyond its type.                                 *)
(***************************************************************************)
Handling == {"observe", "prepare", "freeze", "send", "complete", "refuse", "retry", "failed"}
Seeker == {"list", "seek", "giveUp", "catchUp", "defer"}
Bound(c) ==
  /\ c.at \in Handling => c.sub \in Sub /\ c.event \in Event
  /\ c.at \in Seeker => c.sub \in Sub
  /\ c.at \in {"select", "catchUp"} => c.event \in Event
  /\ c.at \in {"freeze", "send"} => c.envelope \in Envelope
  /\ c.at = "refuse" => c.phase # None
\* What is known of a registration beyond its type.
Sound(r) ==
  /\ r.state = "absent" => r.revision = 0
  /\ r.state # "absent" => r.config \in Config
TypeInv ==
  /\ TypeOK
  /\ misses \in [Sub -> [Event -> Nat]]
  /\ \A s \in Sub : Sound(reg[s])
  /\ \A d \in Driver : Bound(call[d])

LEMMA Rows ==
  ASSUME TypeInv, NEW s \in Sub, NEW e \in Event
  PROVE  /\ reg[s] \in Registration /\ event[e] \in Retained /\ delivery[s][e] \in Delivery
         /\ dest[s][e] \in [kind : {"none", "admitted", "settled"}, envelope : Envelope \cup {None}]
         /\ misses[s][e] \in Nat /\ Sound(reg[s])
BY DEF TypeInv, TypeOK

LEMMA RegRow ==
  ASSUME TypeInv, NEW s \in Sub
  PROVE  reg[s] \in Registration /\ Sound(reg[s])
BY DEF TypeInv, TypeOK

LEMMA Calls ==
  ASSUME TypeInv, NEW d \in Driver
  PROVE  call[d] \in Call /\ Bound(call[d])
BY DEF TypeInv, TypeOK

LEMMA RowFields ==
  ASSUME NEW r \in Delivery
  PROVE  /\ r.state \in {"absent", "selected", "prepared", "delivered", "refused"}
         /\ r.config \in Config \cup {None} /\ r.envelope \in Envelope \cup {None}
         /\ r.phase \in {None, "preparation", "admission"} /\ r.settled \in BOOLEAN
         /\ r.generation \in 0..MaxRecovery /\ r.generation \in Nat
         /\ r.attempts \in Nat /\ r.automatic \in Nat /\ r.parked \in BOOLEAN
         /\ r.envelope # None <=> r.state \in {"prepared", "delivered"} \/ r.phase = "admission"
         /\ r.phase # None <=> r.state = "refused"
         /\ r.settled => r.state = "delivered"
BY Limits DEF Delivery

LEMMA RegFields ==
  ASSUME NEW r \in Registration
  PROVE  /\ r.state \in {"absent", "active", "paused", "cancelled", "consumed"}
         /\ r.revision \in Nat /\ r.config \in Config \cup {None}
         /\ r.ordinal \in 0..MaxSequence /\ r.ordinal \in Nat /\ r.seeking \in BOOLEAN
BY Limits DEF Registration, Position

LEMMA EventFields ==
  ASSUME NEW r \in Retained
  PROVE  /\ r.state \in {"absent", "live", "tombstone"}
         /\ r.cutoff \in 0..MaxSequence /\ r.cutoff \in Nat
         /\ r.cursor \in 0..MaxSequence /\ r.cursor \in Nat /\ r.routed \in BOOLEAN
BY Limits DEF Retained, Position

LEMMA CallFields ==
  ASSUME NEW c \in Call
  PROVE  /\ c.at \in {"idle"} \cup {"select"} \cup Seeker \cup Handling
         /\ c.sub \in Sub \cup {None} /\ c.event \in Event \cup {None}
         /\ c.page \in SUBSET (Sub \X Nat) /\ c.cursor \in Nat /\ c.last \in Nat
         /\ c.complete \in BOOLEAN /\ c.revision \in Nat
         /\ c.generation \in 0..MaxRecovery /\ c.generation \in Nat
         /\ c.attempts \in Nat /\ c.automatic \in Nat
         /\ c.envelope \in Envelope \cup {None} /\ c.phase \in {None, "preparation", "admission"}
BY Limits DEF Call, Handling, Seeker, Position

-----------------------------------------------------------------------------
(***************************************************************************)
(* The changes of a row.  Each keeps its type.                              *)
(***************************************************************************)
LEMMA NoDeliveryIsOne == NoDelivery \in Delivery
BY Limits DEF NoDelivery, Delivery

LEMMA ChosenEffect ==
  ASSUME NEW s, reg[s].config \in Config
  PROVE  /\ Chosen(s) \in Delivery /\ Chosen(s).state = "selected"
         /\ Chosen(s).config = reg[s].config /\ Chosen(s).envelope = None
         /\ Chosen(s).phase = None /\ ~Chosen(s).settled /\ Chosen(s).generation = 0
         /\ Chosen(s).automatic = 0 /\ ~Chosen(s).parked
<1>. DEFINE u(c) == [NoDelivery EXCEPT !.state = "selected", !.config = c]
<1>1. ASSUME NEW c \in Config PROVE u(c) \in Delivery
  <2>1. /\ 0 \in 0..MaxRecovery /\ None \in Envelope \cup {None} /\ FALSE \in BOOLEAN /\ 0 \in Nat
        /\ None \notin {"preparation", "admission"}
    BY Limits
  <2>. QED
    BY <2>1 DEF NoDelivery, Delivery
<1>3. \A c \in Config :
        /\ u(c).state = "selected" /\ u(c).config = c
        /\ u(c).envelope = None /\ u(c).phase = None /\ ~u(c).settled /\ u(c).generation = 0
        /\ u(c).automatic = 0 /\ ~u(c).parked
  BY DEF NoDelivery
<1>2. Chosen(s) = u(reg[s].config)
  BY DEF Chosen
<1>. HIDE DEF u
<1>. QED
  BY <1>1, <1>2, <1>3

\* What a change of a row that is there leaves alone.
Same(r, q) ==
  /\ q \in Delivery /\ q.state # "absent" /\ q.config = r.config

LEMMA PreparedEffect ==
  ASSUME NEW s, NEW r \in Delivery, r.state = "selected", NEW v \in Envelope
  PROVE  LET q == Prepared(s, r, v)
         IN  /\ Same(r, q) /\ q.generation = r.generation /\ q.automatic = r.automatic
             /\ q.parked = r.parked /\ ~q.settled
             /\ Barred(s, r) => q.state = "refused" /\ q.phase = "preparation" /\ q.envelope = None
             /\ ~Barred(s, r) => q.state = "prepared" /\ q.phase = None /\ q.envelope = v
<1>1. r.envelope = None /\ r.phase = None /\ ~r.settled
  BY RowFields, Limits
<1>2. CASE Barred(s, r)
  BY <1>1, <1>2, Limits DEF Prepared, Delivery, Same
<1>3. CASE ~Barred(s, r)
  BY <1>1, <1>3, Limits DEF Prepared, Delivery, Same
<1>. QED
  BY <1>2, <1>3

LEMMA RetriedEffect ==
  ASSUME NEW r \in Delivery, Open(r), NEW c \in Call
  PROVE  LET q == Retried(r, c)
         IN  /\ Same(r, q) /\ q.state = r.state /\ q.generation = r.generation
             /\ q.phase = r.phase /\ q.envelope = r.envelope /\ q.settled = r.settled
             /\ \/ q = r
                \/ /\ c.generation = r.generation /\ q.automatic = c.automatic + 1
                   /\ q.parked <=> c.automatic + 1 >= MaxAutomatic
<1>1. r.state # "absent"
  BY DEF Open
<1>2. CASE c.generation # r.generation \/ c.attempts + 1 <= r.attempts
  BY <1>1, <1>2 DEF Retried, Same
<1>3. CASE ~(c.generation # r.generation \/ c.attempts + 1 <= r.attempts)
  <2>1. c.attempts + 1 \in Nat /\ c.automatic + 1 \in Nat
        /\ (c.automatic + 1 >= MaxAutomatic) \in BOOLEAN
    BY CallFields
  <2>. DEFINE u(a, b, p) == [r EXCEPT !.attempts = a, !.automatic = b, !.parked = p]
  <2>2. \A a, b \in Nat, p \in BOOLEAN :
          /\ u(a, b, p) \in Delivery
    BY DEF Delivery
  <2>4. \A a, b \in Nat, p \in BOOLEAN :
          /\ u(a, b, p).state = r.state /\ u(a, b, p).config = r.config
          /\ u(a, b, p).generation = r.generation /\ u(a, b, p).phase = r.phase
          /\ u(a, b, p).envelope = r.envelope /\ u(a, b, p).settled = r.settled
          /\ u(a, b, p).automatic = b /\ u(a, b, p).parked = p
    BY DEF Delivery
  <2>. DEFINE full == c.automatic + 1 >= MaxAutomatic
  <2>3. Retried(r, c) = u(c.attempts + 1, c.automatic + 1, full)
    BY <1>3 DEF Retried
  <2>5. full \in BOOLEAN
    BY <2>1
  <2>. HIDE DEF u, full
  <2>6. /\ Same(r, Retried(r, c)) /\ Retried(r, c).state = r.state
        /\ Retried(r, c).generation = r.generation /\ Retried(r, c).phase = r.phase
        /\ Retried(r, c).envelope = r.envelope /\ Retried(r, c).settled = r.settled
        /\ Retried(r, c).automatic = c.automatic + 1
        /\ Retried(r, c).parked = full
    BY <1>1, <2>1, <2>2, <2>3, <2>4, <2>5 DEF Same
  <2>7. c.generation = r.generation
    BY <1>3
  <2>. QED
    BY <2>6, <2>7 DEF full
<1>. QED
  BY <1>2, <1>3

LEMMA RecoveredEffect ==
  ASSUME NEW r \in Delivery, Open(r), r.generation < MaxRecovery
  PROVE  LET q == Recovered(r)
         IN  /\ Same(r, q) /\ q.state = r.state /\ q.generation = r.generation + 1
             /\ q.phase = r.phase /\ q.envelope = r.envelope /\ q.settled = r.settled
             /\ q.automatic = 0 /\ ~q.parked
<1>1. r.state # "absent" /\ r.generation + 1 \in 0..MaxRecovery
  BY RowFields, Limits DEF Open
<1>. QED
  BY <1>1 DEF Recovered, Delivery, Same

LEMMA DeliveredEffect ==
  ASSUME NEW r \in Delivery, r.state = "prepared"
  PROVE  LET q == [r EXCEPT !.state = "delivered"]
         IN  /\ Same(r, q) /\ q.state = "delivered" /\ q.generation = r.generation
             /\ q.phase = r.phase /\ q.envelope = r.envelope /\ q.settled = r.settled
             /\ q.automatic = r.automatic /\ q.parked = r.parked
BY DEF Delivery, Same

LEMMA SettledEffect ==
  ASSUME NEW r \in Delivery, r.state = "delivered"
  PROVE  LET q == [r EXCEPT !.settled = TRUE]
         IN  /\ Same(r, q) /\ q.state = "delivered" /\ q.generation = r.generation
             /\ q.phase = r.phase /\ q.envelope = r.envelope /\ q.settled
             /\ q.automatic = r.automatic /\ q.parked = r.parked
BY DEF Delivery, Same

LEMMA RefusedEffect ==
  ASSUME NEW r \in Delivery, NEW p \in {"preparation", "admission"}, Refuses(r, p)
  PROVE  LET q == [r EXCEPT !.state = "refused", !.phase = p]
         IN  /\ Same(r, q) /\ q.state = "refused" /\ q.generation = r.generation
             /\ q.phase = p /\ q.envelope = r.envelope /\ ~q.settled
             /\ q.automatic = r.automatic /\ q.parked = r.parked
<1>1. ~r.settled /\ r.phase = None /\ (r.envelope # None <=> p = "admission") /\ p # None
  BY RowFields, Limits DEF Refuses
<1>2. [r EXCEPT !.state = "refused", !.phase = p] \in Delivery
  BY <1>1, Limits DEF Delivery
<1>. QED
  BY <1>1, <1>2 DEF Delivery, Same

-----------------------------------------------------------------------------
(***************************************************************************)
(* What a step makes of one call and of one row.                            *)
(***************************************************************************)
Turned(d) ==
  /\ call' \in [Driver -> Call] /\ Bound(call'[d])
  /\ \A x \in Driver \ {d} : call'[x] = call[x]
Rested(d) == Turned(d) /\ call'[d].at = "idle"
\* A handling call goes on, with the delivery it is about and what it read of it.
Onward(d) ==
  /\ Turned(d) /\ call[d].at \in Handling /\ call'[d].at \in Handling
  /\ call'[d].sub = call[d].sub /\ call'[d].event = call[d].event
  /\ call'[d].generation = call[d].generation /\ call'[d].automatic = call[d].automatic
\* A call that reads the delivery of s and e.
Reads(d, s, e) ==
  /\ Turned(d) /\ call'[d].at \in Handling /\ delivery[s][e].state # "absent"
  /\ call'[d].sub = s /\ call'[d].event = e
  /\ call'[d].generation = delivery[s][e].generation
  /\ call'[d].automatic = delivery[s][e].automatic
Written(s, e) ==
  /\ delivery' \in [Sub -> [Event -> Delivery]]
  /\ \A t \in Sub, f \in Event : t # s \/ f # e => delivery'[t][f] = delivery[t][f]

LEMMA TurnEffect ==
  ASSUME TypeInv, NEW d \in Driver, NEW c \in Call, Bound(c), call' = [call EXCEPT ![d] = c]
  PROVE  Turned(d) /\ call'[d] = c
<1>1. call \in [Driver -> Call]
  BY DEF TypeInv, TypeOK
<1>. QED
  BY <1>1 DEF Turned

LEMMA WriteEffect ==
  ASSUME TypeInv, NEW s \in Sub, NEW e \in Event, NEW r \in Delivery,
         delivery' = [delivery EXCEPT ![s][e] = r]
  PROVE  Written(s, e) /\ delivery'[s][e] = r
<1>1. delivery \in [Sub -> [Event -> Delivery]]
  BY DEF TypeInv, TypeOK
<1>. QED
  BY <1>1 DEF Written

LEMMA NoCallIsOne == NoCall \in Call /\ Bound(NoCall) /\ NoCall.at = "idle"
<1>1. NoCall \in Call
  <2>1. 0 \in Nat /\ 0 \in Position /\ 0 \in 0..MaxRecovery /\ {} \in SUBSET (Sub \X Nat)
    BY Limits DEF Position
  <2>. QED
    BY <2>1 DEF NoCall, Call
<1>. QED
  BY <1>1 DEF NoCall, Bound, Handling, Seeker

LEMMA IdleEffect ==
  ASSUME TypeInv, NEW d \in Driver, Idle(d)
  PROVE  Rested(d)
BY NoCallIsOne, TurnEffect DEF Idle, Rested

LEMMA AtEffect ==
  ASSUME TypeInv, NEW d \in Driver, NEW step \in Handling, call[d].at \in Handling, At(d, step),
         step \in {"freeze", "send"} => call[d].envelope \in Envelope, step # "refuse"
  PROVE  /\ Onward(d) /\ call'[d].at = step /\ call'[d].envelope = call[d].envelope
<1>. DEFINE c == [call[d] EXCEPT !.at = step]
<1>1. call[d] \in Call /\ Bound(call[d])
  BY Calls
<1>2. /\ c \in Call /\ c.at = step /\ c.sub = call[d].sub /\ c.event = call[d].event
      /\ c.generation = call[d].generation /\ c.automatic = call[d].automatic
      /\ c.envelope = call[d].envelope
  BY <1>1 DEF Call, Handling
<1>3. call' = [call EXCEPT ![d] = c]
  <2>1. call \in [Driver -> Call]
    BY DEF TypeInv, TypeOK
  <2>. QED
    BY <2>1 DEF At
<1>. HIDE DEF c
<1>4. Bound(c)
  BY <1>1, <1>2 DEF Bound, Handling, Seeker
<1>. QED
  BY <1>2, <1>3, <1>4, TurnEffect DEF Onward

LEMMA RefusalCallEffect ==
  ASSUME TypeInv, NEW d \in Driver, call[d].at \in Handling,
         NEW p \in {"preparation", "admission"},
         call' = [call EXCEPT ![d].at = "refuse", ![d].phase = p]
  PROVE  /\ Onward(d) /\ call'[d].at = "refuse" /\ call'[d].phase = p
<1>. DEFINE c == [call[d] EXCEPT !.at = "refuse", !.phase = p]
<1>1. call[d] \in Call /\ Bound(call[d])
  BY Calls
<1>2. /\ c \in Call /\ c.at = "refuse" /\ c.sub = call[d].sub /\ c.event = call[d].event
      /\ c.generation = call[d].generation /\ c.automatic = call[d].automatic
      /\ c.phase = p
  BY <1>1 DEF Call
<1>3. call' = [call EXCEPT ![d] = c]
  <2>1. call \in [Driver -> Call]
    BY DEF TypeInv, TypeOK
  <2>. QED
    BY <2>1
<1>. HIDE DEF c
<1>4. Bound(c)
  BY <1>1, <1>2, Limits DEF Bound, Handling, Seeker
<1>. QED
  BY <1>2, <1>3, <1>4, TurnEffect DEF Onward, Handling

LEMMA FreezeCallEffect ==
  ASSUME TypeInv, NEW d \in Driver, call[d].at \in Handling, NEW v \in Envelope,
         call' = [call EXCEPT ![d].at = "freeze", ![d].envelope = v]
  PROVE  /\ Onward(d) /\ call'[d].at = "freeze" /\ call'[d].envelope = v
<1>. DEFINE c == [call[d] EXCEPT !.at = "freeze", !.envelope = v]
<1>1. call[d] \in Call /\ Bound(call[d])
  BY Calls
<1>2. /\ c \in Call /\ c.at = "freeze" /\ c.sub = call[d].sub /\ c.event = call[d].event
      /\ c.generation = call[d].generation /\ c.automatic = call[d].automatic
      /\ c.envelope = v
  BY <1>1 DEF Call
<1>3. call' = [call EXCEPT ![d] = c]
  <2>1. call \in [Driver -> Call]
    BY DEF TypeInv, TypeOK
  <2>. QED
    BY <2>1
<1>. HIDE DEF c
<1>4. Bound(c)
  BY <1>1, <1>2, Limits DEF Bound, Handling, Seeker
<1>. QED
  BY <1>2, <1>3, <1>4, TurnEffect DEF Onward, Handling

Begun(s, e, a, x, g, n, m) ==
  [NoCall EXCEPT !.at = a, !.sub = s, !.event = e, !.envelope = x, !.generation = g,
                 !.attempts = n, !.automatic = m]
LEMMA BegunType ==
  ASSUME NEW s \in Sub, NEW e \in Event, NEW a \in Handling, NEW x \in Envelope \cup {None},
         NEW g \in 0..MaxRecovery, NEW n \in Nat, NEW m \in Nat
  PROVE  Begun(s, e, a, x, g, n, m) \in Call
<1>1. NoCall \in Call /\ s \in Sub \cup {None} /\ e \in Event \cup {None}
  BY NoCallIsOne
<1>. HIDE DEF NoCall
<1>. QED
  BY <1>1 DEF Begun, Call, Handling
LEMMA BegunFields ==
  ASSUME NEW s, NEW e, NEW a, NEW x, NEW g, NEW n, NEW m
  PROVE  LET c == Begun(s, e, a, x, g, n, m)
         IN  /\ c.at = a /\ c.sub = s /\ c.event = e /\ c.envelope = x /\ c.generation = g
             /\ c.automatic = m
BY DEF Begun, NoCall

ReadAgain(c, g, n, m) ==
  [c EXCEPT !.at = "retry", !.generation = g, !.attempts = n, !.automatic = m]
LEMMA ReadAgainEffect ==
  ASSUME NEW c \in Call, NEW g \in 0..MaxRecovery, NEW n \in Nat, NEW m \in Nat
  PROVE  LET q == ReadAgain(c, g, n, m)
         IN  /\ q \in Call /\ q.at = "retry" /\ q.sub = c.sub /\ q.event = c.event
             /\ q.generation = g /\ q.automatic = m
BY DEF ReadAgain, Call

\* A failure that comes to be counted.
Missed(s, e) ==
  /\ misses' \in [Sub -> [Event -> Nat]]
  /\ \A t \in Sub, f \in Event : t # s \/ f # e => misses'[t][f] = misses[t][f]
  /\ misses'[s][e] = IF misses[s][e] < MaxAutomatic THEN misses[s][e] + 1 ELSE misses[s][e]
\* Only calls that go to count have failed, and all that read the generation that is stored.
Tallies(d) ==
  \/ call'[d].at = "retry" /\ Missed(call[d].sub, call[d].event)
  \/ /\ misses' = misses
     /\ call'[d].at = "retry" =>
          call'[d].generation # delivery[call[d].sub][call[d].event].generation

LEMMA MissEffect ==
  ASSUME TypeInv, NEW d \in Driver, call[d].at \in Handling, Miss(d)
  PROVE  Missed(call[d].sub, call[d].event)
<1>. DEFINE s == call[d].sub  e == call[d].event
<1>1. s \in Sub /\ e \in Event
  BY Calls DEF Bound
<1>2. misses \in [Sub -> [Event -> Nat]]
  BY DEF TypeInv
<1>3. misses' = [misses EXCEPT ![s][e] = IF @ < MaxAutomatic THEN @ + 1 ELSE @]
  BY DEF Miss
<1>4. (IF misses[s][e] < MaxAutomatic THEN misses[s][e] + 1 ELSE misses[s][e]) \in Nat
  BY <1>1, <1>2, Limits
<1>. QED
  BY <1>1, <1>2, <1>3, <1>4 DEF Missed

-----------------------------------------------------------------------------
(***************************************************************************)
(* The actions.                                                             *)
(***************************************************************************)
LEMMA BeginEffect ==
  ASSUME TypeInv, NEW d \in Driver, NEW s \in Sub, NEW e \in Event, Begin(d, s, e)
  PROVE  /\ Reads(d, s, e)
         /\ call'[d].at \in {"observe", "prepare", "send"}
         /\ call'[d].at = "send" =>
              delivery[s][e].state = "prepared" /\ call'[d].envelope = delivery[s][e].envelope
         /\ UNCHANGED <<store, dest, age, faults, taken, misses>>
<1>. DEFINE r == delivery[s][e]
            step == IF r.state = "delivered" THEN "observe"
                    ELSE IF r.state = "selected" THEN "prepare" ELSE "send"
            c == Begun(s, e, step, r.envelope, r.generation, r.attempts, r.automatic)
<1>1. r \in Delivery
  BY Rows
<1>2. /\ r.state \in {"selected", "prepared", "delivered"}
      /\ call' = [call EXCEPT ![d] = c]
      /\ UNCHANGED <<store, dest, age, faults, taken, misses>>
  BY DEF Begin, Reading, Open, Begun
<1>3. /\ step \in {"observe", "prepare", "send"}
      /\ step = "send" => r.state = "prepared"
  BY <1>2
<1>. HIDE DEF r, step
<1>4. /\ r.envelope \in Envelope \cup {None} /\ r.generation \in 0..MaxRecovery
      /\ r.attempts \in Nat /\ r.automatic \in Nat
      /\ step = "send" => r.envelope \in Envelope
  BY <1>1, <1>3, RowFields
<1>6. /\ c \in Call /\ c.at = step /\ c.sub = s /\ c.event = e /\ c.envelope = r.envelope
      /\ c.generation = r.generation /\ c.automatic = r.automatic
  <2>1. step \in Handling
    BY <1>3 DEF Handling
  <2>2. c \in Call
    BY <1>4, <2>1, BegunType
  <2>3. /\ c.at = step /\ c.sub = s /\ c.event = e /\ c.envelope = r.envelope
        /\ c.generation = r.generation /\ c.automatic = r.automatic
    BY BegunFields
  <2>. QED
    BY <2>2, <2>3
<1>. HIDE DEF c
<1>7. Bound(c)
  BY <1>3, <1>4, <1>6 DEF Bound, Handling, Seeker
<1>8. Turned(d) /\ call'[d] = c
  BY <1>2, <1>6, <1>7, TurnEffect
<1>. QED
  BY <1>2, <1>3, <1>6, <1>8 DEF Reads, Handling, r

LEMMA FailedEffect ==
  ASSUME TypeInv, NEW d \in Driver, Failed(d)
  PROVE  /\ call[d].at \in Handling /\ call[d].sub \in Sub /\ call[d].event \in Event
         /\ \/ Rested(d)
            \/ Reads(d, call[d].sub, call[d].event) /\ call'[d].at = "retry"
         /\ Tallies(d) /\ UNCHANGED <<store, dest, age, faults, taken>>
<1>1. call[d] \in Call /\ call[d].at = "failed" /\ call[d].sub \in Sub /\ call[d].event \in Event
  BY Calls DEF Failed, Bound, Handling
<1>2. CASE Idle(d) /\ UNCHANGED misses
  BY <1>1, <1>2, IdleEffect DEF Failed, Handling, Rested, Tallies
<1>3. CASE /\ Open(Row(d)) /\ Miss(d)
           /\ call' = [call EXCEPT ![d] = Reading([@ EXCEPT !.at = "retry"], Row(d))]
  <2>. DEFINE s == call[d].sub  e == call[d].event  r == delivery[s][e]
              c == ReadAgain(call[d], r.generation, r.attempts, r.automatic)
  <2>1. r \in Delivery /\ Open(r)
    BY <1>1, <1>3, Rows DEF Row
  <2>2. call' = [call EXCEPT ![d] = c]
    <3>1. call \in [Driver -> Call]
      BY DEF TypeInv, TypeOK
    <3>. QED
      BY <1>3, <3>1 DEF Row, Reading, ReadAgain
  <2>3. /\ r.generation \in 0..MaxRecovery /\ r.attempts \in Nat /\ r.automatic \in Nat
        /\ r.state # "absent"
    BY <2>1, RowFields DEF Open
  <2>5. /\ c \in Call /\ c.at = "retry" /\ c.sub = s /\ c.event = e
        /\ c.generation = r.generation /\ c.automatic = r.automatic
    <3>1. call[d] \in Call
      BY <1>1
    <3>. HIDE DEF r
    <3>2. c \in Call
      BY <2>3, <3>1, ReadAgainEffect
    <3>3. /\ c.at = "retry" /\ c.sub = s /\ c.event = e
          /\ c.generation = r.generation /\ c.automatic = r.automatic
      BY <3>1 DEF ReadAgain, Call
    <3>. QED
      BY <3>2, <3>3
  <2>. HIDE DEF c
  <2>6. Bound(c)
    BY <1>1, <2>5 DEF Bound, Handling, Seeker
  <2>7. Turned(d) /\ call'[d] = c
    BY <2>2, <2>5, <2>6, TurnEffect
  <2>8. Reads(d, s, e) /\ call'[d].at = "retry"
    BY <2>3, <2>5, <2>7 DEF Reads, Handling
  <2>9. Tallies(d)
    BY <1>1, <1>3, <2>8, MissEffect DEF Tallies, Handling
  <2>. QED
    BY <1>1, <2>8, <2>9 DEF Failed, Handling
<1>. QED
  BY <1>2, <1>3 DEF Failed

\* A row that is there is rewritten.
Rewritten(s, e) ==
  /\ Written(s, e) /\ delivery[s][e].state # "absent" /\ Same(delivery[s][e], delivery'[s][e])
SameCount(s, e) ==
  /\ delivery'[s][e].generation = delivery[s][e].generation
  /\ delivery'[s][e].automatic = delivery[s][e].automatic
  /\ delivery'[s][e].parked = delivery[s][e].parked
SameAnswer(s, e) ==
  /\ delivery'[s][e].state = delivery[s][e].state
  /\ delivery'[s][e].phase = delivery[s][e].phase
  /\ delivery'[s][e].envelope = delivery[s][e].envelope
  /\ delivery'[s][e].settled = delivery[s][e].settled

LEMMA RewriteEffect ==
  ASSUME TypeInv, NEW s \in Sub, NEW e \in Event, delivery[s][e].state # "absent",
         NEW r, Same(delivery[s][e], r), delivery' = [delivery EXCEPT ![s][e] = r]
  PROVE  Rewritten(s, e) /\ delivery'[s][e] = r
<1>1. r \in Delivery
  BY DEF Same
<1>2. Written(s, e) /\ delivery'[s][e] = r
  BY <1>1, WriteEffect
<1>. QED
  BY <1>2 DEF Rewritten

\* The delivery a call handles.
LEMMA Subject ==
  ASSUME TypeInv, NEW d \in Driver, call[d].at \in Handling
  PROVE  /\ call[d] \in Call /\ call[d].sub \in Sub /\ call[d].event \in Event
         /\ delivery[call[d].sub][call[d].event] \in Delivery
         /\ Row(d) = delivery[call[d].sub][call[d].event]
<1>1. call[d] \in Call /\ call[d].sub \in Sub /\ call[d].event \in Event
  BY Calls DEF Bound
<1>. QED
  BY <1>1, Rows DEF Row

\* What a call that goes on without an answer does.
Fails(d) == Onward(d) /\ call'[d].at = "failed"
Misses(d) == Onward(d) /\ call'[d].at = "retry"
LEMMA FailsEffect ==
  ASSUME TypeInv, NEW d \in Driver, call[d].at \in Handling, At(d, "failed"), UNCHANGED misses
  PROVE  Fails(d) /\ Tallies(d)
BY AtEffect DEF Fails, Handling, Tallies
LEMMA FailEffect ==
  ASSUME TypeInv, NEW d \in Driver, call[d].at \in Handling, Fail(d)
  PROVE  Misses(d) /\ Tallies(d)
<1>1. Onward(d) /\ call'[d].at = "retry"
  BY AtEffect DEF Fail, Handling
<1>2. CASE Miss(d)
  BY <1>1, <1>2, MissEffect DEF Misses, Tallies
<1>3. CASE UNCHANGED misses /\ call[d].generation # Row(d).generation
  BY <1>1, <1>3 DEF Misses, Tallies, Onward, Row
<1>. QED
  BY <1>2, <1>3 DEF Fail

LEMMA PrepareEffect ==
  ASSUME TypeInv, NEW d \in Driver, Prepare(d)
  PROVE  /\ Onward(d) /\ call'[d].at \in {"failed", "refuse", "freeze", "retry"}
         /\ Tallies(d) /\ UNCHANGED <<store, dest, age, taken>>
<1>. DEFINE refuse == call' = [call EXCEPT ![d].at = "refuse", ![d].phase = "preparation"]
<1>1. /\ call[d].at \in Handling /\ call[d].at = "prepare"
      /\ UNCHANGED <<store, dest, age, taken>>
  BY DEF Prepare, Handling
<1>2. \/ At(d, "failed") /\ UNCHANGED misses
      \/ Fail(d)
      \/ refuse /\ UNCHANGED misses
      \/ /\ UNCHANGED misses
         /\ \E v \in Envelope : call' = [call EXCEPT ![d].at = "freeze", ![d].envelope = v]
  BY DEF Prepare
<1>3. CASE At(d, "failed") /\ UNCHANGED misses
  BY <1>1, <1>3, FailsEffect DEF Fails
<1>4. CASE Fail(d)
  BY <1>1, <1>4, FailEffect DEF Misses
<1>5. CASE refuse /\ UNCHANGED misses
  BY <1>1, <1>5, RefusalCallEffect DEF Tallies
<1>6. CASE /\ UNCHANGED misses
           /\ \E v \in Envelope : call' = [call EXCEPT ![d].at = "freeze", ![d].envelope = v]
  BY <1>1, <1>6, FreezeCallEffect DEF Tallies
<1>. QED
  BY <1>2, <1>3, <1>4, <1>5, <1>6

\* A call that sends the envelope it froze goes on with the delivery as it is stored.
Sends(d, s, e) ==
  /\ Turned(d) /\ call'[d].at = "send" /\ call'[d].sub = s /\ call'[d].event = e
  /\ delivery[s][e].state # "absent" /\ delivery'[s][e].envelope = call'[d].envelope
  /\ call'[d].generation = delivery'[s][e].generation
  /\ call'[d].automatic = delivery'[s][e].automatic

GoesOn(c, g, n, m) ==
  [c EXCEPT !.at = "send", !.generation = g, !.attempts = n, !.automatic = m]
LEMMA GoesOnEffect ==
  ASSUME NEW c \in Call, NEW g \in 0..MaxRecovery, NEW n \in Nat, NEW m \in Nat
  PROVE  LET q == GoesOn(c, g, n, m)
         IN  /\ q \in Call /\ q.at = "send" /\ q.sub = c.sub /\ q.event = c.event
             /\ q.envelope = c.envelope /\ q.generation = g /\ q.automatic = m
BY DEF GoesOn, Call

LEMMA SendsEffect ==
  ASSUME TypeInv, NEW d \in Driver, call[d].at = "freeze", NEW r \in Delivery,
         call' = [call EXCEPT ![d] = Reading([@ EXCEPT !.at = "send"], r)],
         delivery'[call[d].sub][call[d].event] = r, r.envelope = call[d].envelope,
         delivery[call[d].sub][call[d].event].state # "absent"
  PROVE  Sends(d, call[d].sub, call[d].event)
<1>. DEFINE c == GoesOn(call[d], r.generation, r.attempts, r.automatic)
<1>1. /\ call[d] \in Call /\ call[d].envelope \in Envelope
      /\ call[d].sub \in Sub /\ call[d].event \in Event
  BY Calls DEF Bound, Handling
<1>2. call' = [call EXCEPT ![d] = c]
  <2>1. call \in [Driver -> Call]
    BY DEF TypeInv, TypeOK
  <2>. QED
    BY <2>1 DEF Reading, GoesOn
<1>3. r.generation \in 0..MaxRecovery /\ r.attempts \in Nat /\ r.automatic \in Nat
  BY RowFields
<1>4. /\ c \in Call /\ c.at = "send" /\ c.sub = call[d].sub /\ c.event = call[d].event
      /\ c.envelope = call[d].envelope /\ c.generation = r.generation
      /\ c.automatic = r.automatic
  BY <1>1, <1>3, GoesOnEffect
<1>. HIDE DEF c
<1>5. Bound(c)
  BY <1>1, <1>4 DEF Bound, Handling, Seeker
<1>6. Turned(d) /\ call'[d] = c
  BY <1>2, <1>4, <1>5, TurnEffect
<1>. QED
  BY <1>4, <1>6 DEF Sends

\* What the first preparation to be stored makes of the delivery.
Froze(d, s, e) ==
  /\ delivery[s][e].state = "selected" /\ Rewritten(s, e) /\ SameCount(s, e)
  /\ ~delivery'[s][e].settled
  /\ \/ /\ delivery'[s][e].state = "refused" /\ delivery'[s][e].phase = "preparation"
        /\ delivery'[s][e].envelope = None
     \/ /\ delivery'[s][e].state = "prepared" /\ delivery'[s][e].phase = None
        /\ delivery'[s][e].envelope = call[d].envelope

LEMMA FreezeEffect ==
  ASSUME TypeInv, NEW d \in Driver, Freeze(d)
  PROVE  /\ call[d].at = "freeze" /\ call[d].at \in Handling
         /\ \/ /\ Froze(d, call[d].sub, call[d].event) \/ UNCHANGED delivery
               /\ Rested(d) \/ Sends(d, call[d].sub, call[d].event) \/ Misses(d)
            \/ Fails(d) /\ UNCHANGED delivery
         /\ Tallies(d) /\ UNCHANGED <<seq, reg, event, dest, age, taken>>
<1>. DEFINE s == call[d].sub  e == call[d].event  r == delivery[s][e]  v == call[d].envelope
            fits == r.state = "selected" \/ (r.state = "prepared" /\ r.envelope = v)
            q == IF r.state = "selected" THEN Prepared(s, r, v) ELSE r
<1>1. /\ call[d].at = "freeze" /\ call[d].at \in Handling
      /\ UNCHANGED <<seq, reg, event, dest, age, taken>>
  BY DEF Freeze, Handling
<1>2. /\ s \in Sub /\ e \in Event /\ r \in Delivery /\ Row(d) = r /\ v \in Envelope
  BY <1>1, Subject, Calls DEF Bound
<1>3. \/ /\ fits /\ Store(d, q)
         /\ \/ /\ IF q.state = "refused" THEN Idle(d)
                  ELSE call' = [call EXCEPT ![d] = Reading([@ EXCEPT !.at = "send"], q)]
               /\ UNCHANGED misses
            \/ Fail(d)
      \/ At(d, "failed") /\ UNCHANGED delivery /\ UNCHANGED misses
  BY <1>2 DEF Freeze
<1>4. CASE At(d, "failed") /\ UNCHANGED delivery /\ UNCHANGED misses
  BY <1>1, <1>4, FailsEffect
<1>5. ASSUME fits, Store(d, q)
      PROVE  /\ q \in Delivery /\ delivery'[s][e] = q /\ r.state # "absent"
             /\ Froze(d, s, e) \/ UNCHANGED delivery
             /\ q.state # "refused" => q.envelope = v
  <2>1. delivery' = [delivery EXCEPT ![s][e] = q] /\ r.state # "absent"
    BY <1>5 DEF Store
  <2>2. CASE r.state = "selected"
    <3>1. /\ Same(r, q) /\ q.generation = r.generation /\ q.automatic = r.automatic
          /\ q.parked = r.parked /\ ~q.settled
          /\ \/ q.state = "refused" /\ q.phase = "preparation" /\ q.envelope = None
             \/ q.state = "prepared" /\ q.phase = None /\ q.envelope = v
      BY <1>2, <2>2, PreparedEffect
    <3>. HIDE DEF q
    <3>2. Rewritten(s, e) /\ delivery'[s][e] = q
      BY <1>2, <2>1, <3>1, RewriteEffect
    <3>3. Froze(d, s, e)
      BY <2>2, <3>1, <3>2 DEF Froze, SameCount
    <3>. QED
      BY <2>1, <3>1, <3>2, <3>3 DEF Same
  <2>3. CASE r.state # "selected"
    <3>1. q = r /\ r.state = "prepared" /\ r.envelope = v
      BY <1>5, <2>3
    <3>2. delivery \in [Sub -> [Event -> Delivery]]
      BY DEF TypeInv, TypeOK
    <3>3. delivery' = delivery
      BY <1>2, <2>1, <3>1, <3>2
    <3>. QED
      BY <1>2, <2>1, <3>1, <3>3
  <2>. QED
    BY <2>2, <2>3
<1>. HIDE DEF q
<1>6. CASE fits /\ Store(d, q) /\ Fail(d)
  BY <1>1, <1>5, <1>6, FailEffect
<1>7. CASE /\ fits /\ Store(d, q) /\ UNCHANGED misses
           /\ q.state = "refused" /\ Idle(d)
  BY <1>1, <1>5, <1>7, IdleEffect DEF Rested, Tallies
<1>8. CASE /\ fits /\ Store(d, q) /\ UNCHANGED misses /\ q.state # "refused"
           /\ call' = [call EXCEPT ![d] = Reading([@ EXCEPT !.at = "send"], q)]
  <2>1. Sends(d, s, e)
    BY <1>1, <1>5, <1>8, SendsEffect
  <2>. QED
    BY <1>1, <1>5, <1>8, <2>1 DEF Sends, Tallies
<1>. QED
  BY <1>3, <1>4, <1>6, <1>7, <1>8

-----------------------------------------------------------------------------
\* The destination has been asked to admit the envelope v.
Admitted(s, e, v) ==
  /\ dest' \in [Sub -> [Event -> [kind : {"none", "admitted", "settled"},
                                  envelope : Envelope \cup {None}]]]
  /\ \A t \in Sub, f \in Event : t # s \/ f # e => dest'[t][f] = dest[t][f]
  /\ dest'[s][e].kind # "none"
  /\ dest[s][e].kind # "none" => dest'[s][e] = dest[s][e]
  /\ dest[s][e].kind = "none" => dest'[s][e].kind = "admitted" /\ dest'[s][e].envelope = v

LEMMA AdmitsEffect ==
  ASSUME TypeInv, NEW s \in Sub, NEW e \in Event, NEW v \in Envelope, Admits(s, e, v)
  PROVE  Admitted(s, e, v)
<1>1. dest \in [Sub -> [Event -> [kind : {"none", "admitted", "settled"},
                                  envelope : Envelope \cup {None}]]]
  BY DEF TypeInv, TypeOK
<1>2. CASE dest[s][e].kind = "none"
  <2>1. dest' = [dest EXCEPT ![s][e] = [kind |-> "admitted", envelope |-> v]]
    BY <1>2 DEF Admits
  <2>. QED
    BY <1>1, <1>2, <2>1 DEF Admitted
<1>3. CASE dest[s][e].kind # "none"
  BY <1>1, <1>3 DEF Admits, Admitted
<1>. QED
  BY <1>2, <1>3

LEMMA SendEffect ==
  ASSUME TypeInv, NEW d \in Driver, Send(d)
  PROVE  /\ call[d].at = "send" /\ Onward(d)
         /\ \/ UNCHANGED dest /\ call'[d].at \in {"failed", "retry", "refuse"}
            \/ /\ Admitted(call[d].sub, call[d].event, call[d].envelope)
               /\ call'[d].at \in {"complete", "retry"}
         /\ Tallies(d) /\ UNCHANGED <<store, age, taken>>
<1>. DEFINE admits == Admits(call[d].sub, call[d].event, call[d].envelope)
            refuse == call' = [call EXCEPT ![d].at = "refuse", ![d].phase = "admission"]
<1>1. /\ call[d].at = "send" /\ call[d].at \in Handling
      /\ UNCHANGED <<store, age, taken>>
  BY DEF Send, Handling
<1>2. call[d].sub \in Sub /\ call[d].event \in Event /\ call[d].envelope \in Envelope
  BY <1>1, Subject, Calls DEF Bound
<1>3. "complete" \in Handling
  BY DEF Handling
<1>4. \/ UNCHANGED dest /\ At(d, "failed") /\ UNCHANGED misses
      \/ UNCHANGED dest /\ Fail(d)
      \/ UNCHANGED dest /\ refuse /\ UNCHANGED misses
      \/ admits /\ At(d, "complete") /\ UNCHANGED misses
      \/ admits /\ Fail(d)
  BY DEF Send
<1>5. CASE UNCHANGED dest /\ At(d, "failed") /\ UNCHANGED misses
  BY <1>1, <1>5, FailsEffect DEF Fails
<1>6. CASE UNCHANGED dest /\ Fail(d)
  BY <1>1, <1>6, FailEffect DEF Misses
<1>7. CASE UNCHANGED dest /\ refuse /\ UNCHANGED misses
  BY <1>1, <1>7, RefusalCallEffect DEF Tallies
<1>8. CASE admits /\ At(d, "complete") /\ UNCHANGED misses
  BY <1>1, <1>2, <1>3, <1>8, AtEffect, AdmitsEffect DEF Tallies
<1>9. CASE admits /\ Fail(d)
  BY <1>1, <1>2, <1>9, FailEffect, AdmitsEffect DEF Misses
<1>. QED
  BY <1>4, <1>5, <1>6, <1>7, <1>8, <1>9

Receipted(s, e) ==
  /\ delivery[s][e].state = "prepared" /\ Rewritten(s, e) /\ SameCount(s, e)
  /\ delivery'[s][e].state = "delivered" /\ delivery'[s][e].phase = delivery[s][e].phase
  /\ delivery'[s][e].envelope = delivery[s][e].envelope
  /\ delivery'[s][e].settled = delivery[s][e].settled
LEMMA CompleteEffect ==
  ASSUME TypeInv, NEW d \in Driver, Complete(d)
  PROVE  /\ call[d].at = "complete" /\ call[d].at \in Handling
         /\ \/ Receipted(call[d].sub, call[d].event) /\ Rested(d)
            \/ UNCHANGED delivery /\ Rested(d)
            \/ UNCHANGED delivery /\ Fails(d)
         /\ UNCHANGED <<seq, reg, event, dest, age, faults, taken, misses>>
<1>. DEFINE s == call[d].sub  e == call[d].event  r == delivery[s][e]
<1>1. /\ call[d].at = "complete" /\ call[d].at \in Handling
      /\ UNCHANGED <<seq, reg, event, dest, age, faults, taken, misses>>
  BY DEF Complete, Handling
<1>2. s \in Sub /\ e \in Event /\ r \in Delivery /\ Row(d) = r
  BY <1>1, Subject
<1>3. \/ r.state = "prepared" /\ Store(d, [r EXCEPT !.state = "delivered"]) /\ Idle(d)
      \/ Idle(d) /\ UNCHANGED delivery
      \/ At(d, "failed") /\ UNCHANGED delivery
  BY <1>2 DEF Complete
<1>4. CASE r.state = "prepared" /\ Store(d, [r EXCEPT !.state = "delivered"]) /\ Idle(d)
  <2>. DEFINE q == [r EXCEPT !.state = "delivered"]
  <2>1. /\ Same(r, q) /\ q.state = "delivered" /\ q.generation = r.generation
        /\ q.phase = r.phase /\ q.envelope = r.envelope /\ q.settled = r.settled
        /\ q.automatic = r.automatic /\ q.parked = r.parked
    BY <1>2, <1>4, DeliveredEffect
  <2>2. delivery' = [delivery EXCEPT ![s][e] = q] /\ r.state # "absent"
    BY <1>4 DEF Store
  <2>. HIDE DEF q
  <2>3. Rewritten(s, e) /\ delivery'[s][e] = q
    BY <1>2, <2>1, <2>2, RewriteEffect
  <2>4. Receipted(s, e)
    BY <1>4, <2>1, <2>3 DEF Receipted, SameCount
  <2>. QED
    BY <1>1, <1>4, <2>4, IdleEffect
<1>5. CASE Idle(d) /\ UNCHANGED delivery
  BY <1>1, <1>5, IdleEffect
<1>6. CASE At(d, "failed") /\ UNCHANGED delivery
  BY <1>1, <1>6, FailsEffect
<1>. QED
  BY <1>3, <1>4, <1>5, <1>6

Declined(s, e, p) ==
  /\ p \in {"preparation", "admission"} /\ Refuses(delivery[s][e], p)
  /\ Rewritten(s, e) /\ SameCount(s, e)
  /\ delivery'[s][e].state = "refused" /\ delivery'[s][e].phase = p
  /\ delivery'[s][e].envelope = delivery[s][e].envelope /\ ~delivery'[s][e].settled
LEMMA RefuseEffect ==
  ASSUME TypeInv, NEW d \in Driver, Refuse(d)
  PROVE  /\ call[d].at = "refuse" /\ call[d].at \in Handling
         /\ \/ Declined(call[d].sub, call[d].event, call[d].phase) /\ Rested(d)
            \/ UNCHANGED delivery /\ Rested(d)
            \/ UNCHANGED delivery /\ Fails(d)
         /\ UNCHANGED <<seq, reg, event, dest, age, faults, taken, misses>>
<1>. DEFINE s == call[d].sub  e == call[d].event  r == delivery[s][e]  p == call[d].phase
<1>1. /\ call[d].at = "refuse" /\ call[d].at \in Handling
      /\ UNCHANGED <<seq, reg, event, dest, age, faults, taken, misses>>
  BY DEF Refuse, Handling
<1>2. s \in Sub /\ e \in Event /\ r \in Delivery /\ Row(d) = r
  BY <1>1, Subject
<1>7. p \in {"preparation", "admission"}
  BY <1>1, Calls, CallFields DEF Bound
<1>3. \/ Refuses(r, p) /\ Store(d, [r EXCEPT !.state = "refused", !.phase = p]) /\ Idle(d)
      \/ Idle(d) /\ UNCHANGED delivery
      \/ At(d, "failed") /\ UNCHANGED delivery
  BY <1>2 DEF Refuse
<1>4. CASE Refuses(r, p) /\ Store(d, [r EXCEPT !.state = "refused", !.phase = p]) /\ Idle(d)
  <2>. DEFINE q == [r EXCEPT !.state = "refused", !.phase = p]
  <2>1. /\ Same(r, q) /\ q.state = "refused" /\ q.generation = r.generation
        /\ q.phase = p /\ q.envelope = r.envelope /\ ~q.settled
        /\ q.automatic = r.automatic /\ q.parked = r.parked
    BY <1>2, <1>4, <1>7, RefusedEffect
  <2>2. delivery' = [delivery EXCEPT ![s][e] = q] /\ r.state # "absent"
    BY <1>4 DEF Store, Refuses
  <2>. HIDE DEF q
  <2>3. Rewritten(s, e) /\ delivery'[s][e] = q
    BY <1>2, <2>1, <2>2, RewriteEffect
  <2>4. Declined(s, e, p)
    BY <1>4, <1>7, <2>1, <2>3 DEF Declined, SameCount
  <2>. QED
    BY <1>1, <1>4, <2>4, IdleEffect
<1>5. CASE Idle(d) /\ UNCHANGED delivery
  BY <1>1, <1>5, IdleEffect
<1>6. CASE At(d, "failed") /\ UNCHANGED delivery
  BY <1>1, <1>6, FailsEffect
<1>. QED
  BY <1>3, <1>4, <1>5, <1>6

Counted(d, s, e) ==
  /\ Open(delivery[s][e]) /\ Rewritten(s, e) /\ SameAnswer(s, e)
  /\ delivery'[s][e].generation = delivery[s][e].generation
  /\ \/ SameCount(s, e)
     \/ /\ call[d].generation = delivery[s][e].generation
        /\ delivery'[s][e].automatic = call[d].automatic + 1
        /\ delivery'[s][e].parked <=> call[d].automatic + 1 >= MaxAutomatic

LEMMA RetryEffect ==
  ASSUME TypeInv, NEW d \in Driver, Retry(d)
  PROVE  /\ call[d].at = "retry" /\ call[d].at \in Handling /\ Rested(d)
         /\ Counted(d, call[d].sub, call[d].event) \/ UNCHANGED delivery
         /\ UNCHANGED <<seq, reg, event, dest, age, faults, taken, misses>>
<1>. DEFINE s == call[d].sub  e == call[d].event  r == delivery[s][e]
<1>1. /\ call[d].at = "retry" /\ call[d].at \in Handling
      /\ UNCHANGED <<seq, reg, event, dest, age, faults, taken, misses>>
  BY DEF Retry, Handling
<1>2. s \in Sub /\ e \in Event /\ r \in Delivery /\ Row(d) = r /\ call[d] \in Call
  BY <1>1, Subject
<1>3. /\ Idle(d)
      /\ \/ Open(r) /\ Store(d, Retried(r, call[d]))
         \/ UNCHANGED delivery
  BY <1>2 DEF Retry
<1>4. CASE Open(r) /\ Store(d, Retried(r, call[d]))
  <2>. DEFINE q == Retried(r, call[d])
  <2>1. /\ Same(r, q) /\ q.state = r.state /\ q.generation = r.generation
        /\ q.phase = r.phase /\ q.envelope = r.envelope /\ q.settled = r.settled
        /\ \/ q = r
           \/ /\ call[d].generation = r.generation /\ q.automatic = call[d].automatic + 1
              /\ q.parked <=> call[d].automatic + 1 >= MaxAutomatic
    BY <1>2, <1>4, RetriedEffect
  <2>2. delivery' = [delivery EXCEPT ![s][e] = q] /\ r.state # "absent"
    BY <1>4 DEF Store, Open
  <2>. HIDE DEF q
  <2>3. Rewritten(s, e) /\ delivery'[s][e] = q
    BY <1>2, <2>1, <2>2, RewriteEffect
  <2>4. SameAnswer(s, e)
    BY <2>1, <2>3 DEF SameAnswer
  <2>5. \/ SameCount(s, e)
        \/ /\ call[d].generation = r.generation /\ delivery'[s][e].automatic = call[d].automatic + 1
           /\ delivery'[s][e].parked <=> call[d].automatic + 1 >= MaxAutomatic
    BY <2>1, <2>3 DEF SameCount
  <2>6. Counted(d, s, e)
    BY <1>4, <2>1, <2>3, <2>4, <2>5 DEF Counted
  <2>. QED
    BY <1>1, <1>3, <2>6, IdleEffect
<1>5. CASE UNCHANGED delivery
  BY <1>1, <1>3, <1>5, IdleEffect
<1>. QED
  BY <1>3, <1>4, <1>5

SettledBy(s, e) ==
  /\ dest[s][e].kind = "settled" /\ delivery[s][e].state = "delivered"
  /\ Rewritten(s, e) /\ SameCount(s, e)
  /\ delivery'[s][e].state = "delivered" /\ delivery'[s][e].settled
  /\ delivery'[s][e].phase = delivery[s][e].phase
  /\ delivery'[s][e].envelope = delivery[s][e].envelope
LEMMA ObserveEffect ==
  ASSUME TypeInv, NEW d \in Driver, Observe(d)
  PROVE  /\ call[d].at \in Handling /\ Rested(d)
         /\ SettledBy(call[d].sub, call[d].event) \/ UNCHANGED delivery
         /\ UNCHANGED <<seq, reg, event, dest, age, faults, taken, misses>>
<1>. DEFINE s == call[d].sub  e == call[d].event  r == delivery[s][e]
<1>1. /\ call[d].at \in Handling /\ Idle(d)
      /\ UNCHANGED <<seq, reg, event, dest, age, faults, taken, misses>>
  BY DEF Observe, Handling
<1>2. s \in Sub /\ e \in Event /\ r \in Delivery /\ Row(d) = r
  BY <1>1, Subject
<1>3. \/ /\ dest[s][e].kind = "settled" /\ r.state = "delivered"
         /\ Store(d, [r EXCEPT !.settled = TRUE])
      \/ UNCHANGED delivery
  BY <1>2 DEF Observe
<1>4. CASE /\ dest[s][e].kind = "settled" /\ r.state = "delivered"
           /\ Store(d, [r EXCEPT !.settled = TRUE])
  <2>. DEFINE q == [r EXCEPT !.settled = TRUE]
  <2>1. /\ Same(r, q) /\ q.state = "delivered" /\ q.generation = r.generation
        /\ q.phase = r.phase /\ q.envelope = r.envelope /\ q.settled
        /\ q.automatic = r.automatic /\ q.parked = r.parked
    BY <1>2, <1>4, SettledEffect
  <2>2. delivery' = [delivery EXCEPT ![s][e] = q] /\ r.state # "absent"
    BY <1>4 DEF Store
  <2>. HIDE DEF q
  <2>3. Rewritten(s, e) /\ delivery'[s][e] = q
    BY <1>2, <2>1, <2>2, RewriteEffect
  <2>4. SettledBy(s, e)
    BY <1>4, <2>1, <2>3 DEF SettledBy, SameCount
  <2>. QED
    BY <1>1, <2>4, IdleEffect
<1>5. CASE UNCHANGED delivery
  BY <1>1, <1>5, IdleEffect
<1>. QED
  BY <1>3, <1>4, <1>5

Reset(s, e) ==
  /\ Open(delivery[s][e]) /\ Rewritten(s, e) /\ SameAnswer(s, e)
  /\ delivery'[s][e].generation = delivery[s][e].generation + 1
  /\ delivery'[s][e].automatic = 0 /\ ~delivery'[s][e].parked
  /\ misses' \in [Sub -> [Event -> Nat]]
  /\ \A t \in Sub, f \in Event : t # s \/ f # e => misses'[t][f] = misses[t][f]
  /\ misses'[s][e] = 0
LEMMA RecoverEffect ==
  ASSUME TypeInv, NEW s \in Sub, NEW e \in Event, Recover(s, e)
  PROVE  /\ Reset(s, e)
         /\ UNCHANGED <<seq, reg, event, call, dest, age, faults, taken>>
<1>. DEFINE r == delivery[s][e]  q == Recovered(r)
<1>1. r \in Delivery /\ Open(r) /\ r.generation < MaxRecovery
  BY Rows DEF Recover
<1>2. /\ Same(r, q) /\ q.state = r.state /\ q.generation = r.generation + 1
      /\ q.phase = r.phase /\ q.envelope = r.envelope /\ q.settled = r.settled
      /\ q.automatic = 0 /\ ~q.parked
  BY <1>1, RecoveredEffect
<1>3. delivery' = [delivery EXCEPT ![s][e] = q] /\ r.state # "absent"
  <2>1. delivery \in [Sub -> [Event -> Delivery]]
    BY DEF TypeInv, TypeOK
  <2>. QED
    BY <1>1, <2>1 DEF Recover, Open
<1>. HIDE DEF q
<1>4. Rewritten(s, e) /\ delivery'[s][e] = q
  BY <1>2, <1>3, RewriteEffect
<1>5. SameAnswer(s, e)
  BY <1>2, <1>4 DEF SameAnswer
<1>6. /\ misses' \in [Sub -> [Event -> Nat]] /\ misses'[s][e] = 0
      /\ \A t \in Sub, f \in Event : t # s \/ f # e => misses'[t][f] = misses[t][f]
  <2>1. misses \in [Sub -> [Event -> Nat]]
    BY DEF TypeInv
  <2>. QED
    BY <2>1 DEF Recover
<1>7. Reset(s, e)
  BY <1>1, <1>2, <1>4, <1>5, <1>6 DEF Reset
<1>. QED
  BY <1>7 DEF Recover

Removed(s, e) == Written(s, e) /\ delivery'[s][e] = NoDelivery
LEMMA ReclaimDeliveryEffect ==
  ASSUME TypeInv, NEW s \in Sub, NEW e \in Event, ReclaimDelivery(s, e)
  PROVE  /\ Removed(s, e) /\ Finished(delivery[s][e]) /\ event[e].state # "absent"
         /\ Reclaimable(e) /\ UNCHANGED <<seq, reg, event, call, dest, age, faults, taken, misses>>
BY NoDeliveryIsOne, WriteEffect DEF ReclaimDelivery, Removed

SettlesFor(s, e) ==
  /\ dest' \in [Sub -> [Event -> [kind : {"none", "admitted", "settled"},
                                  envelope : Envelope \cup {None}]]]
  /\ \A t \in Sub, f \in Event : t # s \/ f # e => dest'[t][f] = dest[t][f]
  /\ dest[s][e].kind = "admitted" /\ dest'[s][e].kind = "settled"
  /\ dest'[s][e].envelope = dest[s][e].envelope
LEMMA SettleEffect ==
  ASSUME TypeInv, NEW s \in Sub, NEW e \in Event, Settle(s, e)
  PROVE  SettlesFor(s, e) /\ UNCHANGED <<store, call, age, faults, taken, misses>>
<1>1. dest \in [Sub -> [Event -> [kind : {"none", "admitted", "settled"},
                                  envelope : Envelope \cup {None}]]]
  BY DEF TypeInv, TypeOK
<1>. QED
  BY <1>1 DEF Settle, SettlesFor

-----------------------------------------------------------------------------
(* Registrations. *)
RegTyped(s) ==
  /\ reg' \in [Sub -> Registration] /\ Sound(reg'[s])
  /\ \A t \in Sub : t # s => reg'[t] = reg[t]
\* A control revision puts the registration behind what was accepted before it.
Controlled(s) ==
  /\ RegTyped(s)
  /\ seq' = seq + 1 /\ seq' \in Position
  /\ reg'[s].state \in {"active", "paused"} /\ reg[s].state \in {"absent", "active", "paused"}
  /\ reg'[s].revision = reg[s].revision + 1 /\ reg'[s].ordinal = seq + 1
Cancelled(s) ==
  /\ RegTyped(s)
  /\ reg[s].state # "absent" /\ reg'[s].state = "cancelled"
  /\ reg'[s].revision = reg[s].revision + 1 /\ reg'[s].ordinal = reg[s].ordinal

LEMMA SeqNext ==
  ASSUME TypeInv, seq < MaxSequence
  PROVE  seq \in Nat /\ seq + 1 \in Position /\ seq + 1 \in Nat
BY Limits DEF TypeInv, TypeOK, Position

LEMMA RegSet ==
  ASSUME TypeInv, NEW s \in Sub, NEW r \in Registration, Sound(r), reg' = [reg EXCEPT ![s] = r]
  PROVE  RegTyped(s) /\ reg'[s] = r
<1>1. reg \in [Sub -> Registration]
  BY DEF TypeInv, TypeOK
<1>. QED
  BY <1>1 DEF RegTyped

Recorded(t, n, c, o, k) ==
  [state |-> t, revision |-> n, config |-> c, ordinal |-> o, seeking |-> k]
LEMMA RecordedEffect ==
  ASSUME NEW t \in {"active", "paused", "cancelled", "consumed"}, NEW n \in Nat, NEW c \in Config,
         NEW o \in Position, NEW k \in BOOLEAN
  PROVE  LET r == Recorded(t, n, c, o, k)
         IN  /\ r \in Registration /\ Sound(r) /\ r.state = t /\ r.revision = n /\ r.config = c
             /\ r.ordinal = o /\ r.seeking = k
BY DEF Recorded, Registration, Sound

LEMMA RevisedEffect ==
  ASSUME NEW r \in Registration, NEW p \in Position
  PROVE  LET q == [r EXCEPT !.revision = @ + 1, !.ordinal = p]
         IN  /\ q \in Registration /\ q.state = r.state /\ q.revision = r.revision + 1
             /\ q.config = r.config /\ q.ordinal = p /\ q.seeking = r.seeking
<1>1. r.revision + 1 \in Nat
  BY RegFields
<1>. QED
  BY <1>1 DEF Registration

LEMMA RetargetedEffect ==
  ASSUME NEW r \in Registration, NEW c \in Config, NEW k \in BOOLEAN
  PROVE  LET q == [r EXCEPT !.config = c, !.seeking = k]
         IN  /\ q \in Registration /\ q.state = r.state /\ q.revision = r.revision
             /\ q.config = c /\ q.ordinal = r.ordinal /\ q.seeking = k
BY DEF Registration

LEMMA CancelledEffect ==
  ASSUME NEW r \in Registration
  PROVE  LET q == [r EXCEPT !.state = "cancelled", !.revision = @ + 1, !.seeking = FALSE]
         IN  /\ q \in Registration /\ q.state = "cancelled" /\ q.revision = r.revision + 1
             /\ q.config = r.config /\ q.ordinal = r.ordinal /\ ~q.seeking
<1>1. r.revision + 1 \in Nat
  BY RegFields
<1>. QED
  BY <1>1 DEF Registration

LEMMA RegisterEffect ==
  ASSUME TypeInv, NEW s \in Sub, NEW c \in Config, Register(s, c)
  PROVE  Controlled(s) /\ UNCHANGED <<event, delivery, call, dest, age, faults, taken, misses>>
<1>. DEFINE k == c \in Sourced  r == Recorded("active", 1, c, seq + 1, k)
<1>1. seq + 1 \in Position /\ k \in BOOLEAN
  BY SeqNext DEF Register
<1>2. reg[s] \in Registration /\ Sound(reg[s])
  BY RegRow
<1>3. reg' = [reg EXCEPT ![s] = r] /\ seq' = seq + 1 /\ reg[s].state = "absent"
  BY DEF Register, Recorded
<1>4. /\ r \in Registration /\ Sound(r) /\ r.state = "active" /\ r.revision = 1
      /\ r.ordinal = seq + 1
  <2>. HIDE DEF k
  <2>. QED
    BY <1>1, RecordedEffect
<1>. HIDE DEF r
<1>5. RegTyped(s) /\ reg'[s] = r
  BY <1>3, <1>4, RegSet
<1>6. reg[s].revision = 0
  BY <1>2, <1>3 DEF Sound
<1>. QED
  BY <1>1, <1>3, <1>4, <1>5, <1>6 DEF Controlled, Register

LEMMA ReviseEffect ==
  ASSUME TypeInv, NEW s \in Sub, NEW r \in Registration, Revise(s, r),
         r.state \in {"active", "paused"}, r.revision = reg[s].revision, Sound(r)
  PROVE  Controlled(s) /\ UNCHANGED <<event, delivery, call, dest, age, faults, taken, misses>>
<1>. DEFINE q == [r EXCEPT !.revision = @ + 1, !.ordinal = seq + 1]
<1>1. seq + 1 \in Position
  BY SeqNext DEF Revise
<1>2. /\ q \in Registration /\ q.state = r.state /\ q.revision = r.revision + 1
      /\ q.config = r.config /\ q.ordinal = seq + 1 /\ q.seeking = r.seeking
  BY <1>1, RevisedEffect
<1>3. reg' = [reg EXCEPT ![s] = q]
  BY DEF Revise
<1>. HIDE DEF q
<1>4. Sound(q)
  BY <1>2 DEF Sound
<1>5. RegTyped(s) /\ reg'[s] = q
  BY <1>2, <1>3, <1>4, RegSet
<1>. QED
  BY <1>1, <1>2, <1>5 DEF Controlled, Revise

LEMMA UpdateEffect ==
  ASSUME TypeInv, NEW s \in Sub, NEW c \in Config, Update(s, c)
  PROVE  Controlled(s) /\ UNCHANGED <<event, delivery, call, dest, age, faults, taken, misses>>
<1>. DEFINE k == c \in Sourced
            r == [reg[s] EXCEPT !.config = c, !.seeking = k]
<1>1. reg[s] \in Registration /\ Sound(reg[s])
  BY RegRow
<1>2. reg[s].state \in {"active", "paused"}
  BY DEF Update, Revise
<1>3. Revise(s, r)
  BY DEF Update
<1>4. k \in BOOLEAN
  OBVIOUS
<1>. HIDE DEF k
<1>5. /\ r \in Registration /\ r.state = reg[s].state /\ r.revision = reg[s].revision
      /\ r.config = c /\ r.seeking = k
  BY <1>1, <1>4 DEF Registration
<1>. HIDE DEF r
<1>6. Sound(r)
  BY <1>2, <1>4, <1>5 DEF Sound
<1>. QED
  BY <1>2, <1>3, <1>5, <1>6, ReviseEffect

LEMMA ModeEffect ==
  ASSUME TypeInv, NEW s \in Sub, Pause(s) \/ Resume(s) \/ Rearm(s)
  PROVE  Controlled(s) /\ UNCHANGED <<event, delivery, call, dest, age, faults, taken, misses>>
<1>1. reg[s] \in Registration /\ Sound(reg[s])
  BY RegRow
<1>2. reg[s].state \in {"active", "paused"}
  BY DEF Pause, Resume, Rearm, Revise
<1>3. ASSUME NEW t \in {"active", "paused"}, Revise(s, [reg[s] EXCEPT !.state = t])
      PROVE  Controlled(s) /\ UNCHANGED <<event, delivery, call, dest, age, faults, taken, misses>>
  <2>. DEFINE r == [reg[s] EXCEPT !.state = t]
  <2>1. /\ r \in Registration /\ r.state = t /\ r.revision = reg[s].revision
        /\ r.config = reg[s].config /\ r.seeking = reg[s].seeking
    BY <1>1 DEF Registration
  <2>2. Revise(s, r)
    BY <1>3
  <2>. HIDE DEF r
  <2>3. Sound(r)
    BY <1>1, <1>2, <2>1 DEF Sound
  <2>. QED
    BY <2>1, <2>2, <2>3, ReviseEffect
<1>4. CASE Pause(s)
  BY <1>3, <1>4 DEF Pause
<1>5. CASE Resume(s)
  BY <1>3, <1>5 DEF Resume
<1>6. CASE Rearm(s)
  BY <1>1, <1>2, <1>6, ReviseEffect DEF Rearm
<1>. QED
  BY <1>4, <1>5, <1>6

LEMMA CancelEffect ==
  ASSUME TypeInv, NEW s \in Sub, Cancel(s)
  PROVE  Cancelled(s) /\ UNCHANGED <<seq, event, delivery, call, dest, age, faults, taken, misses>>
<1>. DEFINE r == reg[s]
            q == [r EXCEPT !.state = "cancelled", !.revision = @ + 1, !.seeking = FALSE]
<1>1. r \in Registration /\ Sound(r) /\ r.state # "absent"
  BY RegRow DEF Cancel
<1>2. /\ q \in Registration /\ q.state = "cancelled" /\ q.revision = r.revision + 1
      /\ q.config = r.config /\ q.ordinal = r.ordinal /\ ~q.seeking
  BY <1>1, CancelledEffect
<1>3. reg' = [reg EXCEPT ![s] = q]
  BY DEF Cancel
<1>. HIDE DEF q
<1>4. Sound(q)
  BY <1>1, <1>2 DEF Sound
<1>5. RegTyped(s) /\ reg'[s] = q
  BY <1>2, <1>3, <1>4, RegSet
<1>. QED
  BY <1>1, <1>2, <1>5 DEF Cancelled, Cancel

-----------------------------------------------------------------------------
(* Events. *)
EventTyped(e) ==
  event' \in [Event -> Retained] /\ \A f \in Event : f # e => event'[f] = event[f]
Accepted(e) ==
  /\ event[e].state = "absent" /\ e \notin beyond /\ EventTyped(e)
  /\ seq' = seq + 1 /\ seq' \in Position
  /\ event'[e].state = "live" /\ event'[e].cutoff = seq + 1 /\ event'[e].cursor = 0
  /\ ~event'[e].routed

LEMMA RetainEffect ==
  ASSUME TypeInv, NEW e \in Event, Retain(e)
  PROVE  Accepted(e) \/ (UNCHANGED <<seq, event>> /\ event[e].state # "absent")
<1>1. event \in [Event -> Retained]
  BY DEF TypeInv, TypeOK
<1>2. CASE event[e].state # "absent"
  BY <1>2 DEF Retain
<1>3. CASE event[e].state = "absent"
  <2>1. /\ e \notin beyond /\ seq < MaxSequence /\ seq' = seq + 1
        /\ event' = [event EXCEPT ![e] = [NoEvent EXCEPT !.state = "live", !.cutoff = seq + 1]]
    BY <1>3 DEF Retain, WithinHorizon
  <2>2. seq + 1 \in Position /\ 0 \in Position
    BY <2>1, SeqNext, Limits DEF Position
  <2>. DEFINE q == [NoEvent EXCEPT !.state = "live", !.cutoff = seq + 1]
  <2>3. /\ q \in Retained /\ q.state = "live" /\ q.cutoff = seq + 1 /\ q.cursor = 0 /\ ~q.routed
    BY <2>2 DEF NoEvent, Retained
  <2>. HIDE DEF q
  <2>4. event' = [event EXCEPT ![e] = q]
    BY <2>1 DEF q
  <2>. QED
    BY <1>1, <1>3, <2>1, <2>2, <2>3, <2>4 DEF Accepted, EventTyped
<1>. QED
  BY <1>2, <1>3

Reclaimed(e) ==
  /\ event[e].state # "absent" /\ event[e].routed /\ EventTyped(e)
  /\ \A s \in Sub : delivery[s][e].state = "absent"
  /\ \/ e \in beyond /\ event'[e] = NoEvent
     \/ /\ event'[e].state = "tombstone" /\ event'[e].cutoff = event[e].cutoff
        /\ event'[e].cursor = event[e].cursor /\ event'[e].routed
LEMMA ReclaimEventEffect ==
  ASSUME TypeInv, NEW e \in Event, ReclaimEvent(e)
  PROVE  Reclaimed(e) /\ UNCHANGED <<seq, reg, delivery, call, dest, age, faults, taken, misses>>
<1>1. event \in [Event -> Retained]
  BY DEF TypeInv, TypeOK
<1>2. /\ event[e].state # "absent" /\ event[e].routed
      /\ \A s \in Sub : delivery[s][e].state = "absent"
      /\ UNCHANGED <<seq, reg, delivery, call, dest, age, faults, taken, misses>>
  BY DEF ReclaimEvent, Reclaimable, Unreferenced
<1>3. CASE e \in beyond /\ event' = [event EXCEPT ![e] = NoEvent]
  <2>1. NoEvent \in Retained
    BY Limits DEF NoEvent, Retained, Position
  <2>2. EventTyped(e) /\ event'[e] = NoEvent
    BY <1>1, <1>3, <2>1 DEF EventTyped
  <2>. QED
    BY <1>2, <1>3, <2>2 DEF Reclaimed
<1>4. CASE event' = [event EXCEPT ![e].state = "tombstone"]
  <2>1. event[e] \in Retained
    BY <1>1
  <2>. DEFINE q == [event[e] EXCEPT !.state = "tombstone"]
  <2>2. /\ q \in Retained /\ q.state = "tombstone" /\ q.cutoff = event[e].cutoff
        /\ q.cursor = event[e].cursor /\ q.routed = event[e].routed
    BY <2>1 DEF Retained
  <2>3. event' = [event EXCEPT ![e] = q]
    BY <1>1, <1>4
  <2>. HIDE DEF q
  <2>4. EventTyped(e) /\ event'[e] = q
    BY <1>1, <2>2, <2>3 DEF EventTyped
  <2>. QED
    BY <1>2, <2>2, <2>4 DEF Reclaimed
<1>. QED
  BY <1>2, <1>3, <1>4 DEF ReclaimEvent

-----------------------------------------------------------------------------
(* Numbers. *)
LEMMA LeastNat ==
  ASSUME NEW T, T \subseteq Nat, T # {}
  PROVE  \E x \in T : \A y \in T : x <= y
<1>. DEFINE R == OpToRel(<, Nat)
<1>1. IsWellFoundedOn(R, Nat)
  BY NatLessThanWellFounded
<1>2. \A x, y \in Nat : <<y, x>> \in R <=> y < x
  BY DEF OpToRel
<1>. HIDE DEF R
<1>3. PICK x \in T : \A y \in T : ~ (<<y, x>> \in R)
  BY <1>1, WFMin
<1>4. ASSUME NEW y \in T PROVE x <= y
  <2>1. x \in Nat /\ y \in Nat
    OBVIOUS
  <2>2. ~(<<y, x>> \in R)
    BY <1>3
  <2>. QED
    BY <1>2, <2>1, <2>2
<1>. QED
  BY <1>4

LEMMA GreatestBelow ==
  ASSUME NEW n \in Nat, NEW S, S \subseteq 0..n, S # {}
  PROVE  \E x \in S : \A y \in S : y <= x
<1>. DEFINE T == {n - x : x \in S}
<1>1. T \subseteq Nat /\ T # {}
  <2>1. \A x \in S : n - x \in Nat
    OBVIOUS
  <2>2. T \subseteq Nat
    BY <2>1
  <2>3. PICK x \in S : TRUE
    OBVIOUS
  <2>4. n - x \in T
    OBVIOUS
  <2>. QED
    BY <2>2, <2>4
<1>2. \A x \in S : n - x \in T
  OBVIOUS
<1>3. \A t \in T : \E x \in S : t = n - x
  OBVIOUS
<1>. HIDE DEF T
<1>4. PICK t \in T : \A u \in T : t <= u
  BY <1>1, LeastNat
<1>5. PICK x \in S : t = n - x
  BY <1>3
<1>6. \A y \in S : n - x <= n - y
  BY <1>2, <1>4, <1>5
<1>. QED
  BY <1>6

-----------------------------------------------------------------------------
(* Routing. *)
Ordinals(e, page) == {reg[s].ordinal : s \in page} \cup {event[e].cursor}
Page(e) == FirstOf(Candidates(e))
Listed(page) == {<<s, reg[s].revision>> : s \in {t \in page : Eligible(t)}}
Routes(d, e) ==
  /\ Turned(d) /\ call'[d].at = "select" /\ call'[d].event = e
  /\ call'[d].cursor = event[e].cursor
  /\ call'[d].last \in Ordinals(e, Page(e))
  /\ \A p \in Ordinals(e, Page(e)) : p <= call'[d].last
  /\ call'[d].complete => Cardinality(Page(e)) < BatchSize
  /\ call'[d].page = Listed(Page(e))
  /\ event[e].state = "live" /\ ~event[e].routed

Selecting(e, u, l, k, p) ==
  [NoCall EXCEPT !.at = "select", !.event = e, !.cursor = u, !.last = l, !.complete = k, !.page = p]
LEMMA SelectingEffect ==
  ASSUME NEW e \in Event, NEW u \in Position, NEW l \in Position, NEW k \in BOOLEAN,
         NEW p \in SUBSET (Sub \X Nat)
  PROVE  LET c == Selecting(e, u, l, k, p)
         IN  c \in Call /\ Bound(c)
<1>1. NoCall \in Call /\ e \in Event \cup {None}
  BY NoCallIsOne
<1>2. Selecting(e, u, l, k, p) \in Call
  <2>. HIDE DEF NoCall
  <2>. QED
    BY <1>1 DEF Selecting, Call
<1>. QED
  BY <1>2 DEF Selecting, NoCall, Bound, Handling, Seeker
LEMMA SelectingFields ==
  ASSUME NEW e, NEW u, NEW l, NEW k, NEW p
  PROVE  LET c == Selecting(e, u, l, k, p)
         IN  /\ c.at = "select" /\ c.event = e /\ c.cursor = u /\ c.last = l /\ c.complete = k
             /\ c.page = p
BY DEF Selecting, NoCall

LEMMA OrdinalsMax ==
  ASSUME TypeInv, NEW e \in Event, NEW page \in SUBSET Sub
  PROVE  /\ Ordinals(e, page) \subseteq Position
         /\ \E o \in Ordinals(e, page) : \A p \in Ordinals(e, page) : p <= o
<1>1. event[e] \in Retained /\ \A s \in Sub : reg[s] \in Registration
  BY DEF TypeInv, TypeOK
<1>2. event[e].cursor \in Position /\ \A s \in page : reg[s].ordinal \in Position
  BY <1>1 DEF Retained, Registration
<1>3. Ordinals(e, page) \subseteq Position /\ Ordinals(e, page) # {}
  BY <1>2 DEF Ordinals
<1>. QED
  BY <1>3, GreatestBelow, Limits DEF Position

LEMMA RouteEffect ==
  ASSUME TypeInv, NEW d \in Driver, NEW e \in Event, Route(d, e)
  PROVE  Routes(d, e) /\ UNCHANGED <<store, dest, age, faults, taken, misses>>
<1>. DEFINE O == Ordinals(e, Page(e))
            l == CHOOSE o \in O : \A p \in O : p <= o
            k == Cardinality(Page(e)) < BatchSize
            P == Listed(Page(e))
            c == Selecting(e, event[e].cursor, l, k, P)
<1>1. /\ event[e].state = "live" /\ ~event[e].routed
      /\ UNCHANGED <<store, dest, age, faults, taken, misses>>
  BY DEF Route
<1>2. call' = [call EXCEPT ![d] = c]
  BY DEF Route, Selecting, Ordinals, Page, Listed
<1>3. Page(e) \in SUBSET Sub
  BY DEF Page, FirstOf, Candidates
<1>4. event[e].cursor \in Position
  <2>1. event[e] \in Retained
    BY DEF TypeInv, TypeOK
  <2>. QED
    BY <2>1 DEF Retained
<1>5. P \in SUBSET (Sub \X Nat)
  <2>1. \A s \in Sub : reg[s].revision \in Nat
    BY RegRow, RegFields
  <2>. QED
    BY <1>3, <2>1 DEF Listed
<1>6. O \subseteq Position /\ \E o \in O : \A p \in O : p <= o
  BY <1>3, OrdinalsMax
<1>7. k \in BOOLEAN /\ (k => Cardinality(Page(e)) < BatchSize)
  OBVIOUS
<1>. HIDE DEF k, P, O
<1>8. l \in O /\ \A p \in O : p <= l
  BY <1>6
<1>. HIDE DEF l
<1>9. c \in Call /\ Bound(c)
  BY <1>4, <1>5, <1>6, <1>7, <1>8, SelectingEffect
<1>10. /\ c.at = "select" /\ c.event = e /\ c.cursor = event[e].cursor /\ c.last = l
       /\ c.complete = k /\ c.page = P
  BY SelectingFields
<1>. HIDE DEF c
<1>11. Turned(d) /\ call'[d] = c
  BY <1>2, <1>9, TurnEffect
<1>. QED
  BY <1>1, <1>7, <1>8, <1>10, <1>11 DEF Routes, O, P

-----------------------------------------------------------------------------
(* Selection. *)
LEMMA ConsumeEffect ==
  ASSUME NEW r \in Registration, Sound(r), r.state # "absent"
  PROVE  LET q == Consume(r)
         IN  /\ q \in Registration /\ Sound(q) /\ q.revision = r.revision
             /\ q.config = r.config /\ q.ordinal = r.ordinal /\ (q.seeking => r.seeking)
             /\ IF r.config \in Once THEN q.state = "consumed" ELSE q = r
<1>1. CASE r.config \in Once
  <2>. DEFINE q == [r EXCEPT !.state = "consumed", !.seeking = FALSE]
  <2>1. /\ q \in Registration /\ q.state = "consumed" /\ q.revision = r.revision
        /\ q.config = r.config /\ q.ordinal = r.ordinal /\ ~q.seeking
    BY DEF Registration
  <2>2. Consume(r) = q
    BY <1>1 DEF Consume
  <2>. HIDE DEF q
  <2>. QED
    BY <1>1, <2>1, <2>2 DEF Sound
<1>2. CASE r.config \notin Once
  BY <1>2 DEF Consume
<1>. QED
  BY <1>1, <1>2

\* The registrations of N are given the event e.
Chose(N, e) ==
  /\ N \subseteq Sub /\ event[e].state = "live"
  /\ \A s \in N : Eligible(s) /\ delivery[s][e].state = "absent"
  /\ delivery' \in [Sub -> [Event -> Delivery]]
  /\ \A s \in N : delivery'[s][e] = Chosen(s)
  /\ \A s \in Sub, f \in Event : s \notin N \/ f # e => delivery'[s][f] = delivery[s][f]
  /\ reg' \in [Sub -> Registration] /\ \A s \in Sub : Sound(reg'[s])
  /\ \A s \in N : reg'[s] = Consume(reg[s])
  /\ \A s \in Sub : s \notin N => reg'[s] = reg[s]
  /\ taken' = taken \cup {<<s, e, reg[s].config>> : s \in N}

LEMMA ChoseEffect ==
  ASSUME TypeInv, NEW e \in Event, NEW N \in SUBSET Sub, event[e].state = "live",
         \A s \in N : Eligible(s) /\ delivery[s][e].state = "absent",
         delivery' = [s \in Sub |-> IF s \in N THEN [delivery[s] EXCEPT ![e] = Chosen(s)]
                                    ELSE delivery[s]],
         reg' = [s \in Sub |-> IF s \in N THEN Consume(reg[s]) ELSE reg[s]],
         taken' = taken \cup {<<s, e, reg[s].config>> : s \in N}
  PROVE  Chose(N, e)
<1>1. delivery \in [Sub -> [Event -> Delivery]] /\ reg \in [Sub -> Registration]
  BY DEF TypeInv, TypeOK
<1>2. ASSUME NEW s \in N
      PROVE  /\ Chosen(s) \in Delivery /\ Consume(reg[s]) \in Registration
             /\ Sound(Consume(reg[s]))
  <2>1. s \in Sub /\ reg[s].state = "active" /\ reg[s] \in Registration /\ Sound(reg[s])
    BY <1>2, RegRow DEF Eligible
  <2>2. reg[s].config \in Config
    BY <2>1 DEF Sound
  <2>. QED
    BY <2>1, <2>2, ChosenEffect, ConsumeEffect
<1>3. delivery' \in [Sub -> [Event -> Delivery]]
  BY <1>1, <1>2
<1>4. /\ \A s \in N : delivery'[s][e] = Chosen(s)
      /\ \A s \in Sub, f \in Event : s \notin N \/ f # e => delivery'[s][f] = delivery[s][f]
  BY <1>1
<1>5. reg' \in [Sub -> Registration]
  BY <1>1, <1>2
<1>6. /\ \A s \in N : reg'[s] = Consume(reg[s])
      /\ \A s \in Sub : s \notin N => reg'[s] = reg[s]
  BY <1>1
<1>7. \A s \in Sub : Sound(reg'[s])
  BY <1>2, <1>6, RegRow
<1>. QED
  BY <1>3, <1>4, <1>5, <1>6, <1>7 DEF Chose

Fresh(d) ==
  {s \in Sub : /\ \E x \in call[d].page : x[1] = s
               /\ Eligible(s) /\ delivery[s][call[d].event].state = "absent"}
Selects(d) ==
  LET e == call[d].event
  IN  /\ Chose(Fresh(d), e) /\ EventTyped(e) /\ Current(call[d].page)
      /\ ~event[e].routed /\ event[e].cursor = call[d].cursor
      /\ event'[e].state = "live" /\ event'[e].cutoff = event[e].cutoff
      /\ event'[e].cursor = call[d].last /\ event'[e].routed = call[d].complete

LEMMA SelectEffect ==
  ASSUME TypeInv, NEW d \in Driver, Select(d)
  PROVE  /\ call[d].at = "select" /\ call[d].event \in Event /\ Rested(d)
         /\ Selects(d) \/ UNCHANGED <<event, delivery, reg, taken>>
         /\ UNCHANGED <<seq, dest, age, faults, misses>>
<1>. DEFINE c == call[d]  e == c.event
            holds == /\ event[e].state = "live" /\ event[e].cursor = c.cursor /\ ~event[e].routed
                     /\ Current(c.page)
<1>1. /\ c.at = "select" /\ Idle(d) /\ UNCHANGED <<seq, dest, age, faults, misses>>
  BY DEF Select
<1>2. c \in Call /\ e \in Event
  BY <1>1, Calls DEF Bound
<1>3. CASE holds
  <2>1. /\ event' = [event EXCEPT ![e].cursor = c.last, ![e].routed = c.complete]
        /\ delivery' = [s \in Sub |->
             IF s \in Fresh(d) THEN [delivery[s] EXCEPT ![e] = Chosen(s)] ELSE delivery[s]]
        /\ reg' = [s \in Sub |-> IF s \in Fresh(d) THEN Consume(reg[s]) ELSE reg[s]]
        /\ taken' = taken \cup {<<s, e, reg[s].config>> : s \in Fresh(d)}
    BY <1>3 DEF Select, Fresh, Ends
  <2>2. /\ Fresh(d) \in SUBSET Sub
        /\ \A s \in Fresh(d) : Eligible(s) /\ delivery[s][e].state = "absent"
    BY DEF Fresh
  <2>3. Chose(Fresh(d), e)
    BY <1>2, <1>3, <2>1, <2>2, ChoseEffect
  <2>4. event \in [Event -> Retained] /\ c.last \in Position /\ c.complete \in BOOLEAN
    BY <1>2 DEF TypeInv, TypeOK, Call
  <2>. DEFINE q == [event[e] EXCEPT !.cursor = c.last, !.routed = c.complete]
  <2>5. /\ q \in Retained /\ q.state = event[e].state /\ q.cutoff = event[e].cutoff
        /\ q.cursor = c.last /\ q.routed = c.complete
    <3>1. event[e] \in Retained
      BY <1>2, <2>4
    <3>. QED
      BY <2>4, <3>1 DEF Retained
  <2>6. event' = [event EXCEPT ![e] = q]
    BY <1>2, <2>1, <2>4
  <2>. HIDE DEF q
  <2>7. EventTyped(e) /\ event'[e] = q
    BY <1>2, <2>4, <2>5, <2>6 DEF EventTyped
  <2>8. Selects(d)
    BY <1>3, <2>3, <2>5, <2>7 DEF Selects
  <2>. QED
    BY <1>1, <1>2, <2>8, IdleEffect
<1>4. CASE ~holds
  <2>1. UNCHANGED <<event, delivery, reg, taken>>
    BY <1>4 DEF Select
  <2>. QED
    BY <1>1, <1>2, <2>1, IdleEffect
<1>. QED
  BY <1>3, <1>4

-----------------------------------------------------------------------------
(* Reconciliation. *)
\* A call that looks for an event has seen that its registration recovers from the source.
Looking == {"seek", "catchUp"}
Calm == Handling \cup {"idle", "list", "giveUp", "defer"}

LEMMA ListEffect ==
  ASSUME TypeInv, NEW d \in Driver, NEW s \in Sub, List(d, s)
  PROVE  /\ Turned(d) /\ call'[d].at = "list"
         /\ UNCHANGED <<store, dest, age, faults, taken, misses>>
<1>. DEFINE c == [NoCall EXCEPT !.at = "list", !.sub = s]
<1>1. call' = [call EXCEPT ![d] = c] /\ UNCHANGED <<store, dest, age, faults, taken, misses>>
  BY DEF List
<1>2. c \in Call
  <2>1. NoCall \in Call /\ s \in Sub \cup {None}
    BY NoCallIsOne
  <2>. HIDE DEF NoCall
  <2>. QED
    BY <2>1 DEF Call
<1>3. c.at = "list" /\ c.sub = s
  BY DEF NoCall
<1>. HIDE DEF c
<1>4. Bound(c)
  BY <1>3 DEF Bound, Handling, Seeker
<1>5. Turned(d) /\ call'[d] = c
  BY <1>1, <1>2, <1>4, TurnEffect
<1>. QED
  BY <1>1, <1>3, <1>5

Seeks(d, s) ==
  /\ Turned(d) /\ call'[d].at = "seek" /\ call'[d].sub = s
  /\ call'[d].revision = reg[s].revision /\ reg[s].config \in Sourced
LEMMA SeekEffect ==
  ASSUME TypeInv, NEW d \in Driver, Seek(d)
  PROVE  /\ call[d].sub \in Sub
         /\ Seeks(d, call[d].sub) \/ (Turned(d) /\ call'[d].at \in {"giveUp", "defer"})
         /\ UNCHANGED <<store, dest, age, faults, taken, misses>>
<1>. DEFINE s == call[d].sub
            step == IF ~Eligible(s) THEN "giveUp"
                    ELSE IF reg[s].config \in Sourced THEN "seek" ELSE "defer"
            c == [call[d] EXCEPT !.at = step, !.revision = reg[s].revision]
<1>1. /\ call[d].at = "list" /\ UNCHANGED <<store, dest, age, faults, taken, misses>>
      /\ call' = [call EXCEPT ![d].at = step, ![d].revision = reg[s].revision]
  BY DEF Seek
<1>2. call[d] \in Call /\ s \in Sub /\ call \in [Driver -> Call]
  BY <1>1, Calls DEF Bound, Seeker, TypeInv, TypeOK
<1>3. reg[s].revision \in Nat
  BY <1>2, RegRow, RegFields
<1>4. call' = [call EXCEPT ![d] = c]
  BY <1>1, <1>2
<1>5. step \in {"giveUp", "seek", "defer"} /\ (step = "seek" => reg[s].config \in Sourced)
  OBVIOUS
<1>. HIDE DEF step
<1>6. /\ c \in Call /\ c.at = step /\ c.sub = s /\ c.revision = reg[s].revision
  BY <1>2, <1>3, <1>5 DEF Call
<1>. HIDE DEF c
<1>7. Bound(c)
  BY <1>2, <1>5, <1>6 DEF Bound, Handling, Seeker
<1>8. Turned(d) /\ call'[d] = c
  BY <1>4, <1>6, <1>7, TurnEffect
<1>. QED
  BY <1>1, <1>2, <1>5, <1>6, <1>8 DEF Seeks

\* A recovery is given up, or put off.
Deferred(s) ==
  /\ RegTyped(s) /\ reg'[s].state = reg[s].state /\ reg'[s].revision = reg[s].revision
  /\ reg'[s].config = reg[s].config /\ reg'[s].ordinal = reg[s].ordinal
LEMMA RecoveryEffect ==
  ASSUME TypeInv, NEW d \in Driver, GiveUp(d) \/ Defer(d)
  PROVE  /\ call[d].sub \in Sub /\ Rested(d)
         /\ Deferred(call[d].sub) \/ UNCHANGED reg
         /\ UNCHANGED <<seq, event, delivery, dest, age, faults, taken, misses>>
<1>. DEFINE s == call[d].sub
<1>1. PICK more \in BOOLEAN : Recovery(d, more)
  BY DEF GiveUp, Defer
<1>. DEFINE k == more /\ reg[s].state \in {"active", "paused"}
<1>2. /\ Idle(d) /\ UNCHANGED <<seq, event, delivery, dest, age, faults, taken, misses>>
      /\ UNCHANGED reg \/ reg' = [reg EXCEPT ![s].seeking = k]
  BY <1>1 DEF Recovery
<1>3. s \in Sub
  BY Calls DEF Bound, Seeker, GiveUp, Defer
<1>4. CASE reg' = [reg EXCEPT ![s].seeking = k]
  <2>1. reg \in [Sub -> Registration] /\ reg[s] \in Registration /\ Sound(reg[s])
    BY <1>3, RegRow DEF TypeInv, TypeOK
  <2>2. k \in BOOLEAN
    OBVIOUS
  <2>. HIDE DEF k
  <2>. DEFINE q == [reg[s] EXCEPT !.seeking = k]
  <2>3. /\ q \in Registration /\ q.state = reg[s].state /\ q.revision = reg[s].revision
        /\ q.config = reg[s].config /\ q.ordinal = reg[s].ordinal
    BY <2>1, <2>2 DEF Registration
  <2>4. reg' = [reg EXCEPT ![s] = q]
    BY <1>3, <1>4, <2>1
  <2>. HIDE DEF q
  <2>5. Sound(q)
    BY <2>1, <2>3 DEF Sound
  <2>6. RegTyped(s) /\ reg'[s] = q
    BY <1>3, <2>3, <2>4, <2>5, RegSet
  <2>7. Deferred(s)
    BY <2>3, <2>6 DEF Deferred
  <2>. QED
    BY <1>2, <1>3, <2>7, IdleEffect
<1>5. CASE UNCHANGED reg
  BY <1>2, <1>3, <1>5, IdleEffect
<1>. QED
  BY <1>2, <1>4, <1>5

LEMMA DeferCallEffect ==
  ASSUME TypeInv, NEW d \in Driver, call[d].at \in Seeker, At(d, "defer")
  PROVE  Turned(d) /\ call'[d].at = "defer"
<1>. DEFINE c == [call[d] EXCEPT !.at = "defer"]
<1>1. call[d] \in Call /\ call[d].sub \in Sub
  BY Calls DEF Bound
<1>2. c \in Call /\ c.at = "defer" /\ c.sub = call[d].sub
  BY <1>1 DEF Call
<1>3. call' = [call EXCEPT ![d] = c]
  BY DEF At
<1>. HIDE DEF c
<1>4. Bound(c)
  BY <1>1, <1>2 DEF Bound, Handling, Seeker
<1>. QED
  BY <1>2, <1>3, <1>4, TurnEffect

Finds(d, e) ==
  /\ Turned(d) /\ call'[d].at = "catchUp" /\ call'[d].sub = call[d].sub /\ call'[d].event = e
  /\ call'[d].revision = call[d].revision
LEMMA FindEffect ==
  ASSUME TypeInv, NEW d \in Driver, Find(d)
  PROVE  /\ call[d].at = "seek"
         /\ \/ Turned(d) /\ call'[d].at = "defer" /\ UNCHANGED <<seq, event>>
            \/ \E e \in Event : Retain(e) /\ Finds(d, e)
         /\ UNCHANGED <<reg, delivery, dest, age, faults, taken, misses>>
<1>1. /\ call[d].at = "seek" /\ UNCHANGED <<reg, delivery, dest, age, faults, taken, misses>>
  BY DEF Find
<1>2. CASE At(d, "defer") /\ UNCHANGED <<seq, event>>
  <2>1. call[d].at \in Seeker
    BY <1>1 DEF Seeker
  <2>. QED
    BY <1>1, <1>2, <2>1, DeferCallEffect
<1>3. ASSUME NEW e \in Event, Retain(e),
             call' = [call EXCEPT ![d].at = "catchUp", ![d].event = e]
      PROVE  Finds(d, e)
  <2>. DEFINE c == [call[d] EXCEPT !.at = "catchUp", !.event = e]
  <2>1. call[d] \in Call /\ call[d].sub \in Sub /\ call \in [Driver -> Call]
    BY <1>1, Calls DEF Bound, Seeker, TypeInv, TypeOK
  <2>2. /\ c \in Call /\ c.at = "catchUp" /\ c.sub = call[d].sub /\ c.event = e
        /\ c.revision = call[d].revision
    BY <2>1 DEF Call
  <2>3. call' = [call EXCEPT ![d] = c]
    BY <1>3, <2>1
  <2>. HIDE DEF c
  <2>4. Bound(c)
    BY <2>1, <2>2 DEF Bound, Handling, Seeker
  <2>5. Turned(d) /\ call'[d] = c
    BY <2>2, <2>3, <2>4, TurnEffect
  <2>. QED
    BY <2>2, <2>5 DEF Finds
<1>4. \/ At(d, "defer") /\ UNCHANGED <<seq, event>>
      \/ \E e \in Event :
           Retain(e) /\ call' = [call EXCEPT ![d].at = "catchUp", ![d].event = e]
  BY DEF Find
<1>. QED
  BY <1>1, <1>2, <1>3, <1>4

CatchesUp(d) ==
  LET s == call[d].sub  e == call[d].event
  IN  /\ Chose({s}, e) /\ reg[s].revision = call[d].revision
      /\ reg[s].config \in Once /\ e \in Wants[reg[s].config]
LEMMA CatchUpEffect ==
  ASSUME TypeInv, NEW d \in Driver, CatchUp(d)
  PROVE  /\ call[d].at = "catchUp" /\ call[d].sub \in Sub /\ call[d].event \in Event
         /\ \/ CatchesUp(d) /\ Rested(d)
            \/ /\ UNCHANGED <<delivery, reg, taken>>
               /\ Turned(d) /\ call'[d].at \in {"idle", "defer"}
         /\ UNCHANGED <<seq, event, dest, age, faults, misses>>
<1>. DEFINE s == call[d].sub  e == call[d].event
            holds == /\ event[e].state = "live" /\ reg[s].revision = call[d].revision
                     /\ delivery[s][e].state = "absent" /\ Eligible(s)
                     /\ reg[s].config \in Once /\ e \in Wants[reg[s].config]
<1>1. /\ call[d].at = "catchUp" /\ call[d].at \in Seeker
      /\ UNCHANGED <<seq, event, dest, age, faults, misses>>
  BY DEF CatchUp, Seeker
<1>2. s \in Sub /\ e \in Event
  BY <1>1, Calls DEF Bound, Seeker
<1>3. CASE holds
  <2>1. /\ delivery' = [delivery EXCEPT ![s][e] = Chosen(s)]
        /\ reg' = [reg EXCEPT ![s] = Consume(@)]
        /\ taken' = taken \cup {<<s, e, reg[s].config>>} /\ Idle(d)
    BY <1>3 DEF CatchUp
  <2>2. delivery \in [Sub -> [Event -> Delivery]] /\ reg \in [Sub -> Registration]
    BY DEF TypeInv, TypeOK
  <2>3. delivery' = [t \in Sub |-> IF t \in {s} THEN [delivery[t] EXCEPT ![e] = Chosen(t)]
                                   ELSE delivery[t]]
    BY <1>2, <2>1, <2>2
  <2>4. reg' = [t \in Sub |-> IF t \in {s} THEN Consume(reg[t]) ELSE reg[t]]
    BY <1>2, <2>1, <2>2
  <2>5. taken' = taken \cup {<<t, e, reg[t].config>> : t \in {s}}
    BY <2>1
  <2>6. Chose({s}, e)
    <3>1. {s} \in SUBSET Sub /\ \A t \in {s} : Eligible(t) /\ delivery[t][e].state = "absent"
      BY <1>2, <1>3
    <3>. QED
      BY <1>2, <1>3, <2>3, <2>4, <2>5, <3>1, ChoseEffect
  <2>. QED
    BY <1>1, <1>2, <1>3, <2>1, <2>6, IdleEffect DEF CatchesUp
<1>4. CASE ~holds
  <2>1. UNCHANGED <<delivery, reg, taken>> /\ (At(d, "defer") \/ Idle(d))
    BY <1>4 DEF CatchUp
  <2>. QED
    BY <1>1, <1>2, <2>1, IdleEffect, DeferCallEffect DEF Rested
<1>. QED
  BY <1>3, <1>4

-----------------------------------------------------------------------------
(***************************************************************************)
(* The type invariant.                                                      *)
(***************************************************************************)
Selections == Sub \X Event \X Config
TakenTyped == taken \subseteq Selections

LEMMA TurnedTyped ==
  ASSUME TypeInv, NEW d \in Driver, Turned(d)
  PROVE  call' \in [Driver -> Call] /\ \A x \in Driver : Bound(call'[x])
BY DEF Turned, TypeInv

LEMMA RegTypedAll ==
  ASSUME TypeInv, NEW s \in Sub, RegTyped(s)
  PROVE  reg' \in [Sub -> Registration] /\ \A t \in Sub : Sound(reg'[t])
BY DEF RegTyped, TypeInv

\* The parts of the state, each with its type.
LEMMA TypeParts ==
  ASSUME seq' \in Position, reg' \in [Sub -> Registration], \A s \in Sub : Sound(reg'[s]),
         event' \in [Event -> Retained], delivery' \in [Sub -> [Event -> Delivery]],
         call' \in [Driver -> Call], \A d \in Driver : Bound(call'[d]),
         dest' \in [Sub -> [Event -> [kind : {"none", "admitted", "settled"},
                                      envelope : Envelope \cup {None}]]],
         lapsed' \subseteq Config, aged' \subseteq Event, beyond' \subseteq Event,
         faults' \in 0..MaxFault, taken' \subseteq Selections,
         misses' \in [Sub -> [Event -> Nat]]
  PROVE  TypeInv'
<1>1. TypeOK'
  BY DEF TypeOK, Selections
<1>2. (\A s \in Sub : Sound(reg[s]))' /\ (\A d \in Driver : Bound(call[d]))'
  BY DEF Sound, Bound
<1>. QED
  BY <1>1, <1>2 DEF TypeInv

LEMMA TypeNow ==
  ASSUME TypeInv
  PROVE  /\ seq \in Position /\ reg \in [Sub -> Registration] /\ \A s \in Sub : Sound(reg[s])
         /\ event \in [Event -> Retained] /\ delivery \in [Sub -> [Event -> Delivery]]
         /\ call \in [Driver -> Call] /\ \A d \in Driver : Bound(call[d])
         /\ dest \in [Sub -> [Event -> [kind : {"none", "admitted", "settled"},
                                        envelope : Envelope \cup {None}]]]
         /\ lapsed \subseteq Config /\ aged \subseteq Event /\ beyond \subseteq Event
         /\ faults \in 0..MaxFault /\ taken \subseteq Selections
         /\ misses \in [Sub -> [Event -> Nat]]
BY DEF TypeInv, TypeOK, Selections

LEMMA FaultType ==
  ASSUME TypeInv, UNCHANGED faults \/ Fault
  PROVE  faults' \in 0..MaxFault
BY Limits DEF TypeInv, TypeOK, Fault
LEMMA TalliesType ==
  ASSUME TypeInv, NEW d \in Driver, Tallies(d)
  PROVE  misses' \in [Sub -> [Event -> Nat]]
BY DEF TypeInv, Tallies, Missed

LEMMA InitTyped ==
  ASSUME Init
  PROVE  TypeInv
<1>1. NoReg \in Registration /\ Sound(NoReg) /\ NoEvent \in Retained
  <2>1. 0 \in Nat /\ 0 \in Position
    BY Limits DEF Position
  <2>. QED
    BY <2>1 DEF NoReg, NoEvent, Registration, Retained, Sound
<1>2. Untouched \in [kind : {"none", "admitted", "settled"}, envelope : Envelope \cup {None}]
  BY DEF Untouched
<1>3. 0 \in Position /\ 0 \in 0..MaxFault
  BY Limits DEF Position
<1>. HIDE DEF NoReg, NoEvent, Untouched, NoCall, NoDelivery
<1>4. TypeOK
  <2>1. /\ seq \in Position /\ reg \in [Sub -> Registration] /\ event \in [Event -> Retained]
        /\ call \in [Driver -> Call]
    BY <1>1, <1>3, NoCallIsOne DEF Init
  <2>2. delivery \in [Sub -> [Event -> Delivery]]
    BY NoDeliveryIsOne DEF Init
  <2>3. dest \in [Sub -> [Event -> [kind : {"none", "admitted", "settled"},
                                    envelope : Envelope \cup {None}]]]
    BY <1>2 DEF Init
  <2>4. /\ lapsed \subseteq Config /\ aged \subseteq Event /\ beyond \subseteq Event
        /\ faults \in 0..MaxFault /\ taken \subseteq Selections
    BY <1>3 DEF Init
  <2>. QED
    BY <2>1, <2>2, <2>3, <2>4 DEF TypeOK, Selections
<1>5. misses \in [Sub -> [Event -> Nat]]
  BY DEF Init
<1>6. (\A s \in Sub : Sound(reg[s])) /\ (\A d \in Driver : Bound(call[d]))
  BY <1>1, NoCallIsOne DEF Init
<1>. QED
  BY <1>4, <1>5, <1>6 DEF TypeInv

LEMMA StutterTyped ==
  ASSUME TypeInv, UNCHANGED vars
  PROVE  TypeInv'
<1>1. /\ seq' = seq /\ reg' = reg /\ event' = event /\ delivery' = delivery /\ call' = call
      /\ dest' = dest /\ lapsed' = lapsed /\ aged' = aged /\ beyond' = beyond
      /\ faults' = faults /\ taken' = taken /\ misses' = misses
  BY DEF vars, store, age
<1>. QED
  BY <1>1, TypeNow, TypeParts

\* What is enough of a step of a driver that only works on its call and its delivery.
LEMMA HandlingTyped ==
  ASSUME TypeInv, NEW d \in Driver, Turned(d), UNCHANGED <<seq, reg, event, age, taken>>,
         delivery' \in [Sub -> [Event -> Delivery]],
         dest' \in [Sub -> [Event -> [kind : {"none", "admitted", "settled"},
                                      envelope : Envelope \cup {None}]]],
         faults' \in 0..MaxFault, misses' \in [Sub -> [Event -> Nat]]
  PROVE  TypeInv'
<1>1. /\ seq' = seq /\ reg' = reg /\ event' = event
      /\ lapsed' = lapsed /\ aged' = aged /\ beyond' = beyond /\ taken' = taken
  BY DEF age
<1>. QED
  BY <1>1, TypeNow, TurnedTyped, TypeParts

LEMMA CallOnlyTyped ==
  ASSUME TypeInv, NEW d \in Driver, Turned(d), UNCHANGED <<store, dest, age, taken>>,
         faults' \in 0..MaxFault, misses' \in [Sub -> [Event -> Nat]]
  PROVE  TypeInv'
<1>1. /\ UNCHANGED <<seq, reg, event, age, taken>> /\ delivery' = delivery /\ dest' = dest
  BY DEF store
<1>. QED
  BY <1>1, TypeNow, HandlingTyped

LEMMA ProcessingTyped ==
  ASSUME TypeInv, NEW d \in Driver, Prepare(d) \/ Freeze(d) \/ Send(d) \/ Complete(d) \/ Refuse(d)
                                      \/ Failed(d) \/ Retry(d) \/ Observe(d)
  PROVE  TypeInv'
<1>. DEFINE s == call[d].sub  e == call[d].event
<1>1. CASE Prepare(d)
  <2>1. faults' \in 0..MaxFault
    <3>1. UNCHANGED faults \/ Fault
      BY <1>1 DEF Prepare
    <3>. QED
      BY <3>1, FaultType
  <2>. QED
    BY <1>1, <2>1, PrepareEffect, TalliesType, CallOnlyTyped DEF Onward
<1>2. CASE Freeze(d)
  <2>1. faults' \in 0..MaxFault
    <3>1. UNCHANGED faults \/ Fault
      BY <1>2 DEF Freeze
    <3>. QED
      BY <3>1, FaultType
  <2>2. Turned(d) /\ delivery' \in [Sub -> [Event -> Delivery]] /\ Tallies(d)
        /\ UNCHANGED <<seq, reg, event, dest, age, taken>>
    BY <1>2, FreezeEffect, TypeNow
       DEF Froze, Rewritten, Written, Rested, Sends, Fails, Misses, Onward
  <2>. QED
    BY <2>1, <2>2, TypeNow, TalliesType, HandlingTyped
<1>3. CASE Send(d)
  <2>1. faults' \in 0..MaxFault
    <3>1. UNCHANGED faults \/ Fault
      BY <1>3 DEF Send
    <3>. QED
      BY <3>1, FaultType
  <2>2. Turned(d) /\ UNCHANGED <<seq, reg, event, age, taken>> /\ delivery' = delivery
        /\ Tallies(d)
    BY <1>3, SendEffect DEF Onward, store
  <2>3. dest' \in [Sub -> [Event -> [kind : {"none", "admitted", "settled"},
                                     envelope : Envelope \cup {None}]]]
    BY <1>3, SendEffect, TypeNow DEF Admitted
  <2>. QED
    BY <2>1, <2>2, <2>3, TypeNow, TalliesType, HandlingTyped
<1>4. CASE Complete(d)
  <2>1. Turned(d) /\ delivery' \in [Sub -> [Event -> Delivery]]
        /\ UNCHANGED <<seq, reg, event, dest, age, faults, taken, misses>>
    BY <1>4, CompleteEffect, TypeNow DEF Receipted, Rewritten, Written, Rested, Fails, Onward
  <2>. QED
    BY <2>1, TypeNow, HandlingTyped
<1>5. CASE Refuse(d)
  <2>1. Turned(d) /\ delivery' \in [Sub -> [Event -> Delivery]]
        /\ UNCHANGED <<seq, reg, event, dest, age, faults, taken, misses>>
    BY <1>5, RefuseEffect, TypeNow DEF Declined, Rewritten, Written, Rested, Fails, Onward
  <2>. QED
    BY <2>1, TypeNow, HandlingTyped
<1>6. CASE Failed(d)
  <2>1. Turned(d) /\ Tallies(d) /\ UNCHANGED <<store, dest, age, faults, taken>>
    BY <1>6, FailedEffect DEF Rested, Reads
  <2>. QED
    BY <2>1, TypeNow, TalliesType, CallOnlyTyped
<1>7. CASE Retry(d)
  <2>1. /\ Turned(d) /\ delivery' \in [Sub -> [Event -> Delivery]]
        /\ UNCHANGED <<seq, reg, event, dest, age, faults, taken, misses>>
    BY <1>7, RetryEffect, TypeNow DEF Counted, Rewritten, Written, Rested
  <2>. QED
    BY <2>1, TypeNow, HandlingTyped
<1>8. CASE Observe(d)
  <2>1. Turned(d) /\ delivery' \in [Sub -> [Event -> Delivery]]
        /\ UNCHANGED <<seq, reg, event, dest, age, faults, taken, misses>>
    BY <1>8, ObserveEffect, TypeNow DEF SettledBy, Rewritten, Written, Rested
  <2>. QED
    BY <2>1, TypeNow, HandlingTyped
<1>. QED
  BY <1>1, <1>2, <1>3, <1>4, <1>5, <1>6, <1>7, <1>8

LEMMA InterruptEffect ==
  ASSUME TypeInv, NEW d \in Driver, Interrupt(d)
  PROVE  Rested(d) /\ UNCHANGED <<store, dest, age, taken, misses>> /\ faults' \in 0..MaxFault
<1>1. faults' \in 0..MaxFault
  BY FaultType DEF Interrupt
<1>. QED
  BY <1>1, IdleEffect DEF Interrupt

LEMMA ChoseTyped ==
  ASSUME TypeInv, NEW N, NEW e \in Event, Chose(N, e)
  PROVE  /\ delivery' \in [Sub -> [Event -> Delivery]] /\ reg' \in [Sub -> Registration]
         /\ \A s \in Sub : Sound(reg'[s])
         /\ TakenTyped'
<1>1. \A s \in N : s \in Sub /\ reg[s].config \in Config
  BY RegRow DEF Chose, Eligible, Sound
<1>2. TakenTyped'
  BY <1>1, TypeNow DEF Chose, Selections, TakenTyped
<1>. QED
  BY <1>2 DEF Chose

LEMMA RoutingTyped ==
  ASSUME TypeInv, NEW d \in Driver,
         Select(d) \/ Seek(d) \/ GiveUp(d) \/ Find(d) \/ CatchUp(d) \/ Defer(d)
  PROVE  TypeInv'
<1>1. CASE Select(d)
  <2>1. /\ Turned(d) /\ UNCHANGED <<seq, dest, age, faults, misses>>
        /\ event' \in [Event -> Retained] /\ delivery' \in [Sub -> [Event -> Delivery]]
        /\ reg' \in [Sub -> Registration] /\ \A s \in Sub : Sound(reg'[s])
        /\ TakenTyped'
    <3>1. CASE Selects(d)
      <4>1. Chose(Fresh(d), call[d].event) /\ EventTyped(call[d].event) /\ call[d].event \in Event
        BY <1>1, <3>1, SelectEffect DEF Selects
      <4>2. /\ delivery' \in [Sub -> [Event -> Delivery]] /\ reg' \in [Sub -> Registration]
            /\ \A s \in Sub : Sound(reg'[s])
            /\ TakenTyped'
        BY <4>1, ChoseTyped
      <4>. QED
        BY <1>1, <4>1, <4>2, SelectEffect DEF EventTyped, Rested
    <3>2. CASE UNCHANGED <<event, delivery, reg, taken>>
      BY <1>1, <3>2, SelectEffect, TypeNow DEF Rested, TakenTyped
    <3>. QED
      BY <1>1, <3>1, <3>2, SelectEffect
  <2>2. seq' = seq /\ dest' = dest /\ lapsed' = lapsed /\ aged' = aged /\ beyond' = beyond
        /\ faults' = faults /\ misses' = misses
    BY <2>1 DEF age
  <2>. QED
    BY <2>1, <2>2, TypeNow, TurnedTyped, TypeParts DEF TakenTyped
<1>2. CASE GiveUp(d) \/ Defer(d)
  <2>1. /\ Turned(d) /\ UNCHANGED <<seq, event, delivery, dest, age, faults, taken, misses>>
        /\ reg' \in [Sub -> Registration] /\ \A s \in Sub : Sound(reg'[s])
    <3>1. CASE Deferred(call[d].sub)
      BY <1>2, <3>1, RecoveryEffect, RegTypedAll DEF Deferred, Rested
    <3>2. CASE UNCHANGED reg
      BY <1>2, <3>2, RecoveryEffect, TypeNow DEF Rested
    <3>. QED
      BY <1>2, <3>1, <3>2, RecoveryEffect
  <2>2. seq' = seq /\ event' = event /\ delivery' = delivery /\ dest' = dest /\ lapsed' = lapsed
        /\ aged' = aged /\ beyond' = beyond /\ faults' = faults /\ misses' = misses
        /\ taken' = taken
    BY <2>1 DEF age
  <2>. QED
    BY <2>1, <2>2, TypeNow, TurnedTyped, TypeParts DEF TakenTyped
<1>3. CASE Find(d)
  <2>1. /\ Turned(d) /\ UNCHANGED <<reg, delivery, dest, age, faults, taken, misses>>
        /\ seq' \in Position /\ event' \in [Event -> Retained]
    BY <1>3, FindEffect, RetainEffect, TypeNow DEF Accepted, EventTyped, Finds
  <2>2. reg' = reg /\ delivery' = delivery /\ dest' = dest /\ lapsed' = lapsed
        /\ aged' = aged /\ beyond' = beyond /\ faults' = faults /\ misses' = misses
        /\ taken' = taken
    BY <2>1 DEF age
  <2>. QED
    BY <2>1, <2>2, TypeNow, TurnedTyped, TypeParts DEF TakenTyped
<1>4. CASE CatchUp(d)
  <2>1. /\ Turned(d) /\ UNCHANGED <<seq, event, dest, age, faults, misses>>
        /\ delivery' \in [Sub -> [Event -> Delivery]]
        /\ reg' \in [Sub -> Registration] /\ \A s \in Sub : Sound(reg'[s])
        /\ TakenTyped'
    <3>1. CASE CatchesUp(d)
      BY <1>4, <3>1, CatchUpEffect, ChoseTyped DEF CatchesUp, Rested
    <3>2. CASE UNCHANGED <<delivery, reg, taken>>
      BY <1>4, <3>2, CatchUpEffect, TypeNow DEF Rested, TakenTyped
    <3>. QED
      BY <1>4, <3>1, <3>2, CatchUpEffect
  <2>2. seq' = seq /\ event' = event /\ dest' = dest /\ lapsed' = lapsed /\ aged' = aged
        /\ beyond' = beyond /\ faults' = faults /\ misses' = misses
    BY <2>1 DEF age
  <2>. QED
    BY <2>1, <2>2, TypeNow, TurnedTyped, TypeParts DEF TakenTyped
<1>5. CASE Seek(d)
  BY <1>5, SeekEffect, CallOnlyTyped, TypeNow DEF Seeks
<1>. QED
  BY <1>1, <1>2, <1>3, <1>4, <1>5

LEMMA ControlledTyped ==
  ASSUME TypeInv, NEW s \in Sub, Controlled(s),
         UNCHANGED <<event, delivery, call, dest, age, faults, taken, misses>>
  PROVE  TypeInv'
<1>1. event' = event /\ delivery' = delivery /\ call' = call /\ dest' = dest /\ lapsed' = lapsed
      /\ aged' = aged /\ beyond' = beyond /\ faults' = faults /\ misses' = misses
      /\ taken' = taken
  BY DEF age
<1>2. seq' \in Position /\ RegTyped(s)
  BY DEF Controlled
<1>. QED
  BY <1>1, <1>2, TypeNow, RegTypedAll, TypeParts

\* The steps of the management and of the world.
Commands(s) ==
  Pause(s) \/ Resume(s) \/ Rearm(s) \/ (\E c \in Config : Register(s, c) \/ Update(s, c))
LEMMA CommandsEffect ==
  ASSUME TypeInv, NEW s \in Sub, Commands(s)
  PROVE  Controlled(s) /\ UNCHANGED <<event, delivery, call, dest, age, faults, taken, misses>>
BY ModeEffect, RegisterEffect, UpdateEffect DEF Commands

LEMMA AcceptEffect ==
  ASSUME TypeInv, NEW e \in Event, Accept(e)
  PROVE  Accepted(e) /\ UNCHANGED <<reg, delivery, call, dest, age, faults, taken, misses>>
BY RetainEffect DEF Accept

\* What can happen, one action after the other.
LEMMA NextCases ==
  ASSUME Next
  PROVE  \/ \E s \in Sub : Commands(s) \/ Cancel(s)
         \/ \E e \in Event : Accept(e) \/ ReclaimEvent(e) \/ Age(e)
         \/ \E d \in Driver :
              \/ Select(d) \/ Seek(d) \/ GiveUp(d) \/ Find(d) \/ CatchUp(d) \/ Defer(d)
              \/ Prepare(d) \/ Freeze(d) \/ Send(d) \/ Complete(d) \/ Refuse(d) \/ Failed(d)
                   \/ Retry(d) \/ Observe(d)
              \/ Interrupt(d)
              \/ \E e \in Event : Route(d, e)
              \/ \E s \in Sub : List(d, s)
              \/ \E s \in Sub, e \in Event : Begin(d, s, e)
         \/ \E s \in Sub, e \in Event : Recover(s, e) \/ ReclaimDelivery(s, e) \/ Settle(s, e)
         \/ \E c \in Config : Lapse(c)
<1>1. CASE \E d \in Sender, s \in Sub, e \in Event : Begin(d, s, e)
  BY <1>1, Limits
<1>2. CASE ~(\E d \in Sender, s \in Sub, e \in Event : Begin(d, s, e))
  BY <1>2 DEF Next, Process, Commands
<1>. QED
  BY <1>1, <1>2

LEMMA WorldTyped ==
  ASSUME TypeInv, NEW s \in Sub, NEW e \in Event,
         Recover(s, e) \/ ReclaimDelivery(s, e) \/ Settle(s, e)
  PROVE  TypeInv'
<1>1. CASE Recover(s, e)
  <2>1. /\ delivery' \in [Sub -> [Event -> Delivery]] /\ misses' \in [Sub -> [Event -> Nat]]
        /\ UNCHANGED <<seq, reg, event, call, dest, age, faults, taken>>
    BY <1>1, RecoverEffect DEF Reset, Rewritten, Written
  <2>2. seq' = seq /\ reg' = reg /\ event' = event /\ call' = call /\ dest' = dest
        /\ lapsed' = lapsed /\ aged' = aged /\ beyond' = beyond /\ faults' = faults
        /\ taken' = taken
    BY <2>1 DEF age
  <2>. QED
    BY <2>1, <2>2, TypeNow, TypeParts
<1>2. CASE ReclaimDelivery(s, e)
  <2>1. /\ delivery' \in [Sub -> [Event -> Delivery]]
        /\ UNCHANGED <<seq, reg, event, call, dest, age, faults, taken, misses>>
    BY <1>2, ReclaimDeliveryEffect DEF Removed, Written
  <2>2. seq' = seq /\ reg' = reg /\ event' = event /\ call' = call /\ dest' = dest
        /\ lapsed' = lapsed /\ aged' = aged /\ beyond' = beyond /\ faults' = faults
        /\ taken' = taken /\ misses' = misses
    BY <2>1 DEF age
  <2>. QED
    BY <2>1, <2>2, TypeNow, TypeParts
<1>3. CASE Settle(s, e)
  <2>1. /\ dest' \in [Sub -> [Event -> [kind : {"none", "admitted", "settled"},
                                        envelope : Envelope \cup {None}]]]
        /\ UNCHANGED <<store, call, age, faults, taken, misses>>
    BY <1>3, SettleEffect DEF SettlesFor
  <2>2. seq' = seq /\ reg' = reg /\ event' = event /\ delivery' = delivery /\ call' = call
        /\ lapsed' = lapsed /\ aged' = aged /\ beyond' = beyond /\ faults' = faults
        /\ taken' = taken /\ misses' = misses
    BY <2>1 DEF age, store
  <2>. QED
    BY <2>1, <2>2, TypeNow, TypeParts
<1>. QED
  BY <1>1, <1>2, <1>3

LEMMA EventsTyped ==
  ASSUME TypeInv, NEW e \in Event, Accept(e) \/ ReclaimEvent(e) \/ Age(e)
  PROVE  TypeInv'
<1>1. CASE Accept(e)
  <2>1. /\ event' \in [Event -> Retained] /\ seq' \in Position
        /\ UNCHANGED <<reg, delivery, call, dest, age, faults, taken, misses>>
    BY <1>1, AcceptEffect DEF Accepted, EventTyped
  <2>2. reg' = reg /\ delivery' = delivery /\ call' = call /\ dest' = dest
        /\ lapsed' = lapsed /\ aged' = aged /\ beyond' = beyond /\ faults' = faults
        /\ taken' = taken /\ misses' = misses
    BY <2>1 DEF age
  <2>. QED
    BY <2>1, <2>2, TypeNow, TypeParts
<1>2. CASE ReclaimEvent(e)
  <2>1. /\ event' \in [Event -> Retained]
        /\ UNCHANGED <<seq, reg, delivery, call, dest, age, faults, taken, misses>>
    BY <1>2, ReclaimEventEffect DEF Reclaimed, EventTyped
  <2>2. seq' = seq /\ reg' = reg /\ delivery' = delivery /\ call' = call /\ dest' = dest
        /\ lapsed' = lapsed /\ aged' = aged /\ beyond' = beyond /\ faults' = faults
        /\ taken' = taken /\ misses' = misses
    BY <2>1 DEF age
  <2>. QED
    BY <2>1, <2>2, TypeNow, TypeParts
<1>3. CASE Age(e)
  <2>1. /\ aged' \subseteq Event /\ beyond' \subseteq Event
        /\ UNCHANGED <<store, call, dest, lapsed, faults, taken, misses>>
    BY <1>3, TypeNow DEF Age
  <2>2. seq' = seq /\ reg' = reg /\ event' = event /\ delivery' = delivery /\ call' = call
        /\ dest' = dest /\ lapsed' = lapsed /\ faults' = faults /\ taken' = taken
        /\ misses' = misses
    BY <2>1 DEF store
  <2>. QED
    BY <2>1, <2>2, TypeNow, TypeParts
<1>. QED
  BY <1>1, <1>2, <1>3

LEMMA CancelTyped ==
  ASSUME TypeInv, NEW s \in Sub, Cancel(s)
  PROVE  TypeInv'
<1>1. RegTyped(s) /\ UNCHANGED <<seq, event, delivery, call, dest, age, faults, taken, misses>>
  BY CancelEffect DEF Cancelled
<1>2. seq' = seq /\ event' = event /\ delivery' = delivery /\ call' = call /\ dest' = dest
      /\ lapsed' = lapsed /\ aged' = aged /\ beyond' = beyond /\ faults' = faults
      /\ misses' = misses /\ taken' = taken
  BY <1>1 DEF age
<1>. QED
  BY <1>1, <1>2, TypeNow, RegTypedAll, TypeParts

LEMMA LapseTyped ==
  ASSUME TypeInv, NEW c \in Config, Lapse(c)
  PROVE  TypeInv'
<1>1. lapsed' \subseteq Config
  BY TypeNow DEF Lapse
<1>2. seq' = seq /\ reg' = reg /\ event' = event /\ delivery' = delivery /\ call' = call
      /\ dest' = dest /\ aged' = aged /\ beyond' = beyond /\ faults' = faults /\ taken' = taken
      /\ misses' = misses
  BY DEF Lapse, store
<1>. QED
  BY <1>1, <1>2, TypeNow, TypeParts

LEMMA TypeNext ==
  ASSUME TypeInv, [Next]_vars
  PROVE  TypeInv'
<1>1. CASE UNCHANGED vars
  BY <1>1, StutterTyped
<1>2. ASSUME NEW s \in Sub, Commands(s) \/ Cancel(s) PROVE TypeInv'
  BY <1>2, CommandsEffect, ControlledTyped, CancelTyped
<1>3. ASSUME NEW d \in Driver, NEW e \in Event, Route(d, e) PROVE TypeInv'
  BY <1>3, RouteEffect, CallOnlyTyped, TypeNow DEF Routes
<1>4. ASSUME NEW d \in Driver, NEW s \in Sub, List(d, s) PROVE TypeInv'
  BY <1>4, ListEffect, CallOnlyTyped, TypeNow
<1>5. ASSUME NEW d \in Driver, NEW s \in Sub, NEW e \in Event, Begin(d, s, e) PROVE TypeInv'
  BY <1>5, BeginEffect, CallOnlyTyped, TypeNow DEF Reads
<1>6. ASSUME NEW d \in Driver, Interrupt(d) PROVE TypeInv'
  BY <1>6, InterruptEffect, CallOnlyTyped, TypeNow DEF Rested
<1>7. CASE Next
  BY <1>2, <1>3, <1>4, <1>5, <1>6, <1>7, NextCases, EventsTyped, RoutingTyped, ProcessingTyped,
     WorldTyped, LapseTyped
<1>. QED
  BY <1>1, <1>7

-----------------------------------------------------------------------------
(***************************************************************************)
(* What a step does to the selection of events: twelve kinds of steps.      *)
(***************************************************************************)
Manages(s) ==
  /\ Controlled(s) \/ (Cancelled(s) /\ seq' = seq)
  /\ UNCHANGED <<event, delivery, call, lapsed, beyond, taken>>
Accepts(e) ==
  /\ Accepted(e) /\ UNCHANGED <<reg, delivery, lapsed, beyond, taken>>
  /\ \/ call' = call
     \/ \E d \in Driver : call[d].at = "seek" /\ Finds(d, e)
Retires(e) == Reclaimed(e) /\ UNCHANGED <<seq, reg, delivery, call, lapsed, beyond, taken>>
Ages ==
  /\ UNCHANGED <<seq, reg, event, delivery, call, lapsed, taken>> /\ beyond \subseteq beyond'
  /\ \A e \in Event : e \in beyond' => e \in beyond \/ event[e].state # "absent"
Picks(d) ==
  /\ call[d].at = "select" /\ call[d].event \in Event /\ Rested(d) /\ Selects(d)
  /\ UNCHANGED <<seq, lapsed, beyond>>
Vouches(d) ==
  /\ call[d].at = "catchUp" /\ call[d].sub \in Sub /\ call[d].event \in Event
  /\ Rested(d) /\ CatchesUp(d) /\ UNCHANGED <<seq, event, lapsed, beyond>>
Abandons(d, s) ==
  /\ Rested(d) /\ Deferred(s) /\ UNCHANGED <<seq, event, delivery, lapsed, beyond, taken>>
Pages(d, e) == Routes(d, e) /\ UNCHANGED <<seq, reg, event, delivery, lapsed, beyond, taken>>
Asks(d, s) ==
  /\ Seeks(d, s)
  /\ UNCHANGED <<seq, reg, event, delivery, lapsed, beyond, taken>>
Learns(d, e) ==
  /\ Finds(d, e) /\ call[d].at = "seek" /\ event[e].state # "absent"
  /\ UNCHANGED <<seq, reg, event, delivery, lapsed, beyond, taken>>
Forgets(s, e) ==
  /\ Removed(s, e) /\ Finished(delivery[s][e]) /\ event[e].state # "absent" /\ Reclaimable(e)
  /\ UNCHANGED <<seq, reg, event, call, lapsed, beyond, taken>>
Quiet ==
  /\ UNCHANGED <<seq, reg, event, beyond, taken>> /\ lapsed \subseteq lapsed'
  /\ \A s \in Sub, e \in Event :
       delivery'[s][e].state = "absent" <=> delivery[s][e].state = "absent"
  /\ \A d \in Driver : call'[d] = call[d] \/ call'[d].at \in Calm

Kinds ==
  \/ \E s \in Sub : Manages(s)
  \/ \E e \in Event : Accepts(e) \/ Retires(e)
  \/ Ages
  \/ \E d \in Driver : Picks(d) \/ Vouches(d)
  \/ \E d \in Driver, s \in Sub : Abandons(d, s) \/ Asks(d, s)
  \/ \E d \in Driver, e \in Event : Pages(d, e) \/ Learns(d, e)
  \/ \E s \in Sub, e \in Event : Forgets(s, e)
  \/ Quiet

LEMMA CalmQuiet ==
  ASSUME TypeInv, NEW d \in Driver, Turned(d), call'[d].at \in Calm,
         UNCHANGED <<seq, reg, event, delivery, age, taken>>
  PROVE  Quiet
BY DEF Turned, Quiet, age

LEMMA RestedQuiet ==
  ASSUME TypeInv, NEW d \in Driver, Rested(d), UNCHANGED <<seq, reg, event, delivery, age, taken>>
  PROVE  Quiet
BY CalmQuiet DEF Rested, Calm

LEMMA OnwardQuiet ==
  ASSUME TypeInv, NEW d \in Driver, Onward(d), UNCHANGED <<seq, reg, event, delivery, age, taken>>
  PROVE  Quiet
BY CalmQuiet DEF Onward, Calm

LEMMA RewrittenQuiet ==
  ASSUME TypeInv, NEW d \in Driver, NEW s \in Sub, NEW e \in Event, Rewritten(s, e),
         Turned(d), call'[d].at \in Calm, UNCHANGED <<seq, reg, event, age, taken>>
  PROVE  Quiet
<1>1. \A t \in Sub, f \in Event :
        delivery'[t][f].state = "absent" <=> delivery[t][f].state = "absent"
  BY DEF Rewritten, Written, Same
<1>2. \A x \in Driver : call'[x] = call[x] \/ call'[x].at \in Calm
  BY DEF Turned
<1>. QED
  BY <1>1, <1>2 DEF Quiet, age

LEMMA ProcessingQuiet ==
  ASSUME TypeInv, NEW d \in Driver, Prepare(d) \/ Freeze(d) \/ Send(d) \/ Complete(d) \/ Refuse(d)
                                      \/ Failed(d) \/ Retry(d) \/ Observe(d)
  PROVE  Quiet
<1>0. ASSUME call[d].at \in Handling PROVE call[d].sub \in Sub /\ call[d].event \in Event
  BY <1>0, Subject
<1>1. CASE Prepare(d)
  BY <1>1, PrepareEffect, OnwardQuiet DEF store
<1>2. CASE Freeze(d)
  <2>1. call[d].at \in Handling /\ UNCHANGED <<seq, reg, event, age, taken>>
    BY <1>2, FreezeEffect
  <2>2. Turned(d) /\ call'[d].at \in Calm
    BY <1>2, FreezeEffect DEF Rested, Sends, Misses, Fails, Onward, Handling, Calm
  <2>3. CASE Froze(d, call[d].sub, call[d].event)
    BY <1>0, <2>1, <2>2, <2>3, RewrittenQuiet DEF Froze
  <2>4. CASE UNCHANGED delivery
    BY <2>1, <2>2, <2>4, CalmQuiet
  <2>. QED
    BY <1>2, <2>3, <2>4, FreezeEffect
<1>3. CASE Send(d)
  BY <1>3, SendEffect, OnwardQuiet DEF store
<1>4. CASE Complete(d)
  <2>1. call[d].at \in Handling /\ UNCHANGED <<seq, reg, event, age, taken>>
    BY <1>4, CompleteEffect
  <2>2. CASE Receipted(call[d].sub, call[d].event) /\ Rested(d)
    BY <1>0, <2>1, <2>2, RewrittenQuiet DEF Receipted, Rested, Calm
  <2>3. CASE UNCHANGED delivery /\ (Onward(d) \/ Rested(d))
    BY <2>1, <2>3, OnwardQuiet, RestedQuiet
  <2>. QED
    BY <1>4, <2>2, <2>3, CompleteEffect DEF Fails
<1>5. CASE Refuse(d)
  <2>1. call[d].at \in Handling /\ UNCHANGED <<seq, reg, event, age, taken>>
    BY <1>5, RefuseEffect
  <2>2. CASE Declined(call[d].sub, call[d].event, call[d].phase) /\ Rested(d)
    BY <1>0, <2>1, <2>2, RewrittenQuiet DEF Declined, Rested, Calm
  <2>3. CASE UNCHANGED delivery /\ (Onward(d) \/ Rested(d))
    BY <2>1, <2>3, OnwardQuiet, RestedQuiet
  <2>. QED
    BY <1>5, <2>2, <2>3, RefuseEffect DEF Fails
<1>6. CASE Failed(d)
  <2>1. UNCHANGED <<seq, reg, event, delivery, age, taken>>
    BY <1>6, FailedEffect DEF store
  <2>2. Turned(d) /\ call'[d].at \in Calm
    BY <1>6, FailedEffect DEF Rested, Reads, Calm
  <2>. QED
    BY <2>1, <2>2, CalmQuiet
<1>7. CASE Retry(d)
  <2>1. call[d].at \in Handling /\ UNCHANGED <<seq, reg, event, age, taken>> /\ Rested(d)
    BY <1>7, RetryEffect
  <2>2. CASE Counted(d, call[d].sub, call[d].event)
    BY <1>0, <2>1, <2>2, RewrittenQuiet DEF Counted, Rested, Calm
  <2>3. CASE UNCHANGED delivery
    BY <2>1, <2>3, RestedQuiet
  <2>. QED
    BY <1>7, <2>2, <2>3, RetryEffect
<1>8. CASE Observe(d)
  <2>1. call[d].at \in Handling /\ UNCHANGED <<seq, reg, event, age, taken>> /\ Rested(d)
    BY <1>8, ObserveEffect
  <2>2. CASE SettledBy(call[d].sub, call[d].event)
    BY <1>0, <2>1, <2>2, RewrittenQuiet DEF SettledBy, Rested, Calm
  <2>3. CASE UNCHANGED delivery
    BY <2>1, <2>3, RestedQuiet
  <2>. QED
    BY <1>8, <2>2, <2>3, ObserveEffect
<1>. QED
  BY <1>1, <1>2, <1>3, <1>4, <1>5, <1>6, <1>7, <1>8

LEMMA RoutingKinds ==
  ASSUME TypeInv, NEW d \in Driver,
         Select(d) \/ Seek(d) \/ GiveUp(d) \/ Find(d) \/ CatchUp(d) \/ Defer(d)
  PROVE  Kinds
<1>1. CASE Select(d)
  <2>1. CASE Selects(d)
    <3>1. Picks(d)
      BY <1>1, <2>1, SelectEffect DEF Picks, age
    <3>. QED
      BY <3>1 DEF Kinds
  <2>2. CASE UNCHANGED <<event, delivery, reg, taken>>
    BY <1>1, <2>2, SelectEffect, RestedQuiet DEF Kinds
  <2>. QED
    BY <1>1, <2>1, <2>2, SelectEffect
<1>2. CASE GiveUp(d) \/ Defer(d)
  <2>1. CASE Deferred(call[d].sub)
    <3>1. PICK s \in Sub : s = call[d].sub
      BY <1>2, RecoveryEffect
    <3>2. Abandons(d, s)
      BY <1>2, <2>1, <3>1, RecoveryEffect DEF Abandons, age
    <3>. QED
      BY <3>2 DEF Kinds
  <2>2. CASE UNCHANGED reg
    BY <1>2, <2>2, RecoveryEffect, RestedQuiet DEF Kinds
  <2>. QED
    BY <1>2, <2>1, <2>2, RecoveryEffect
<1>3. CASE Find(d)
  <2>1. CASE Turned(d) /\ call'[d].at = "defer" /\ UNCHANGED <<seq, event>>
    BY <1>3, <2>1, FindEffect, CalmQuiet DEF Kinds, Calm
  <2>2. ASSUME NEW e \in Event, Retain(e), Finds(d, e) PROVE Kinds
    <3>1. CASE Accepted(e)
      <4>1. Accepts(e)
        BY <1>3, <2>2, <3>1, FindEffect DEF Accepts, age
      <4>. QED
        BY <4>1 DEF Kinds
    <3>2. CASE UNCHANGED <<seq, event>> /\ event[e].state # "absent"
      <4>1. Learns(d, e)
        BY <1>3, <2>2, <3>2, FindEffect DEF Learns, age
      <4>. QED
        BY <4>1 DEF Kinds
    <3>. QED
      BY <2>2, <3>1, <3>2, RetainEffect
  <2>. QED
    BY <1>3, <2>1, <2>2, FindEffect
<1>4. CASE CatchUp(d)
  <2>1. CASE CatchesUp(d) /\ Rested(d)
    <3>1. Vouches(d)
      BY <1>4, <2>1, CatchUpEffect DEF Vouches, age
    <3>. QED
      BY <3>1 DEF Kinds
  <2>2. CASE UNCHANGED <<delivery, reg, taken>> /\ Turned(d) /\ call'[d].at \in {"idle", "defer"}
    BY <1>4, <2>2, CatchUpEffect, CalmQuiet DEF Kinds, Calm
  <2>. QED
    BY <1>4, <2>1, <2>2, CatchUpEffect
<1>5. CASE Seek(d)
  <2>1. PICK s \in Sub : s = call[d].sub
    BY <1>5, SeekEffect
  <2>2. CASE Seeks(d, s)
    <3>1. Asks(d, s)
      BY <1>5, <2>2, SeekEffect DEF Asks, store, age
    <3>. QED
      BY <3>1 DEF Kinds
  <2>3. CASE Turned(d) /\ call'[d].at \in {"giveUp", "defer"}
    BY <1>5, <2>3, SeekEffect, CalmQuiet DEF Kinds, Calm, store
  <2>. QED
    BY <1>5, <2>1, <2>2, <2>3, SeekEffect
<1>. QED
  BY <1>1, <1>2, <1>3, <1>4, <1>5

LEMMA StepKinds ==
  ASSUME TypeInv, [Next]_vars
  PROVE  Kinds
<1>1. CASE UNCHANGED vars
  BY <1>1 DEF vars, store, age, Kinds, Quiet
<1>2. ASSUME NEW s \in Sub, Commands(s) \/ Cancel(s) PROVE Kinds
  <2>1. Manages(s)
    BY <1>2, CommandsEffect, CancelEffect DEF Manages, age
  <2>. QED
    BY <2>1 DEF Kinds
<1>3. ASSUME NEW e \in Event, Accept(e) PROVE Kinds
  <2>1. Accepts(e)
    BY <1>3, AcceptEffect DEF Accepts, age
  <2>. QED
    BY <2>1 DEF Kinds
<1>4. ASSUME NEW e \in Event, ReclaimEvent(e) PROVE Kinds
  <2>1. Retires(e)
    BY <1>4, ReclaimEventEffect DEF Retires, age
  <2>. QED
    BY <2>1 DEF Kinds
<1>5. ASSUME NEW e \in Event, Age(e) PROVE Kinds
  <2>1. Ages
    BY <1>5 DEF Age, Ages, store
  <2>. QED
    BY <2>1 DEF Kinds
<1>6. ASSUME NEW d \in Driver, NEW e \in Event, Route(d, e) PROVE Kinds
  <2>1. Pages(d, e)
    BY <1>6, RouteEffect DEF Pages, store, age
  <2>. QED
    BY <2>1 DEF Kinds
<1>7. ASSUME NEW d \in Driver, NEW s \in Sub, List(d, s) PROVE Kinds
  BY <1>7, ListEffect, CalmQuiet DEF Kinds, Calm, store
<1>8. ASSUME NEW d \in Driver, NEW s \in Sub, NEW e \in Event, Begin(d, s, e) PROVE Kinds
  <2>1. Quiet
    BY <1>8, BeginEffect, CalmQuiet DEF Reads, Calm, store
  <2>. QED
    BY <2>1 DEF Kinds
<1>9. ASSUME NEW d \in Driver, Interrupt(d) PROVE Kinds
  BY <1>9, InterruptEffect, RestedQuiet DEF store, Kinds
<1>10. ASSUME NEW s \in Sub, NEW e \in Event, Recover(s, e) \/ Settle(s, e) PROVE Kinds
  <2>1. CASE Recover(s, e)
    <3>1. /\ Rewritten(s, e) /\ UNCHANGED <<seq, reg, event, call, age, taken>>
      BY <2>1, RecoverEffect DEF Reset
    <3>2. Quiet
      BY <3>1 DEF Rewritten, Written, Same, Quiet, age
    <3>. QED
      BY <3>2 DEF Kinds
  <2>2. CASE Settle(s, e)
    <3>1. Quiet
      BY <2>2 DEF Settle, Quiet, store, age
    <3>. QED
      BY <3>1 DEF Kinds
  <2>. QED
    BY <1>10, <2>1, <2>2
<1>11. ASSUME NEW s \in Sub, NEW e \in Event, ReclaimDelivery(s, e) PROVE Kinds
  <2>1. Forgets(s, e)
    BY <1>11, ReclaimDeliveryEffect DEF Forgets, age
  <2>. QED
    BY <2>1 DEF Kinds
<1>12. ASSUME NEW c \in Config, Lapse(c) PROVE Kinds
  <2>1. Quiet
    BY <1>12 DEF Lapse, Quiet, store
  <2>. QED
    BY <2>1 DEF Kinds
<1>13. CASE Next
  BY <1>2, <1>3, <1>4, <1>5, <1>6, <1>7, <1>8, <1>9, <1>10, <1>11, <1>12, <1>13, NextCases,
     RoutingKinds, ProcessingQuiet DEF Kinds
<1>. QED
  BY <1>1, <1>13

-----------------------------------------------------------------------------
(***************************************************************************)
(* Revisions and sequence numbers only grow, and a call can tell by them    *)
(* whether what it read still holds.                                        *)
(***************************************************************************)
Sequence(s) ==
  /\ reg[s].ordinal <= seq
  /\ reg[s].state # "absent" => reg[s].ordinal >= 1
Sequenced(e) ==
  /\ event[e].cursor <= event[e].cutoff /\ event[e].cutoff <= seq
  /\ event[e].state = "absent" => ~event[e].routed /\ event[e].cursor = 0
PageHolds(e, c) ==
  /\ event[e].state # "absent" \/ e \in beyond
  /\ event[e].state = "live" =>
       c.last <= event[e].cutoff /\ c.cursor <= c.last /\ c.cursor <= event[e].cursor
  /\ \A x \in c.page : /\ x[2] <= reg[x[1]].revision
                       /\ x[2] = reg[x[1]].revision => e \in Wants[reg[x[1]].config]
Paged(d, e) == call[d].at = "select" /\ call[d].event = e => PageHolds(e, call[d])
Expects(s, c) ==
  /\ c.revision <= reg[s].revision
  /\ c.revision = reg[s].revision => reg[s].config \in Sourced
Seeking(d, s) == call[d].at \in Looking /\ call[d].sub = s => Expects(s, call[d])
OrderInv ==
  /\ TypeInv
  /\ \A s \in Sub : Sequence(s)
  /\ \A e \in Event : Sequenced(e)
  /\ \A d \in Driver, e \in Event : Paged(d, e)
  /\ \A d \in Driver, s \in Sub : Seeking(d, s)

Ordered(s) ==
  /\ reg[s].revision <= reg'[s].revision
  /\ reg'[s].revision = reg[s].revision =>
       /\ reg'[s].config = reg[s].config /\ reg'[s].ordinal = reg[s].ordinal
       /\ reg'[s].state = "active" => reg[s].state = "active"
  /\ reg'[s].ordinal = reg[s].ordinal \/ (reg'[s].ordinal = seq + 1 /\ seq' = seq + 1)
  /\ reg'[s].revision # reg[s].revision /\ reg'[s].state # "cancelled" =>
       reg'[s].ordinal = seq + 1 /\ seq' = seq + 1
  /\ reg[s].state \in {"consumed", "cancelled"} => reg'[s].state \in {"consumed", "cancelled"}
  /\ reg[s].state = "absent" => reg'[s].state = "absent" \/ reg'[s].ordinal = seq + 1

LEMMA ChoseOrdered ==
  ASSUME TypeInv, NEW N, NEW e \in Event, Chose(N, e), NEW s \in Sub
  PROVE  Ordered(s)
<1>1. reg[s] \in Registration /\ Sound(reg[s])
  BY RegRow
<1>2. CASE s \in N
  <2>1. reg'[s] = Consume(reg[s]) /\ reg[s].state = "active"
    BY <1>2 DEF Chose, Eligible
  <2>. QED
    BY <1>1, <2>1, RegFields, ConsumeEffect DEF Ordered
<1>3. CASE s \notin N
  <2>1. reg'[s] = reg[s]
    BY <1>3 DEF Chose
  <2>. QED
    BY <1>1, <2>1, RegFields DEF Ordered
<1>. QED
  BY <1>2, <1>3

LEMMA RegistrationsAreOrdered ==
  ASSUME TypeInv, Kinds
  PROVE  (\A s \in Sub : Ordered(s)) /\ seq \in Nat /\ (seq' = seq \/ seq' = seq + 1)
<1>0. seq \in Nat /\ \A s \in Sub : reg[s] \in Registration /\ reg[s].revision \in Nat
  BY TypeNow, RegFields, Limits DEF Position
<1>1. ASSUME NEW s \in Sub, Manages(s)
      PROVE (\A t \in Sub : Ordered(t)) /\ (seq' = seq \/ seq' = seq + 1)
  BY <1>0, <1>1 DEF Manages, Controlled, Cancelled, RegTyped, Ordered
<1>2. ASSUME NEW d \in Driver, NEW s \in Sub, Abandons(d, s)
      PROVE (\A t \in Sub : Ordered(t)) /\ seq' = seq
  BY <1>0, <1>2 DEF Abandons, Deferred, RegTyped, Ordered
<1>3. ASSUME NEW d \in Driver, Picks(d) PROVE (\A t \in Sub : Ordered(t)) /\ seq' = seq
  BY <1>3, ChoseOrdered DEF Picks, Selects
<1>4. ASSUME NEW d \in Driver, Vouches(d) PROVE (\A t \in Sub : Ordered(t)) /\ seq' = seq
  BY <1>4, ChoseOrdered DEF Vouches, CatchesUp
<1>5. ASSUME UNCHANGED reg PROVE \A t \in Sub : Ordered(t)
  BY <1>0, <1>5 DEF Ordered
<1>. QED
  BY <1>0, <1>1, <1>2, <1>3, <1>4, <1>5
     DEF Kinds, Accepts, Accepted, Retires, Ages, Asks, Pages, Learns, Forgets, Quiet

\* What becomes of an event.
Steady(e) ==
  /\ event[e].state # "absent" \/ e \in beyond => event'[e].state # "absent" \/ e \in beyond'
  /\ event'[e].state = "live" =>
       \/ Accepted(e)
       \/ /\ event[e].state = "live" /\ event'[e].cutoff = event[e].cutoff
          /\ event[e].cursor <= event'[e].cursor
  /\ e \in beyond => e \in beyond'

LEMMA EventsAreSteady ==
  ASSUME OrderInv, Kinds
  PROVE  \A e \in Event : Steady(e) /\ Sequenced(e)'
<1>0. /\ TypeInv /\ seq \in Nat /\ \A e \in Event : Sequenced(e)
      /\ \A e \in Event : event[e] \in Retained
  BY TypeNow, RegistrationsAreOrdered DEF OrderInv
<1>1. \A e \in Event : event[e].cursor \in Nat /\ event[e].cutoff \in Nat
  BY <1>0, EventFields
<1>2. ASSUME NEW e \in Event, event'[e] = event[e], beyond \subseteq beyond', seq <= seq',
             seq' \in Nat
      PROVE  Steady(e) /\ Sequenced(e)'
  BY <1>0, <1>1, <1>2 DEF Steady, Sequenced
<1>3. ASSUME NEW e \in Event, Accepts(e) PROVE \A f \in Event : Steady(f) /\ Sequenced(f)'
  <2>1. ASSUME NEW f \in Event, f # e PROVE Steady(f) /\ Sequenced(f)'
    BY <1>0, <1>2, <1>3, <2>1 DEF Accepts, Accepted, EventTyped
  <2>2. Steady(e) /\ Sequenced(e)'
    BY <1>0, <1>1, <1>3 DEF Accepts, Accepted, EventTyped, Steady, Sequenced
  <2>. QED
    BY <2>1, <2>2
<1>4. ASSUME NEW e \in Event, Retires(e) PROVE \A f \in Event : Steady(f) /\ Sequenced(f)'
  <2>1. ASSUME NEW f \in Event, f # e PROVE Steady(f) /\ Sequenced(f)'
    BY <1>0, <1>2, <1>4, <2>1 DEF Retires, Reclaimed, EventTyped
  <2>2. Steady(e)
    BY <1>4 DEF Retires, Reclaimed, EventTyped, Steady, NoEvent
  <2>3. Sequenced(e)'
    BY <1>0, <1>1, <1>4 DEF Retires, Reclaimed, EventTyped, Sequenced, NoEvent
  <2>. QED
    BY <2>1, <2>2, <2>3
<1>5. ASSUME NEW d \in Driver, Picks(d) PROVE \A f \in Event : Steady(f) /\ Sequenced(f)'
  <2>1. PICK e \in Event : e = call[d].event
    BY <1>5 DEF Picks
  <2>2. /\ EventTyped(e) /\ seq' = seq /\ beyond' = beyond
        /\ event[e].state = "live" /\ event'[e].state = "live" /\ event'[e].cutoff = event[e].cutoff
        /\ event[e].cursor = call[d].cursor /\ event'[e].cursor = call[d].last
    BY <1>5, <2>1 DEF Picks, Selects, Chose
  <2>3. PageHolds(e, call[d])
    BY <1>5, <2>1 DEF OrderInv, Paged, Picks
  <2>4. call[d].last \in Nat
    BY <1>0, Calls, CallFields
  <2>5. ASSUME NEW f \in Event, f # e PROVE Steady(f) /\ Sequenced(f)'
    BY <1>0, <1>2, <2>2, <2>5 DEF EventTyped
  <2>6. Steady(e) /\ Sequenced(e)'
    BY <1>0, <1>1, <2>2, <2>3, <2>4 DEF Steady, Sequenced, PageHolds
  <2>. QED
    BY <2>5, <2>6
<1>6. ASSUME event' = event, beyond \subseteq beyond'
      PROVE \A f \in Event : Steady(f) /\ Sequenced(f)'
  BY <1>0, <1>2, <1>6, RegistrationsAreOrdered
<1>. QED
  BY <1>3, <1>4, <1>5, <1>6
     DEF Kinds, Manages, Ages, Vouches, Abandons, Asks, Pages, Learns, Forgets, Quiet

\* What becomes of a call that pages or seeks.
LEMMA CallsMove ==
  ASSUME TypeInv, Kinds, NEW d \in Driver
  PROVE  /\ call'[d].at = "select" =>
              \/ call'[d] = call[d]
              \/ \E e \in Event : Pages(d, e)
         /\ call'[d].at \in Looking =>
              \/ call'[d] = call[d]
              \/ \E s \in Sub : Asks(d, s)
              \/ \E e \in Event : Finds(d, e) /\ call[d].at = "seek" /\ reg' = reg
<1>. DEFINE Moved ==
         /\ call'[d].at = "select" =>
              \/ call'[d] = call[d]
              \/ \E e \in Event : Pages(d, e)
         /\ call'[d].at \in Looking =>
              \/ call'[d] = call[d]
              \/ \E s \in Sub : Asks(d, s)
              \/ \E e \in Event : Finds(d, e) /\ call[d].at = "seek" /\ reg' = reg
<1>1. ASSUME NEW x \in Driver, Rested(x) PROVE Moved
  BY <1>1 DEF Rested, Turned, Looking
<1>2. ASSUME NEW x \in Driver, NEW e \in Event, Finds(x, e), call[x].at = "seek", reg' = reg
      PROVE Moved
  BY <1>2 DEF Finds, Turned
<1>3. ASSUME NEW x \in Driver, NEW e \in Event, Pages(x, e) PROVE Moved
  BY <1>3 DEF Pages, Routes, Turned, Looking
<1>4. ASSUME NEW x \in Driver, NEW s \in Sub, Asks(x, s) PROVE Moved
  BY <1>4 DEF Asks, Seeks, Turned
<1>5. ASSUME call' = call \/ call'[d] = call[d] \/ call'[d].at \in Calm
      PROVE Moved
  BY <1>5 DEF Handling, Calm, Looking
<1>6. ASSUME NEW e \in Event, Accepts(e) PROVE Moved
  BY <1>2, <1>5, <1>6 DEF Accepts
<1>. HIDE DEF Moved
<1>7. Moved
  BY <1>1, <1>2, <1>3, <1>4, <1>5, <1>6
     DEF Kinds, Manages, Retires, Ages, Picks, Vouches, Abandons, Learns, Forgets, Quiet
<1>. QED
  BY <1>7 DEF Moved

LEMMA PagesKept ==
  ASSUME OrderInv, Kinds, TypeInv', NEW d \in Driver, NEW e \in Event, PageHolds(e, call[d]),
         call'[d] = call[d]
  PROVE  PageHolds(e, call[d])'
<1>. DEFINE c == call[d]
<1>0. TypeInv /\ Steady(e) /\ \A s \in Sub : Ordered(s)
  BY EventsAreSteady, RegistrationsAreOrdered DEF OrderInv
<1>1. c \in Call /\ c.page \in SUBSET (Sub \X Nat) /\ c.cursor \in Nat /\ c.last \in Nat
  BY <1>0, Calls, CallFields
<1>2. event[e].cursor \in Nat /\ event'[e].cursor \in Nat
  <2>1. event[e] \in Retained /\ event'[e] \in Retained
    BY <1>0 DEF TypeInv, TypeOK
  <2>. QED
    BY <2>1, EventFields
<1>3. \A s \in Sub : reg[s].revision \in Nat /\ reg'[s].revision \in Nat
  <2>1. \A s \in Sub : reg[s] \in Registration /\ reg'[s] \in Registration
    BY <1>0 DEF TypeInv, TypeOK
  <2>. QED
    BY <2>1, RegFields
<1>4. ASSUME NEW x \in c.page
      PROVE  /\ x[2] <= reg'[x[1]].revision
             /\ x[2] = reg'[x[1]].revision => e \in Wants[reg'[x[1]].config]
  <2>1. PICK s \in Sub, n \in Nat : x = <<s, n>>
    BY <1>1
  <2>2. n <= reg[s].revision /\ (n = reg[s].revision => e \in Wants[reg[s].config])
    BY <2>1 DEF PageHolds
  <2>3. Ordered(s)
    BY <1>0
  <2>4. n <= reg'[s].revision /\ (n = reg'[s].revision => e \in Wants[reg'[s].config])
    BY <1>3, <2>2, <2>3 DEF Ordered
  <2>. QED
    BY <2>1, <2>4
<1>5. event'[e].state # "absent" \/ e \in beyond'
  BY <1>0 DEF Steady, PageHolds
<1>6. event'[e].state = "live" =>
        c.last <= event'[e].cutoff /\ c.cursor <= c.last /\ c.cursor <= event'[e].cursor
  BY <1>0, <1>1, <1>2 DEF Steady, PageHolds, Accepted
<1>. QED
  BY <1>4, <1>5, <1>6 DEF PageHolds

\* A page that was just read.
LEMMA PageRead ==
  ASSUME OrderInv, NEW d \in Driver, NEW e \in Event, Pages(d, e)
  PROVE  /\ call'[d].event = e /\ PageHolds(e, call[d])'
<1>0. TypeInv /\ Sequenced(e) /\ Routes(d, e) /\ reg' = reg /\ event' = event /\ beyond' = beyond
  BY DEF OrderInv, Pages
<1>1. event[e] \in Retained /\ \A s \in Sub : reg[s] \in Registration
  BY <1>0, TypeNow
<1>2. /\ event[e].cursor \in Nat /\ event[e].cutoff \in Nat
      /\ \A s \in Sub : reg[s].ordinal \in Nat /\ reg[s].revision \in Nat
  BY <1>1, RegFields, EventFields
<1>3. \A s \in Page(e) : /\ s \in Sub /\ e \in Wants[reg[s].config]
                         /\ event[e].cursor < reg[s].ordinal
                         /\ reg[s].ordinal <= event[e].cutoff
  BY DEF Page, FirstOf, Candidates
<1>4. call'[d].last <= event[e].cutoff /\ event[e].cursor <= call'[d].last
  <2>1. \A o \in Ordinals(e, Page(e)) : o <= event[e].cutoff
    BY <1>0, <1>2, <1>3 DEF Ordinals, Sequenced
  <2>2. event[e].cursor \in Ordinals(e, Page(e))
    BY DEF Ordinals
  <2>. QED
    BY <1>0, <2>1, <2>2 DEF Routes
<1>5. ASSUME NEW x \in call'[d].page
      PROVE  x[2] <= reg[x[1]].revision /\ e \in Wants[reg[x[1]].config]
  <2>1. PICK s \in Page(e) : x = <<s, reg[s].revision>>
    BY <1>0, <1>5 DEF Routes, Listed
  <2>. QED
    BY <1>2, <1>3, <2>1
<1>. QED
  BY <1>0, <1>2, <1>4, <1>5 DEF Routes, PageHolds

LEMMA OrderNext ==
  ASSUME OrderInv, [Next]_vars
  PROVE  OrderInv'
<1>0. TypeInv /\ TypeInv' /\ Kinds
  BY TypeNext, StepKinds DEF OrderInv
<1>1. /\ \A s \in Sub : Ordered(s)
      /\ seq \in Nat /\ (seq' = seq \/ seq' = seq + 1)
  BY <1>0, RegistrationsAreOrdered
<1>2. \A s \in Sub : /\ reg[s].ordinal \in Nat /\ reg'[s].ordinal \in Nat
                     /\ reg[s].revision \in Nat /\ reg'[s].revision \in Nat
  <2>1. \A s \in Sub : reg[s] \in Registration /\ reg'[s] \in Registration
    BY <1>0 DEF TypeInv, TypeOK
  <2>. QED
    BY <2>1, RegFields
<1>3. \A s \in Sub : Sequence(s)'
  BY <1>1, <1>2 DEF OrderInv, Sequence, Ordered
<1>4. \A e \in Event : Sequenced(e)'
  BY <1>0, EventsAreSteady
<1>5. ASSUME NEW d \in Driver, NEW e \in Event, call'[d].at = "select", call'[d].event = e
      PROVE  PageHolds(e, call[d])'
  <2>1. CASE call'[d] = call[d]
    <3>1. PageHolds(e, call[d])
      BY <1>5, <2>1 DEF OrderInv, Paged
    <3>. QED
      BY <1>0, <2>1, <3>1, PagesKept
  <2>2. CASE \E f \in Event : Pages(d, f)
    BY <1>5, <2>2, PageRead
  <2>. QED
    BY <1>0, <1>5, <2>1, <2>2, CallsMove
<1>6. ASSUME NEW d \in Driver, NEW s \in Sub, call'[d].at \in Looking, call'[d].sub = s
      PROVE  Expects(s, call[d])'
  <2>0. call[d].revision \in Nat /\ Ordered(s)
    BY <1>0, <1>1, Calls, CallFields
  <2>1. CASE call'[d] = call[d]
    <3>1. Expects(s, call[d])
      BY <1>6, <2>1 DEF OrderInv, Seeking
    <3>. QED
      BY <1>2, <2>0, <2>1, <3>1 DEF Expects, Ordered
  <2>2. CASE \E t \in Sub : Asks(d, t)
    <3>1. Asks(d, s)
      BY <1>6, <2>2 DEF Asks, Seeks
    <3>. QED
      BY <1>2, <2>0, <3>1 DEF Asks, Seeks, Expects
  <2>3. CASE \E e \in Event : Finds(d, e) /\ call[d].at = "seek" /\ reg' = reg
    <3>1. /\ call[d].at \in Looking /\ call[d].sub = s /\ reg' = reg
          /\ call'[d].revision = call[d].revision
      BY <1>6, <2>3 DEF Finds, Looking
    <3>2. Expects(s, call[d])
      BY <3>1 DEF OrderInv, Seeking
    <3>. QED
      BY <3>1, <3>2 DEF Expects
  <2>. QED
    BY <1>0, <1>6, <2>1, <2>2, <2>3, CallsMove
<1>7. (\A d \in Driver, e \in Event : Paged(d, e))'
  BY <1>5 DEF Paged
<1>8. (\A d \in Driver, s \in Sub : Seeking(d, s))'
  BY <1>6 DEF Seeking
<1>. QED
  BY <1>0, <1>3, <1>4, <1>7, <1>8 DEF OrderInv

LEMMA OrderInit ==
  ASSUME Init
  PROVE  OrderInv
<1>1. TypeInv
  BY InitTyped
<1>. QED
  BY <1>1 DEF Init, OrderInv, Sequence, Sequenced, Paged, Seeking, Looking, NoReg, NoEvent, NoCall

-----------------------------------------------------------------------------
(***************************************************************************)
(* An event is selected for a registration once.  After its delivery is     *)
(* gone the event is spent: routed, or forgotten and too old to come back.   *)
(***************************************************************************)
Taken(s, e) == \E c \in Config : <<s, e, c>> \in taken
Spent(e) == event[e].routed \/ (event[e].state = "absent" /\ e \in beyond)
Over(r) == r.state \in {"consumed", "cancelled"}
Marked(s, e) ==
  /\ delivery[s][e].state # "absent" => Taken(s, e)
  /\ Taken(s, e) => event[e].state # "absent" \/ e \in beyond
  /\ Taken(s, e) /\ delivery[s][e].state = "absent" => Spent(e)
Chargeable(s, e, c) == <<s, e, c>> \in taken => e \in Wants[c] /\ (c \in Once => Over(reg[s]))
MarkInv ==
  /\ OrderInv
  /\ \A s \in Sub, e \in Event : Marked(s, e)
  /\ \A s \in Sub, e \in Event, c \in Config : Chargeable(s, e, c)

\* The registrations of N are given the event e, which none of them was given before.
Given(N, e) ==
  Chose(N, e) /\ \A s \in N : ~Taken(s, e) /\ e \in Wants[reg[s].config]

LEMMA PicksGive ==
  ASSUME MarkInv, NEW d \in Driver, Picks(d)
  PROVE  Given(Fresh(d), call[d].event)
<1>. DEFINE e == call[d].event
<1>1. /\ e \in Event /\ Chose(Fresh(d), e) /\ event[e].state = "live" /\ ~event[e].routed
      /\ Current(call[d].page) /\ PageHolds(e, call[d])
  BY DEF Picks, Selects, Chose, MarkInv, OrderInv, Paged
<1>2. ASSUME NEW s \in Fresh(d) PROVE ~Taken(s, e) /\ e \in Wants[reg[s].config]
  <2>1. s \in Sub /\ delivery[s][e].state = "absent" /\ \E x \in call[d].page : x[1] = s
    BY <1>2 DEF Fresh
  <2>2. Marked(s, e)
    BY <1>1, <2>1 DEF MarkInv
  <2>3. ~Taken(s, e)
    BY <1>1, <2>1, <2>2 DEF Marked, Spent
  <2>. QED
    BY <1>1, <2>1, <2>3 DEF Current, PageHolds
<1>. QED
  BY <1>1, <1>2 DEF Given

LEMMA VouchesGive ==
  ASSUME MarkInv, NEW d \in Driver, Vouches(d)
  PROVE  Given({call[d].sub}, call[d].event)
<1>. DEFINE s == call[d].sub  e == call[d].event  c == reg[s].config
<1>1. /\ s \in Sub /\ e \in Event /\ Chose({s}, e) /\ e \in Wants[c]
      /\ reg[s].revision = call[d].revision /\ Expects(s, call[d])
  BY DEF Vouches, CatchesUp, MarkInv, OrderInv, Seeking, Looking
<1>2. c \in Sourced /\ reg[s].state = "active"
  BY <1>1 DEF Expects, Chose, Eligible
<1>3. ASSUME NEW b \in Config, <<s, e, b>> \in taken PROVE FALSE
  <2>1. Chargeable(s, e, b)
    BY <1>1, <1>3 DEF MarkInv
  <2>2. e \in Wants[b]
    BY <1>3, <2>1 DEF Chargeable
  <2>3. Wants[b] \cap Wants[c] # {}
    BY <1>1, <2>2
  <2>4. b \in Once
    BY <1>2, <1>3, <2>3, SubscriptionConstants
  <2>. QED
    BY <1>2, <1>3, <2>1, <2>4 DEF Chargeable, Over
<1>. QED
  BY <1>1, <1>3 DEF Given, Taken

\* What a step does to the deliveries that are there.
Unmoved == \A s \in Sub, e \in Event :
             delivery'[s][e].state = "absent" <=> delivery[s][e].state = "absent"
LEMMA SelectionCases ==
  ASSUME MarkInv, Kinds
  PROVE  \/ \E N \in SUBSET Sub, e \in Event : Given(N, e)
         \/ taken' = taken /\ \E s \in Sub, e \in Event : Forgets(s, e)
         \/ taken' = taken /\ Unmoved
<1>1. ASSUME NEW d \in Driver, Picks(d) PROVE \E N \in SUBSET Sub, e \in Event : Given(N, e)
  <2>1. Given(Fresh(d), call[d].event) /\ call[d].event \in Event /\ Fresh(d) \in SUBSET Sub
    BY <1>1, PicksGive DEF Picks, Fresh
  <2>. QED
    BY <2>1
<1>2. ASSUME NEW d \in Driver, Vouches(d) PROVE \E N \in SUBSET Sub, e \in Event : Given(N, e)
  <2>1. /\ Given({call[d].sub}, call[d].event) /\ call[d].event \in Event
        /\ {call[d].sub} \in SUBSET Sub
    BY <1>2, VouchesGive DEF Vouches
  <2>. QED
    BY <2>1
<1>3. ASSUME UNCHANGED <<delivery, taken>> PROVE taken' = taken /\ Unmoved
  BY <1>3 DEF Unmoved
<1>4. ASSUME Quiet PROVE taken' = taken /\ Unmoved
  BY <1>4 DEF Quiet, Unmoved
<1>. QED
  BY <1>1, <1>2, <1>3, <1>4
     DEF Kinds, Manages, Accepts, Retires, Ages, Abandons, Asks, Pages, Learns, Forgets

LEMMA SpentStays ==
  ASSUME OrderInv, Kinds, NEW e \in Event, Spent(e)
  PROVE  Spent(e)'
<1>1. ASSUME event'[e] = event[e], e \in beyond => e \in beyond' PROVE Spent(e)'
  BY <1>1 DEF Spent
<1>2. ASSUME NEW f \in Event, Accepts(f) PROVE Spent(e)'
  <2>1. f # e
    BY <1>2 DEF Accepts, Accepted, Spent, OrderInv, Sequenced
  <2>. QED
    BY <1>1, <1>2, <2>1 DEF Accepts, Accepted, EventTyped
<1>3. ASSUME NEW f \in Event, Retires(f) PROVE Spent(e)'
  <2>1. CASE f # e
    BY <1>1, <1>3, <2>1 DEF Retires, Reclaimed, EventTyped
  <2>2. CASE f = e
    BY <1>3, <2>2 DEF Retires, Reclaimed, Spent, NoEvent
  <2>. QED
    BY <2>1, <2>2
<1>4. ASSUME NEW d \in Driver, Picks(d) PROVE Spent(e)'
  <2>1. call[d].event # e
    BY <1>4 DEF Picks, Selects, Chose, Spent
  <2>. QED
    BY <1>1, <1>4, <2>1 DEF Picks, Selects, EventTyped
<1>5. ASSUME event' = event, beyond \subseteq beyond' PROVE Spent(e)'
  BY <1>1, <1>5
<1>. QED
  BY <1>2, <1>3, <1>4, <1>5
     DEF Kinds, Manages, Ages, Vouches, Abandons, Asks, Pages, Learns, Forgets, Quiet

\* What giving does to the record of selections.
LEMMA GivenTaken ==
  ASSUME MarkInv, NEW N, NEW e \in Event, Given(N, e), NEW s \in Sub, NEW f \in Event
  PROVE  /\ Taken(s, f)' <=> Taken(s, f) \/ (s \in N /\ f = e)
         /\ \A c \in Config : <<s, f, c>> \in taken' =>
              <<s, f, c>> \in taken \/ (s \in N /\ f = e /\ c = reg[s].config)
         /\ s \in N => reg[s].config \in Config /\ reg[s].state = "active"
<1>1. /\ N \subseteq Sub /\ taken' = taken \cup {<<t, e, reg[t].config>> : t \in N}
      /\ \A t \in N : Eligible(t)
  BY DEF Given, Chose
<1>2. s \in N => reg[s].config \in Config /\ reg[s].state = "active"
  <2>1. Sound(reg[s])
    BY RegRow DEF MarkInv, OrderInv
  <2>. QED
    BY <1>1, <2>1 DEF Eligible, Sound
<1>3. \A c \in Config : <<s, f, c>> \in taken' <=>
        <<s, f, c>> \in taken \/ (s \in N /\ f = e /\ c = reg[s].config)
  BY <1>1
<1>. QED
  BY <1>2, <1>3 DEF Taken

LEMMA MarkNext ==
  ASSUME MarkInv, [Next]_vars
  PROVE  MarkInv'
<1>0. OrderInv /\ OrderInv' /\ Kinds
  BY OrderNext, StepKinds DEF MarkInv, OrderInv
<1>1. /\ \A s \in Sub : Over(reg[s]) => Over(reg'[s])
      /\ \A e \in Event : /\ event[e].state # "absent" \/ e \in beyond =>
                               event'[e].state # "absent" \/ e \in beyond'
                          /\ Spent(e) => Spent(e)'
  BY <1>0, RegistrationsAreOrdered, EventsAreSteady, SpentStays
     DEF OrderInv, Ordered, Over, Steady
<1>2. ASSUME NEW N \in SUBSET Sub, NEW e \in Event, Given(N, e), NEW s \in Sub, NEW f \in Event
      PROVE  Marked(s, f)' /\ \A c \in Config : Chargeable(s, f, c)'
  <2>1. /\ Taken(s, f)' <=> Taken(s, f) \/ (s \in N /\ f = e)
        /\ \A c \in Config : <<s, f, c>> \in taken' =>
             <<s, f, c>> \in taken \/ (s \in N /\ f = e /\ c = reg[s].config)
        /\ s \in N => reg[s].config \in Config /\ reg[s].state = "active"
    BY <1>2, GivenTaken
  <2>2. Marked(s, f) /\ (s \in N => e \in Wants[reg[s].config]) /\ event[e].state = "live"
    BY <1>2 DEF MarkInv, Given, Chose
  <2>3. CASE s \in N /\ f = e
    <3>1. delivery'[s][f].state = "selected"
      BY <1>2, <2>1, <2>3, ChosenEffect DEF Given, Chose
    <3>2. reg[s].config \in Once => Over(reg'[s])
      <4>1. reg[s] \in Registration /\ Sound(reg[s]) /\ reg'[s] = Consume(reg[s])
        BY <1>0, <1>2, <2>3, RegRow DEF OrderInv, Given, Chose
      <4>. QED
        BY <2>1, <2>3, <4>1, ConsumeEffect DEF Over
    <3>3. Marked(s, f)'
      BY <1>1, <2>1, <2>2, <2>3, <3>1 DEF Marked
    <3>4. \A c \in Config : <<s, f, c>> \in taken => FALSE
      BY <1>2, <2>3 DEF Given, Taken
    <3>. QED
      BY <2>1, <2>2, <2>3, <3>2, <3>3, <3>4 DEF Chargeable
  <2>4. CASE ~(s \in N /\ f = e)
    <3>1. delivery'[s][f] = delivery[s][f]
      BY <1>2, <2>4 DEF Given, Chose
    <3>2. Marked(s, f)'
      BY <1>1, <2>1, <2>2, <2>4, <3>1 DEF Marked
    <3>3. ASSUME NEW c \in Config PROVE Chargeable(s, f, c)'
      <4>1. Chargeable(s, f, c)
        BY DEF MarkInv
      <4>. QED
        BY <1>1, <2>1, <2>4, <4>1 DEF Chargeable
    <3>. QED
      BY <3>2, <3>3
  <2>. QED
    BY <2>3, <2>4
<1>3. ASSUME taken' = taken, NEW s \in Sub, NEW f \in Event
      PROVE  /\ \A c \in Config : Chargeable(s, f, c)'
             /\ Taken(s, f)' <=> Taken(s, f)
  BY <1>1, <1>3 DEF MarkInv, Chargeable, Taken
<1>4. ASSUME NEW t \in Sub, NEW e \in Event, Forgets(t, e), NEW s \in Sub, NEW f \in Event
      PROVE  Marked(s, f)'
  <2>1. Marked(s, f) /\ Taken(s, f)' <=> Taken(s, f)
    BY <1>3, <1>4 DEF MarkInv, Forgets
  <2>2. CASE s = t /\ f = e
    <3>1. Spent(f) /\ delivery'[s][f].state = "absent"
      BY <1>4, <2>2 DEF Forgets, Removed, Reclaimable, Spent, NoDelivery
    <3>. QED
      BY <1>1, <2>1, <3>1, <1>3, <1>4 DEF Marked, MarkInv, Forgets
  <2>3. CASE ~(s = t /\ f = e)
    <3>1. delivery'[s][f] = delivery[s][f]
      BY <1>4, <2>3 DEF Forgets, Removed, Written
    <3>. QED
      BY <1>1, <1>3, <1>4, <3>1 DEF Marked, MarkInv, Forgets
  <2>. QED
    BY <2>2, <2>3
<1>5. ASSUME taken' = taken, Unmoved, NEW s \in Sub, NEW f \in Event PROVE Marked(s, f)'
  BY <1>1, <1>3, <1>5 DEF Marked, Unmoved, MarkInv
<1>6. \A s \in Sub, f \in Event : Marked(s, f)' /\ \A c \in Config : Chargeable(s, f, c)'
  BY <1>0, <1>2, <1>3, <1>4, <1>5, SelectionCases
<1>. QED
  BY <1>0, <1>6 DEF MarkInv

LEMMA MarkInit ==
  ASSUME Init
  PROVE  MarkInv
<1>1. OrderInv
  BY OrderInit
<1>. QED
  BY <1>1 DEF Init, MarkInv, Marked, Chargeable, Taken, NoDelivery

\* Every delivery that is there, and every event that is forgotten, is accounted for by the
\* selections made (SubscriptionStore.select, catchUp and compact).
THEOREM MarkHolds == Spec => []MarkInv
<1>. QED
  BY MarkInit, MarkNext, PTL DEF Spec

\* Every variable keeps its type; a delivery has an envelope exactly from its preparation on.
THEOREM TypeCorrect == Spec => []TypeOK
<1>1. MarkInv => TypeOK
  BY DEF MarkInv, OrderInv, TypeInv
<1>. QED
  BY <1>1, MarkHolds, PTL

\* The selections of an event.
SelectedNow ==
  \A s \in Sub, e \in Event :
    delivery[s][e].state = "absent" /\ delivery'[s][e].state # "absent" =>
      /\ \A c \in Config : <<s, e, c>> \notin taken
      /\ delivery'[s][e].config \in Once => \A f \in Event, c \in Once : <<s, f, c>> \notin taken
LEMMA SelectionsAreNew ==
  ASSUME MarkInv, [Next]_vars
  PROVE  SelectedNow
<1>0. OrderInv /\ Kinds
  BY StepKinds DEF MarkInv, OrderInv
<1>1. ASSUME NEW N \in SUBSET Sub, NEW e \in Event, Given(N, e),
             NEW s \in Sub, NEW f \in Event, delivery[s][f].state = "absent",
             delivery'[s][f].state # "absent"
      PROVE  /\ \A c \in Config : <<s, f, c>> \notin taken
             /\ delivery'[s][f].config \in Once =>
                  \A g \in Event, c \in Once : <<s, g, c>> \notin taken
  <2>1. s \in N /\ f = e
    BY <1>1 DEF Given, Chose
  <2>2. \A c \in Config : <<s, f, c>> \notin taken
    BY <1>1, <2>1 DEF Given, Taken
  <2>3. ~Over(reg[s])
    BY <1>1, <2>1 DEF Given, Chose, Eligible, Over
  <2>4. \A g \in Event, c \in Once : <<s, g, c>> \notin taken
    BY <2>3, Limits DEF MarkInv, Chargeable
  <2>. QED
    BY <2>2, <2>4
<1>2. ASSUME NEW t \in Sub, NEW e \in Event, Forgets(t, e),
             NEW s \in Sub, NEW f \in Event, delivery[s][f].state = "absent"
      PROVE  delivery'[s][f].state = "absent"
  BY <1>2 DEF Forgets, Removed, Written, NoDelivery
<1>. QED
  BY <1>0, <1>1, <1>2, SelectionCases DEF SelectedNow, Unmoved

\* An event is selected for a registration at most once, whatever is redelivered, reconciled or
\* compacted in between (select, catchUp, compact), and a once registration is given one event.
THEOREM SelectionsHappenOnce == Spec => SelectedOnce
<1>1. MarkInv /\ [Next]_vars => [SelectedNow]_vars
  BY SelectionsAreNew
<1>. QED
  BY <1>1, MarkHolds, PTL DEF Spec, SelectedOnce, SelectedNow

-----------------------------------------------------------------------------
(***************************************************************************)
(* A page is the registrations that come first, and all of them if it is    *)
(* not full.                                                                *)
(***************************************************************************)
Before(S, s) == {t \in S : reg[t].ordinal < reg[s].ordinal}
LEMMA BeforeFinite ==
  ASSUME NEW S \in SUBSET Sub, NEW s
  PROVE  /\ IsFiniteSet(S) /\ IsFiniteSet(Before(S, s)) /\ IsFiniteSet(FirstOf(S))
         /\ Cardinality(Before(S, s)) \in Nat /\ Cardinality(FirstOf(S)) \in Nat
<1>1. IsFiniteSet(S)
  BY Limits, FS_Subset
<1>2. Before(S, s) \subseteq S /\ FirstOf(S) \subseteq S
  BY DEF Before, FirstOf
<1>3. IsFiniteSet(Before(S, s)) /\ IsFiniteSet(FirstOf(S))
  BY <1>1, <1>2, FS_Subset
<1>. QED
  BY <1>1, <1>3, FS_CardinalityType

LEMMA FirstIsDownward ==
  ASSUME TypeInv, NEW S \in SUBSET Sub, NEW t \in FirstOf(S), NEW s \in S,
         reg[s].ordinal <= reg[t].ordinal
  PROVE  s \in FirstOf(S)
<1>1. t \in S /\ Cardinality(Before(S, t)) < BatchSize
  BY DEF FirstOf, Before
<1>2. \A u \in S : reg[u].ordinal \in Nat
  BY RegRow, RegFields
<1>3. Before(S, s) \subseteq Before(S, t)
  BY <1>1, <1>2 DEF Before
<1>4. Cardinality(Before(S, s)) <= Cardinality(Before(S, t))
  BY <1>3, BeforeFinite, FS_Subset
<1>5. Cardinality(Before(S, s)) < BatchSize
  BY <1>1, <1>4, BeforeFinite, Limits
<1>. QED
  BY <1>5 DEF FirstOf, Before

LEMMA ShortPageIsAll ==
  ASSUME TypeInv, NEW S \in SUBSET Sub, Cardinality(FirstOf(S)) < BatchSize
  PROVE  FirstOf(S) = S
<1>. DEFINE R == S \ FirstOf(S)  O == {reg[s].ordinal : s \in R}
<1>1. FirstOf(S) \subseteq S
  BY DEF FirstOf
<1>2. SUFFICES ASSUME R # {} PROVE FALSE
  BY <1>1
<1>3. \A u \in S : reg[u].ordinal \in Nat
  BY RegRow, RegFields
<1>4. O \subseteq Nat /\ O # {}
  BY <1>2, <1>3
<1>. HIDE DEF O
<1>5. PICK o \in O : \A p \in O : o <= p
  BY <1>4, LeastNat
<1>6. PICK s \in R : o = reg[s].ordinal
  BY DEF O
<1>7. \A u \in R : reg[s].ordinal <= reg[u].ordinal
  BY <1>5, <1>6 DEF O
<1>8. Before(S, s) \subseteq FirstOf(S)
  BY <1>3, <1>6, <1>7 DEF Before
<1>9. Cardinality(Before(S, s)) <= Cardinality(FirstOf(S))
  BY <1>8, BeforeFinite, FS_Subset
<1>10. Cardinality(Before(S, s)) < BatchSize
  BY <1>9, BeforeFinite, Limits
<1>11. s \in FirstOf(S)
  BY <1>6, <1>10 DEF FirstOf, Before
<1>. QED
  BY <1>6, <1>11

-----------------------------------------------------------------------------
(***************************************************************************)
(* Routing leaves nobody out.  What the cursor of an event has passed was   *)
(* given the event, and a page lists whoever it will move the cursor over.   *)
(***************************************************************************)
Wanted(s, e) == Eligible(s) /\ e \in Wants[reg[s].config]
Behind(s, e) ==
  \/ reg[s].ordinal <= event[e].cursor
  \/ event[e].routed /\ reg[s].ordinal <= event[e].cutoff
Passed(s, e) == Wanted(s, e) /\ Behind(s, e) => Taken(s, e)
Waits(s, e, c) ==
  /\ Wanted(s, e) /\ c.cursor < reg[s].ordinal
  /\ reg[s].ordinal <= c.last \/ (c.complete /\ reg[s].ordinal <= event[e].cutoff)
Pending(e, c) == event[e].state = "live" /\ ~event[e].routed /\ event[e].cursor = c.cursor
Promises(s, e, c) ==
  Pending(e, c) /\ Waits(s, e, c) => <<s, reg[s].revision>> \in c.page
Promised(d, s, e) == call[d].at = "select" /\ call[d].event = e => Promises(s, e, call[d])
RouteInv ==
  /\ MarkInv
  /\ \A s \in Sub, e \in Event : Passed(s, e)
  /\ \A d \in Driver, s \in Sub, e \in Event : Promised(d, s, e)

LEMMA PagePromises ==
  ASSUME OrderInv, NEW d \in Driver, NEW e \in Event, Pages(d, e), lapsed' = lapsed, NEW s \in Sub
  PROVE  Promises(s, e, call[d])'
<1>. DEFINE S == Candidates(e)  c == call'[d]
<1>0. TypeInv /\ Sequenced(e) /\ Routes(d, e) /\ reg' = reg /\ event' = event
  BY DEF OrderInv, Pages
<1>1. SUFFICES ASSUME Wanted(s, e), event[e].cursor < reg[s].ordinal,
                      reg[s].ordinal <= c.last \/ (c.complete /\ reg[s].ordinal <= event[e].cutoff)
               PROVE  <<s, reg[s].revision>> \in c.page
  BY <1>0 DEF Promises, Pending, Waits, Wanted, Eligible, Routes
<1>2. /\ event[e].cursor \in Nat /\ event[e].cutoff \in Nat
      /\ \A t \in Sub : reg[t].ordinal \in Nat
  <2>1. event[e] \in Retained /\ \A t \in Sub : reg[t] \in Registration
    BY <1>0, TypeNow
  <2>. QED
    BY <2>1, RegFields, EventFields
<1>3. S \in SUBSET Sub /\ \A t \in Page(e) : t \in S /\ reg[t].ordinal <= event[e].cutoff
  BY DEF Candidates, Page, FirstOf
<1>4. ASSUME reg[s].ordinal <= event[e].cutoff PROVE s \in S
  BY <1>1, <1>4 DEF Candidates, Wanted, Eligible
<1>5. s \in Page(e)
  <2>1. CASE reg[s].ordinal <= c.last
    <3>1. c.last \in Ordinals(e, Page(e))
      BY <1>0 DEF Routes
    <3>2. PICK t \in Page(e) : c.last = reg[t].ordinal
      BY <1>1, <1>2, <2>1, <3>1 DEF Ordinals
    <3>3. s \in S
      BY <1>2, <1>3, <1>4, <2>1, <3>2
    <3>. QED
      BY <1>0, <1>3, <2>1, <3>2, <3>3, FirstIsDownward DEF Page
  <2>2. CASE c.complete /\ reg[s].ordinal <= event[e].cutoff
    <3>1. Cardinality(FirstOf(S)) < BatchSize
      BY <1>0, <2>2 DEF Routes, Page
    <3>. QED
      BY <1>0, <1>3, <1>4, <2>2, <3>1, ShortPageIsAll DEF Page
  <2>. QED
    BY <1>1, <2>1, <2>2
<1>6. s \in {t \in Page(e) : Eligible(t)}
  BY <1>1, <1>5 DEF Wanted
<1>7. <<s, reg[s].revision>> \in Listed(Page(e))
  BY <1>6 DEF Listed
<1>. QED
  BY <1>0, <1>7 DEF Routes

\* What becomes of an event, for its routing.
EventMoves(e) ==
  \/ Accepted(e)
  \/ event'[e] = NoEvent
  \/ /\ event'[e].cutoff = event[e].cutoff /\ event'[e].cursor = event[e].cursor
     /\ event'[e].routed = event[e].routed
  \/ \E d \in Driver : Picks(d) /\ call[d].event = e
LEMMA EventsMove ==
  ASSUME TypeInv, Kinds, NEW e \in Event
  PROVE  EventMoves(e)
<1>1. ASSUME event'[e] = event[e] PROVE EventMoves(e)
  BY <1>1 DEF EventMoves
<1>2. ASSUME NEW f \in Event, Accepts(f) PROVE EventMoves(e)
  BY <1>1, <1>2 DEF Accepts, Accepted, EventTyped, EventMoves
<1>3. ASSUME NEW f \in Event, Retires(f) PROVE EventMoves(e)
  <2>1. CASE f # e
    BY <1>1, <1>3, <2>1 DEF Retires, Reclaimed, EventTyped
  <2>2. CASE f = e
    <3>1. event[e] \in Retained /\ event'[e] \in Retained
      BY <1>3, TypeNow DEF Retires, Reclaimed, EventTyped
    <3>2. event[e].routed \in BOOLEAN /\ event'[e].routed \in BOOLEAN
      BY <3>1, EventFields
    <3>. QED
      BY <1>3, <2>2, <3>2 DEF Retires, Reclaimed, EventMoves
  <2>. QED
    BY <2>1, <2>2
<1>4. ASSUME NEW d \in Driver, Picks(d) PROVE EventMoves(e)
  BY <1>1, <1>4 DEF Picks, Selects, EventTyped, EventMoves
<1>. QED
  BY <1>1, <1>2, <1>3, <1>4
     DEF Kinds, Manages, Ages, Vouches, Abandons, Asks, Pages, Learns, Forgets, Quiet

LEMMA LapsedGrows ==
  ASSUME Kinds
  PROVE  lapsed \subseteq lapsed'
BY DEF Kinds, Manages, Accepts, Retires, Ages, Picks, Vouches, Abandons, Asks, Pages, Learns,
       Forgets, Quiet

\* Whoever wants the event has not changed, or was put behind everything accepted before.
LEMMA WantedBefore ==
  ASSUME OrderInv, Kinds, NEW s \in Sub, NEW e \in Event, Wanted(s, e)'
  PROVE  \/ /\ Wanted(s, e) /\ reg'[s].ordinal = reg[s].ordinal
            /\ reg'[s].revision = reg[s].revision
         \/ reg'[s].ordinal = seq + 1
<1>1. Ordered(s) /\ lapsed \subseteq lapsed'
  BY RegistrationsAreOrdered, LapsedGrows DEF OrderInv
<1>. QED
  BY <1>1 DEF Ordered, Wanted, Eligible

LEMMA TakenGrows ==
  ASSUME MarkInv, Kinds, NEW s \in Sub, NEW e \in Event, Taken(s, e)
  PROVE  Taken(s, e)'
<1>1. ASSUME NEW N \in SUBSET Sub, NEW f \in Event, Given(N, f) PROVE Taken(s, e)'
  BY <1>1, GivenTaken
<1>2. ASSUME taken' = taken PROVE Taken(s, e)'
  BY <1>2 DEF Taken
<1>. QED
  BY <1>1, <1>2, SelectionCases

\* Whoever a page lists is given the event, or was.
LEMMA ListedIsTaken ==
  ASSUME MarkInv, NEW d \in Driver, Picks(d), NEW s \in Sub, Eligible(s),
         <<s, reg[s].revision>> \in call[d].page, NEW e \in Event, e = call[d].event
  PROVE  Taken(s, e)'
<1>1. Given(Fresh(d), e) /\ Kinds
  BY PicksGive DEF Picks, Kinds
<1>2. CASE delivery[s][e].state = "absent"
  <2>1. s \in Fresh(d)
    BY <1>2 DEF Fresh
  <2>. QED
    BY <1>1, <2>1, GivenTaken
<1>3. CASE delivery[s][e].state # "absent"
  <2>1. Taken(s, e)
    BY <1>1, <1>3 DEF MarkInv, Marked
  <2>. QED
    BY <1>1, <2>1, TakenGrows
<1>. QED
  BY <1>2, <1>3

LEMMA PassedNext ==
  ASSUME RouteInv, Kinds, OrderInv', NEW s \in Sub, NEW e \in Event
  PROVE  Passed(s, e)'
<1>0. /\ MarkInv /\ OrderInv /\ TypeInv /\ TypeInv' /\ EventMoves(e)
      /\ Sequenced(e) /\ Sequenced(e)' /\ Sequence(s) /\ Sequence(s)'
  BY EventsMove DEF RouteInv, MarkInv, OrderInv
<1>1. /\ event[e].cursor \in Nat /\ event[e].cutoff \in Nat /\ reg[s].ordinal \in Nat
      /\ event'[e].cursor \in Nat /\ event'[e].cutoff \in Nat /\ reg'[s].ordinal \in Nat
      /\ seq \in Nat
  <2>1. /\ event[e] \in Retained /\ reg[s] \in Registration /\ event'[e] \in Retained
        /\ reg'[s] \in Registration
    BY <1>0 DEF TypeInv, TypeOK
  <2>2. seq \in Nat
    BY <1>0, Limits DEF TypeInv, TypeOK, Position
  <2>. QED
    BY <2>1, <2>2, RegFields, EventFields
<1>2. SUFFICES ASSUME Wanted(s, e)', Behind(s, e)' PROVE Taken(s, e)'
  BY DEF Passed
<1>3. reg'[s].ordinal >= 1
  BY <1>0, <1>2 DEF Wanted, Eligible, Sequence
<1>4. ~Accepted(e) /\ event'[e] # NoEvent
  BY <1>1, <1>2, <1>3 DEF Behind, Accepted, NoEvent
<1>5. event'[e].cutoff = event[e].cutoff
  BY <1>0, <1>4 DEF EventMoves, Picks, Selects
<1>6. reg'[s].ordinal # seq + 1
  BY <1>0, <1>1, <1>2, <1>5 DEF Behind, Sequenced
<1>7. /\ Wanted(s, e) /\ reg'[s].ordinal = reg[s].ordinal
      /\ reg'[s].revision = reg[s].revision
  BY <1>0, <1>2, <1>6, WantedBefore
<1>8. CASE Behind(s, e)
  BY <1>0, <1>7, <1>8, TakenGrows DEF RouteInv, Passed
<1>9. CASE ~Behind(s, e)
  <2>1. PICK d \in Driver : Picks(d) /\ call[d].event = e
    BY <1>0, <1>2, <1>4, <1>7, <1>9 DEF EventMoves, Behind
  <2>2. /\ event[e].cursor = call[d].cursor /\ event'[e].cursor = call[d].last
        /\ event'[e].routed = call[d].complete /\ event[e].state = "live" /\ ~event[e].routed
    BY <2>1 DEF Picks, Selects, Chose
  <2>3. Waits(s, e, call[d]) /\ Pending(e, call[d])
    BY <1>1, <1>2, <1>5, <1>7, <1>9, <2>2 DEF Waits, Behind, Pending
  <2>4. <<s, reg[s].revision>> \in call[d].page
    BY <2>1, <2>3 DEF RouteInv, Promised, Promises, Picks
  <2>. QED
    BY <1>0, <1>7, <2>1, <2>4, ListedIsTaken DEF Wanted
<1>. QED
  BY <1>8, <1>9

LEMMA PromisesKept ==
  ASSUME RouteInv, Kinds, OrderInv', NEW d \in Driver, NEW s \in Sub, NEW e \in Event,
         call'[d] = call[d], call[d].at = "select", call[d].event = e
  PROVE  Promises(s, e, call[d])'
<1>. DEFINE c == call[d]
<1>0. /\ MarkInv /\ OrderInv /\ TypeInv /\ TypeInv' /\ EventMoves(e) /\ Steady(e)
      /\ Sequenced(e) /\ PageHolds(e, c) /\ Promises(s, e, c)
  BY EventsMove, EventsAreSteady DEF RouteInv, MarkInv, OrderInv, Paged, Promised
<1>1. /\ event[e].cursor \in Nat /\ event[e].cutoff \in Nat /\ reg[s].ordinal \in Nat
      /\ event'[e].cursor \in Nat /\ reg'[s].ordinal \in Nat /\ c.last \in Nat
      /\ seq \in Nat /\ c.cursor \in Nat
  <2>1. /\ event[e] \in Retained /\ reg[s] \in Registration /\ event'[e] \in Retained
        /\ reg'[s] \in Registration /\ c \in Call
    BY <1>0 DEF TypeInv, TypeOK
  <2>2. seq \in Nat
    BY <1>0, Limits DEF TypeInv, TypeOK, Position
  <2>. QED
    BY <2>1, <2>2, RegFields, EventFields, CallFields
<1>2. SUFFICES ASSUME Pending(e, c)', Waits(s, e, c)'
               PROVE  <<s, reg'[s].revision>> \in c.page
  BY DEF Promises
<1>3. ~Accepted(e) /\ event'[e] # NoEvent
  BY <1>0, <1>2 DEF PageHolds, Accepted, Pending, NoEvent
<1>4. /\ event[e].state = "live" /\ event'[e].cutoff = event[e].cutoff
      /\ event[e].cursor <= event'[e].cursor
  BY <1>0, <1>2, <1>3 DEF Steady, Pending
<1>5. ~event[e].routed
  BY <1>0, <1>2, <1>3 DEF EventMoves, Picks, Selects, Pending
<1>6. event[e].cursor = c.cursor
  BY <1>0, <1>1, <1>2, <1>4 DEF Pending, PageHolds
<1>7. reg'[s].ordinal # seq + 1
  BY <1>0, <1>1, <1>2, <1>4 DEF Waits, PageHolds, Sequenced
<1>8. /\ Wanted(s, e) /\ reg'[s].ordinal = reg[s].ordinal
      /\ reg'[s].revision = reg[s].revision
  BY <1>0, <1>2, <1>7, WantedBefore DEF Waits
<1>9. Waits(s, e, c)
  BY <1>2, <1>4, <1>8 DEF Waits
<1>. QED
  BY <1>0, <1>4, <1>5, <1>6, <1>8, <1>9 DEF Promises, Pending

LEMMA RouteNext ==
  ASSUME RouteInv, [Next]_vars
  PROVE  RouteInv'
<1>0. MarkInv /\ MarkInv' /\ OrderInv /\ OrderInv' /\ TypeInv /\ Kinds
  BY MarkNext, StepKinds DEF RouteInv, MarkInv, OrderInv
<1>1. \A s \in Sub, e \in Event : Passed(s, e)'
  BY <1>0, PassedNext
<1>2. ASSUME NEW d \in Driver, NEW s \in Sub, NEW e \in Event, call'[d].at = "select",
             call'[d].event = e
      PROVE  Promises(s, e, call[d])'
  <2>1. CASE call'[d] = call[d]
    BY <1>0, <1>2, <2>1, PromisesKept
  <2>2. CASE \E f \in Event : Pages(d, f)
    <3>1. Pages(d, e) /\ lapsed' = lapsed
      BY <1>2, <2>2 DEF Pages, Routes
    <3>. QED
      BY <1>0, <3>1, PagePromises
  <2>. QED
    BY <1>0, <1>2, <2>1, <2>2, CallsMove
<1>3. (\A d \in Driver, s \in Sub, e \in Event : Promised(d, s, e))'
  BY <1>2 DEF Promised
<1>. QED
  BY <1>0, <1>1, <1>3 DEF RouteInv

LEMMA RouteInit ==
  ASSUME Init
  PROVE  RouteInv
<1>1. MarkInv
  BY MarkInit
<1>. QED
  BY <1>1 DEF Init, RouteInv, Passed, Wanted, Eligible, Promised, NoReg, NoCall

\* Routing leaves nobody out: once it is over, every registration that was in force when the
\* event was accepted, and has not changed since, has its delivery (SubscriptionDriver.route).
THEOREM RoutingIsComplete == Spec => []RoutedToAll
<1>1. RouteInv => RoutedToAll
  BY DEF RouteInv, Passed, Wanted, Behind, RoutedToAll, Taken
<1>. QED
  BY <1>1, RouteInit, RouteNext, PTL DEF Spec

-----------------------------------------------------------------------------
(***************************************************************************)
(* What a step does to one delivery, and to what the destination has of it. *)
(***************************************************************************)
Asked(d, s, e) == call[d].at \in Handling /\ call[d].sub = s /\ call[d].event = e
Still(s, e) == delivery'[s][e] = delivery[s][e]
Bars(s, e) ==
  /\ delivery[s][e].state = "selected" /\ delivery'[s][e].state = "refused"
  /\ delivery'[s][e].phase = "preparation" /\ delivery'[s][e].envelope = None
  /\ ~delivery'[s][e].settled
Freezes(s, e) ==
  /\ delivery[s][e].state = "selected" /\ delivery'[s][e].state = "prepared"
  /\ delivery'[s][e].phase = None /\ ~delivery'[s][e].settled
Receives(s, e) ==
  /\ delivery[s][e].state = "prepared" /\ delivery'[s][e].state = "delivered"
  /\ delivery'[s][e].phase = delivery[s][e].phase
  /\ delivery'[s][e].envelope = delivery[s][e].envelope
  /\ delivery'[s][e].settled = delivery[s][e].settled
  /\ \E d \in Driver : Asked(d, s, e) /\ call[d].at = "complete"
Rejects(s, e) ==
  /\ delivery[s][e].state = "prepared" /\ delivery'[s][e].state = "refused"
  /\ delivery'[s][e].phase = "admission" /\ ~delivery'[s][e].settled
  /\ delivery'[s][e].envelope = delivery[s][e].envelope
Observes(s, e) ==
  /\ delivery[s][e].state = "delivered" /\ delivery'[s][e].state = "delivered"
  /\ delivery'[s][e].phase = delivery[s][e].phase /\ delivery'[s][e].settled
  /\ delivery'[s][e].envelope = delivery[s][e].envelope
  /\ dest[s][e].kind = "settled"
Vanishes(s, e) == Finished(delivery[s][e]) /\ delivery'[s][e] = NoDelivery
Appears(s, e) ==
  /\ delivery[s][e].state = "absent" /\ delivery'[s][e].state = "selected"
  /\ delivery'[s][e].phase = None /\ delivery'[s][e].envelope = None
  /\ ~delivery'[s][e].settled /\ ~Taken(s, e)
  /\ event[e].state = "live"
RowMoves(s, e) ==
  \/ Still(s, e)
  \/ delivery[s][e].state # "absent" /\ SameAnswer(s, e)
  \/ Bars(s, e) \/ Freezes(s, e) \/ Receives(s, e) \/ Rejects(s, e) \/ Observes(s, e)
  \/ Vanishes(s, e) \/ Appears(s, e)
Admission(s, e) ==
  /\ dest[s][e].kind = "none" /\ dest'[s][e].kind = "admitted"
  /\ \E d \in Driver : /\ Asked(d, s, e) /\ call[d].at = "send"
                       /\ dest'[s][e].envelope = call[d].envelope
Settlement(s, e) ==
  /\ dest[s][e].kind = "admitted" /\ dest'[s][e].kind = "settled"
  /\ dest'[s][e].envelope = dest[s][e].envelope
Moves(s, e) ==
  \/ dest'[s][e] = dest[s][e] /\ RowMoves(s, e)
  \/ Still(s, e) /\ (Admission(s, e) \/ Settlement(s, e))

LEMMA OneRowMoves ==
  ASSUME NEW s \in Sub, NEW e \in Event, Written(s, e), RowMoves(s, e), dest' = dest
  PROVE  \A t \in Sub, f \in Event : Moves(t, f)
BY DEF Written, Moves, RowMoves, Still

LEMMA NoRowMoves ==
  ASSUME UNCHANGED <<delivery, dest>>
  PROVE  \A t \in Sub, f \in Event : Moves(t, f)
BY DEF Moves, RowMoves, Still

LEMMA GivenMoves ==
  ASSUME MarkInv, NEW N \in SUBSET Sub, NEW e \in Event, Given(N, e), dest' = dest
  PROVE  \A t \in Sub, f \in Event : Moves(t, f)
<1>1. ASSUME NEW t \in N PROVE Appears(t, e)
  <2>1. /\ t \in Sub /\ ~Taken(t, e) /\ reg[t].state = "active" /\ delivery[t][e].state = "absent"
        /\ delivery'[t][e] = Chosen(t) /\ event[e].state = "live" /\ Sound(reg[t])
    BY <1>1, RegRow DEF Given, Chose, Eligible, MarkInv, OrderInv
  <2>2. reg[t].config \in Config
    BY <2>1 DEF Sound
  <2>. QED
    BY <2>1, <2>2, ChosenEffect DEF Appears
<1>2. ASSUME NEW t \in Sub, NEW f \in Event, ~(t \in N /\ f = e) PROVE Still(t, f)
  BY <1>2 DEF Given, Chose, Still
<1>. QED
  BY <1>1, <1>2 DEF Moves, RowMoves

LEMMA ProcessingMoves ==
  ASSUME MarkInv, NEW d \in Driver, Prepare(d) \/ Freeze(d) \/ Send(d) \/ Complete(d) \/ Refuse(d)
                                      \/ Failed(d) \/ Retry(d) \/ Observe(d)
  PROVE  \A t \in Sub, f \in Event : Moves(t, f)
<1>0. TypeInv
  BY DEF MarkInv, OrderInv
<1>1. call[d].at \in Handling
  BY DEF Prepare, Freeze, Send, Complete, Refuse, Failed, Retry, Observe, Handling
<1>2. PICK s \in Sub, e \in Event : s = call[d].sub /\ e = call[d].event
  BY <1>0, <1>1, Subject
<1>3. Asked(d, s, e) /\ delivery[s][e] \in Delivery
  BY <1>0, <1>1, <1>2, Rows DEF Asked
<1>4. CASE Prepare(d)
  BY <1>0, <1>4, PrepareEffect, NoRowMoves DEF store
<1>5. CASE Freeze(d)
  <2>1. dest' = dest
    BY <1>0, <1>5, FreezeEffect
  <2>2. CASE Froze(d, s, e)
    <3>1. Bars(s, e) \/ Freezes(s, e)
      BY <2>2 DEF Froze, Bars, Freezes
    <3>2. Written(s, e) /\ RowMoves(s, e)
      BY <2>2, <3>1 DEF Froze, Rewritten, RowMoves
    <3>. QED
      BY <2>1, <3>2, OneRowMoves
  <2>. QED
    BY <1>0, <1>2, <1>5, <2>1, <2>2, FreezeEffect, NoRowMoves
<1>6. CASE Send(d)
  <2>1. call[d].at = "send" /\ delivery' = delivery
    BY <1>0, <1>6, SendEffect DEF store
  <2>2. CASE UNCHANGED dest
    BY <2>1, <2>2, NoRowMoves
  <2>3. CASE Admitted(s, e, call[d].envelope)
    <3>1. dest'[s][e] = dest[s][e] \/ Admission(s, e)
      BY <1>3, <2>1, <2>3 DEF Admitted, Admission
    <3>2. \A t \in Sub, f \in Event : t # s \/ f # e => dest'[t][f] = dest[t][f]
      BY <2>3 DEF Admitted
    <3>. QED
      BY <2>1, <3>1, <3>2 DEF Moves, RowMoves, Still
  <2>. QED
    BY <1>0, <1>2, <1>6, <2>2, <2>3, SendEffect
<1>7. CASE Complete(d)
  <2>1. dest' = dest /\ call[d].at = "complete"
    BY <1>0, <1>7, CompleteEffect
  <2>2. CASE Receipted(s, e)
    <3>1. Receives(s, e)
      BY <1>3, <2>1, <2>2 DEF Receipted, Receives
    <3>2. Written(s, e) /\ RowMoves(s, e)
      BY <2>2, <3>1 DEF Receipted, Rewritten, RowMoves
    <3>. QED
      BY <2>1, <3>2, OneRowMoves
  <2>. QED
    BY <1>0, <1>2, <1>7, <2>1, <2>2, CompleteEffect, NoRowMoves
<1>8. CASE Refuse(d)
  <2>1. dest' = dest
    BY <1>0, <1>8, RefuseEffect
  <2>2. CASE Declined(s, e, call[d].phase)
    <3>1. ASSUME call[d].phase = "preparation" PROVE Bars(s, e)
      <4>1. delivery[s][e].state = "selected"
        BY <2>2, <3>1 DEF Declined, Refuses
      <4>2. delivery[s][e].envelope = None
        BY <1>3, <4>1, RowFields, Limits
      <4>. QED
        BY <2>2, <3>1, <4>1, <4>2 DEF Declined, Bars
    <3>2. ASSUME call[d].phase = "admission" PROVE Rejects(s, e)
      BY <2>2, <3>2, Limits DEF Declined, Rejects, Refuses
    <3>3. Written(s, e) /\ RowMoves(s, e)
      BY <2>2, <3>1, <3>2 DEF Declined, Rewritten, RowMoves
    <3>. QED
      BY <2>1, <3>3, OneRowMoves
  <2>. QED
    BY <1>0, <1>2, <1>8, <2>1, <2>2, RefuseEffect, NoRowMoves
<1>9. CASE Failed(d)
  BY <1>0, <1>9, FailedEffect, NoRowMoves DEF store
<1>10. CASE Retry(d)
  <2>1. dest' = dest
    BY <1>0, <1>10, RetryEffect
  <2>2. CASE Counted(d, s, e)
    <3>1. Written(s, e) /\ RowMoves(s, e)
      BY <2>2 DEF Counted, Rewritten, RowMoves
    <3>. QED
      BY <2>1, <3>1, OneRowMoves
  <2>. QED
    BY <1>0, <1>2, <1>10, <2>1, <2>2, RetryEffect, NoRowMoves
<1>11. CASE Observe(d)
  <2>1. dest' = dest
    BY <1>0, <1>11, ObserveEffect
  <2>2. CASE SettledBy(s, e)
    <3>1. Observes(s, e)
      BY <2>2 DEF SettledBy, Observes
    <3>2. Written(s, e) /\ RowMoves(s, e)
      BY <2>2, <3>1 DEF SettledBy, Rewritten, RowMoves
    <3>. QED
      BY <2>1, <3>2, OneRowMoves
  <2>. QED
    BY <1>0, <1>2, <1>11, <2>1, <2>2, ObserveEffect, NoRowMoves
<1>. QED
  BY <1>4, <1>5, <1>6, <1>7, <1>8, <1>9, <1>10, <1>11

LEMMA RoutingMoves ==
  ASSUME MarkInv, NEW d \in Driver,
         Select(d) \/ Seek(d) \/ GiveUp(d) \/ Find(d) \/ CatchUp(d) \/ Defer(d)
  PROVE  \A t \in Sub, f \in Event : Moves(t, f)
<1>0. TypeInv
  BY DEF MarkInv, OrderInv
<1>1. CASE Select(d)
  <2>1. CASE Selects(d)
    <3>1. Picks(d) /\ dest' = dest
      BY <1>0, <1>1, <2>1, SelectEffect DEF Picks, age
    <3>2. Given(Fresh(d), call[d].event) /\ call[d].event \in Event /\ Fresh(d) \in SUBSET Sub
      BY <3>1, PicksGive DEF Picks, Fresh
    <3>. QED
      BY <3>1, <3>2, GivenMoves
  <2>. QED
    BY <1>0, <1>1, <2>1, SelectEffect, NoRowMoves
<1>2. CASE CatchUp(d)
  <2>1. CASE CatchesUp(d) /\ Rested(d)
    <3>1. Vouches(d) /\ dest' = dest
      BY <1>0, <1>2, <2>1, CatchUpEffect DEF Vouches, age
    <3>2. /\ Given({call[d].sub}, call[d].event) /\ call[d].event \in Event
          /\ {call[d].sub} \in SUBSET Sub
      BY <3>1, VouchesGive DEF Vouches
    <3>. QED
      BY <3>1, <3>2, GivenMoves
  <2>. QED
    BY <1>0, <1>2, <2>1, CatchUpEffect, NoRowMoves
<1>3. CASE Seek(d) \/ GiveUp(d) \/ Find(d) \/ Defer(d)
  BY <1>3, NoRowMoves DEF Seek, GiveUp, Find, Defer, Recovery, store
<1>. QED
  BY <1>1, <1>2, <1>3

LEMMA WorldMoves ==
  ASSUME MarkInv, NEW s \in Sub, NEW e \in Event, Recover(s, e) \/ ReclaimDelivery(s,
         e) \/ Settle(s, e)
  PROVE  \A t \in Sub, f \in Event : Moves(t, f)
<1>0. TypeInv
  BY DEF MarkInv, OrderInv
<1>1. CASE Recover(s, e)
  <2>1. Written(s, e) /\ RowMoves(s, e) /\ dest' = dest
    BY <1>0, <1>1, RecoverEffect DEF Reset, Rewritten, RowMoves
  <2>. QED
    BY <2>1, OneRowMoves
<1>2. CASE ReclaimDelivery(s, e)
  <2>1. Written(s, e) /\ RowMoves(s, e) /\ dest' = dest
    BY <1>0, <1>2, ReclaimDeliveryEffect DEF Removed, RowMoves, Vanishes
  <2>. QED
    BY <2>1, OneRowMoves
<1>3. CASE Settle(s, e)
  <2>1. SettlesFor(s, e) /\ delivery' = delivery
    BY <1>0, <1>3, SettleEffect DEF store
  <2>. QED
    BY <2>1 DEF SettlesFor, Moves, RowMoves, Still, Settlement
<1>. QED
  BY <1>1, <1>2, <1>3

LEMMA DeliveriesMove ==
  ASSUME MarkInv, [Next]_vars
  PROVE  \A t \in Sub, f \in Event : Moves(t, f)
<1>0. TypeInv
  BY DEF MarkInv, OrderInv
<1>1. CASE UNCHANGED vars
  BY <1>1, NoRowMoves DEF vars, store
<1>2. CASE \E s \in Sub : Commands(s) \/ Cancel(s)
  BY <1>0, <1>2, CommandsEffect, CancelEffect, NoRowMoves
<1>3. CASE \E e \in Event : Accept(e) \/ ReclaimEvent(e) \/ Age(e)
  BY <1>3, NoRowMoves DEF Accept, ReclaimEvent, Age, store
<1>4. CASE \E d \in Driver : Interrupt(d)
  BY <1>4, NoRowMoves DEF Interrupt, store
<1>5. CASE \E d \in Driver, e \in Event : Route(d, e)
  BY <1>5, NoRowMoves DEF Route, store
<1>6. CASE \E d \in Driver, s \in Sub : List(d, s)
  BY <1>6, NoRowMoves DEF List, store
<1>7. CASE \E d \in Driver, s \in Sub, e \in Event : Begin(d, s, e)
  BY <1>7, NoRowMoves DEF Begin, store
<1>8. CASE \E c \in Config : Lapse(c)
  BY <1>8, NoRowMoves DEF Lapse, store
<1>9. CASE Next
  BY <1>2, <1>3, <1>4, <1>5, <1>6, <1>7, <1>8, <1>9, NextCases, ProcessingMoves, RoutingMoves,
     WorldMoves
<1>. QED
  BY <1>1, <1>9

-----------------------------------------------------------------------------
(* Compaction takes no evidence that is still needed. *)
Owes(r) == Open(r) \/ (r.state = "delivered" /\ ~r.settled)
EvidenceInv == MarkInv /\ EvidenceIsKept

LEMMA LiveStays ==
  ASSUME TypeInv, Kinds, NEW e \in Event, event[e].state = "live"
  PROVE  \/ event'[e].state = "live"
         \/ delivery' = delivery /\ \A s \in Sub : delivery[s][e].state = "absent"
<1>1. ASSUME NEW f \in Event, Accepts(f) PROVE event'[e].state = "live"
  <2>1. e # f
    BY <1>1 DEF Accepts, Accepted
  <2>. QED
    BY <1>1, <2>1 DEF Accepts, Accepted, EventTyped
<1>2. ASSUME NEW f \in Event, Retires(f)
      PROVE  \/ event'[e].state = "live"
             \/ delivery' = delivery /\ \A s \in Sub : delivery[s][e].state = "absent"
  BY <1>2 DEF Retires, Reclaimed, EventTyped
<1>3. ASSUME NEW d \in Driver, Picks(d) PROVE event'[e].state = "live"
  BY <1>3 DEF Picks, Selects, EventTyped
<1>. QED
  BY <1>1, <1>2, <1>3
     DEF Kinds, Manages, Ages, Vouches, Abandons, Asks, Pages, Learns, Forgets, Quiet

LEMMA EvidenceNext ==
  ASSUME EvidenceInv, [Next]_vars
  PROVE  EvidenceInv'
<1>0. MarkInv /\ MarkInv' /\ TypeInv /\ Kinds
  BY MarkNext, StepKinds DEF EvidenceInv, MarkInv, OrderInv
<1>1. ASSUME NEW s \in Sub, NEW e \in Event, Owes(delivery'[s][e])
      PROVE  event'[e].state = "live"
  <2>1. Moves(s, e)
    BY <1>0, DeliveriesMove
  <2>2. Owes(delivery[s][e]) \/ event[e].state = "live"
    BY <1>1, <2>1 DEF Moves, RowMoves, Still, SameAnswer, Bars, Freezes, Receives, Rejects,
       Observes, Vanishes, Appears, Owes, Open, NoDelivery
  <2>3. event[e].state = "live"
    BY <2>2 DEF EvidenceInv, EvidenceIsKept, Owes
  <2>. QED
    BY <1>0, <1>1, <2>3, LiveStays DEF Owes, Open
<1>2. EvidenceIsKept'
  BY <1>1 DEF EvidenceIsKept, Owes, Open
<1>. QED
  BY <1>0, <1>2 DEF EvidenceInv

\* The event of a delivery that is not decided, or whose outcome is not observed, is retained
\* (compact).
THEOREM EvidenceStays == Spec => []EvidenceIsKept
<1>1. Init => EvidenceInv
  BY MarkInit DEF Init, EvidenceInv, EvidenceIsKept, Open, NoDelivery
<1>2. EvidenceInv => EvidenceIsKept
  BY DEF EvidenceInv
<1>. QED
  BY <1>1, <1>2, EvidenceNext, PTL DEF Spec

-----------------------------------------------------------------------------
(***************************************************************************)
(* What a handling call carries is what it read, or what it was answered.    *)
(***************************************************************************)
Matches(c, r) == c.at = "send" /\ r.state # "absent" => r.envelope = c.envelope
\* A failure of the delivery of s and e.
Missing(s, e) ==
  misses'[s][e] = IF misses[s][e] < MaxAutomatic THEN misses[s][e] + 1 ELSE misses[s][e]
\* What a handling call may be after a step: what it was, what it has just read of a delivery,
\* or a call that went on with what it had read.
ReadsOf(x, s, e) ==
  /\ delivery[s][e].state # "absent" /\ dest' = dest
  /\ call'[x].sub = s /\ call'[x].event = e /\ call'[x].at # "complete"
  /\ call'[x].generation = delivery'[s][e].generation
  /\ call'[x].automatic = delivery'[s][e].automatic
  /\ Matches(call'[x], delivery'[s][e])
  /\ call'[x].at = "retry" => Missing(s, e) /\ UNCHANGED delivery
GoesOnWith(x, s, e) ==
  /\ Asked(x, s, e) /\ call'[x].sub = s /\ call'[x].event = e
  /\ call'[x].generation = call[x].generation /\ call'[x].automatic = call[x].automatic
  /\ Matches(call'[x], delivery'[s][e])
  /\ call'[x].at = "complete" => dest'[s][e].kind # "none"
  /\ call'[x].at = "retry" =>
       call[x].generation # delivery[s][e].generation \/ Missing(s, e)
Carries(x) ==
  \/ call'[x] = call[x]
  \/ \E s \in Sub, e \in Event : ReadsOf(x, s, e) \/ GoesOnWith(x, s, e)

LEMMA OnwardCarries ==
  ASSUME MarkInv, NEW d \in Driver, NEW s \in Sub, NEW e \in Event, Asked(d, s, e), Onward(d),
         Tallies(d), Matches(call'[d], delivery'[s][e]),
         call'[d].at = "complete" => dest'[s][e].kind # "none"
  PROVE  \A x \in Driver : Carries(x)
<1>1. call'[d].at = "retry" => call[d].generation # delivery[s][e].generation \/ Missing(s, e)
  BY DEF Tallies, Missed, Missing, Asked, Onward
<1>2. GoesOnWith(d, s, e)
  BY <1>1 DEF Onward, GoesOnWith, Asked
<1>. QED
  BY <1>2 DEF Onward, Turned, Carries

LEMMA RestedCarries ==
  ASSUME NEW d \in Driver, Rested(d)
  PROVE  \A x \in Driver : call'[x].at \in Handling => Carries(x)
BY DEF Rested, Turned, Carries, Handling

LEMMA ReadsCarries ==
  ASSUME NEW d \in Driver, NEW s \in Sub, NEW e \in Event, Reads(d, s, e),
         UNCHANGED <<delivery, dest>>, call'[d].at # "complete",
         call'[d].at = "send" => call'[d].envelope = delivery[s][e].envelope,
         call'[d].at = "retry" => Missing(s, e)
  PROVE  \A x \in Driver : Carries(x)
<1>1. ReadsOf(d, s, e)
  BY DEF Reads, ReadsOf, Matches
<1>. QED
  BY <1>1 DEF Reads, Turned, Carries

LEMMA ProcessingCarries ==
  ASSUME MarkInv, NEW d \in Driver, Prepare(d) \/ Freeze(d) \/ Send(d) \/ Complete(d) \/ Refuse(d)
                                      \/ Failed(d) \/ Retry(d) \/ Observe(d)
  PROVE  \A x \in Driver : call'[x].at \in Handling => Carries(x)
<1>0. TypeInv
  BY DEF MarkInv, OrderInv
<1>1. call[d].at \in Handling
  BY DEF Prepare, Freeze, Send, Complete, Refuse, Failed, Retry, Observe, Handling
<1>2. PICK s \in Sub, e \in Event : s = call[d].sub /\ e = call[d].event
  BY <1>0, <1>1, Subject
<1>3. Asked(d, s, e)
  BY <1>1, <1>2 DEF Asked
<1>4. ASSUME Onward(d), Tallies(d), call'[d].at \notin {"send", "complete"}
      PROVE  \A x \in Driver : Carries(x)
  BY <1>0, <1>3, <1>4, OnwardCarries DEF Matches
<1>5. CASE Prepare(d)
  BY <1>0, <1>4, <1>5, PrepareEffect
<1>6. CASE Freeze(d)
  <2>1. /\ dest' = dest /\ Tallies(d)
        /\ Rested(d) \/ Sends(d, s, e) \/ Misses(d) \/ Fails(d)
    BY <1>0, <1>2, <1>6, FreezeEffect
  <2>2. CASE Sends(d, s, e)
    <3>1. ReadsOf(d, s, e)
      BY <2>1, <2>2 DEF Sends, ReadsOf, Matches
    <3>. QED
      BY <2>2, <3>1 DEF Sends, Turned, Carries
  <2>3. CASE Misses(d) \/ Fails(d)
    BY <1>4, <2>1, <2>3 DEF Misses, Fails
  <2>. QED
    BY <2>1, <2>2, <2>3, RestedCarries
<1>7. CASE Send(d)
  <2>1. CASE call'[d].at \in {"failed", "retry", "refuse"}
    BY <1>0, <1>4, <1>7, <2>1, SendEffect
  <2>2. CASE Admitted(s, e, call[d].envelope) /\ call'[d].at = "complete"
    BY <1>0, <1>3, <1>7, <2>2, SendEffect, OnwardCarries DEF Admitted, Matches
  <2>. QED
    BY <1>0, <1>2, <1>7, <2>1, <2>2, SendEffect
<1>8. CASE Complete(d)
  BY <1>0, <1>4, <1>8, CompleteEffect, RestedCarries DEF Fails, Tallies
<1>9. CASE Refuse(d)
  BY <1>0, <1>4, <1>9, RefuseEffect, RestedCarries DEF Fails, Tallies
<1>10. CASE Failed(d)
  <2>1. CASE Reads(d, s, e) /\ call'[d].at = "retry"
    <3>1. Missing(s, e) /\ UNCHANGED <<delivery, dest>>
      BY <1>0, <1>2, <1>10, <2>1, FailedEffect DEF Tallies, Missed, Missing, Reads, store
    <3>. QED
      BY <2>1, <3>1, ReadsCarries
  <2>. QED
    BY <1>0, <1>2, <1>10, <2>1, FailedEffect, RestedCarries
<1>11. CASE Retry(d)
  BY <1>0, <1>11, RetryEffect, RestedCarries
<1>12. CASE Observe(d)
  BY <1>0, <1>12, ObserveEffect, RestedCarries
<1>. QED
  BY <1>5, <1>6, <1>7, <1>8, <1>9, <1>10, <1>11, <1>12

LEMMA CallsCarry ==
  ASSUME MarkInv, [Next]_vars
  PROVE  \A x \in Driver : call'[x].at \in Handling => Carries(x)
<1>0. TypeInv
  BY DEF MarkInv, OrderInv
<1>1. CASE UNCHANGED call
  BY <1>1 DEF Carries
<1>2. CASE \E s \in Sub : Commands(s) \/ Cancel(s)
  BY <1>0, <1>1, <1>2, CommandsEffect, CancelEffect
<1>3. CASE \E e \in Event : Accept(e) \/ ReclaimEvent(e) \/ Age(e)
  BY <1>1, <1>3 DEF Accept, ReclaimEvent, Age
<1>4. CASE \E d \in Driver : Interrupt(d)
  BY <1>0, <1>4, InterruptEffect, RestedCarries
<1>5. ASSUME NEW d \in Driver, NEW e \in Event, Route(d, e)
      PROVE  \A x \in Driver : call'[x].at \in Handling => Carries(x)
  BY <1>0, <1>5, RouteEffect DEF Routes, Turned, Carries, Handling
<1>6. ASSUME NEW d \in Driver, NEW s \in Sub, List(d, s)
      PROVE  \A x \in Driver : call'[x].at \in Handling => Carries(x)
  BY <1>0, <1>6, ListEffect DEF Turned, Carries, Handling
<1>7. ASSUME NEW d \in Driver, NEW s \in Sub, NEW e \in Event, Begin(d, s, e)
      PROVE  \A x \in Driver : Carries(x)
  BY <1>0, <1>7, BeginEffect, ReadsCarries DEF store
<1>8. CASE \E c \in Config : Lapse(c)
  BY <1>1, <1>8 DEF Lapse
<1>9. CASE \E s \in Sub, e \in Event : Recover(s, e) \/ ReclaimDelivery(s, e) \/ Settle(s, e)
  BY <1>1, <1>9 DEF Recover, ReclaimDelivery, Settle
<1>10. ASSUME NEW d \in Driver, Select(d) \/ GiveUp(d) \/ Defer(d)
       PROVE  \A x \in Driver : call'[x].at \in Handling => Carries(x)
  BY <1>0, <1>10, SelectEffect, RecoveryEffect, RestedCarries
<1>11. ASSUME NEW d \in Driver, Seek(d) \/ Find(d) \/ CatchUp(d)
       PROVE  \A x \in Driver : call'[x].at \in Handling => Carries(x)
  <2>1. Turned(d) /\ call'[d].at \in {"idle", "giveUp", "seek", "catchUp", "defer"}
    BY <1>0, <1>11, SeekEffect, FindEffect, CatchUpEffect DEF Seeks, Finds, Rested
  <2>. QED
    BY <2>1 DEF Turned, Carries, Handling
<1>12. CASE UNCHANGED vars
  BY <1>1, <1>12 DEF vars
<1>13. CASE Next
  BY <1>2, <1>3, <1>4, <1>5, <1>6, <1>7, <1>8, <1>9, <1>10, <1>11, <1>13, NextCases,
     ProcessingCarries
<1>. QED
  BY <1>12, <1>13

-----------------------------------------------------------------------------
(***************************************************************************)
(* What a delivery shows is what happened.  A call that sends carries the    *)
(* frozen envelope for as long as the delivery is there, and nothing new is  *)
(* selected under it.                                                        *)
(***************************************************************************)
Faithful(s, e) ==
  /\ delivery[s][e].phase = "preparation" => dest[s][e].kind = "none"
  /\ delivery[s][e].state = "delivered" => dest[s][e].kind # "none"
  /\ delivery[s][e].settled => dest[s][e].kind = "settled"
  /\ delivery[s][e].state # "absent" /\ dest[s][e].kind # "none" =>
       delivery[s][e].envelope = dest[s][e].envelope
Reached(s, e) ==
  dest[s][e].kind # "none" => dest[s][e].envelope \in Envelope /\ Taken(s, e)
Informed(d, s, e) ==
  Asked(d, s, e) =>
    /\ Taken(s, e) /\ Matches(call[d], delivery[s][e])
    /\ call[d].at = "complete" => dest[s][e].kind # "none"
TruthInv ==
  /\ MarkInv
  /\ \A s \in Sub, e \in Event : Faithful(s, e) /\ Reached(s, e)
  /\ \A d \in Driver, s \in Sub, e \in Event : Informed(d, s, e)

LEMMA TruthRow ==
  ASSUME TruthInv, NEW s \in Sub, NEW e \in Event
  PROVE  /\ delivery[s][e] \in Delivery /\ Faithful(s, e) /\ Reached(s, e)
         /\ delivery[s][e].state = "selected" => dest[s][e].kind = "none"
<1>1. delivery[s][e] \in Delivery /\ Faithful(s, e) /\ Reached(s, e)
  BY Rows DEF TruthInv, MarkInv, OrderInv
<1>. QED
  BY <1>1, RowFields, Limits DEF Faithful, Reached

LEMMA RowStaysTrue ==
  ASSUME TruthInv, NEW s \in Sub, NEW e \in Event, RowMoves(s, e), dest'[s][e] = dest[s][e]
  PROVE  Faithful(s, e)'
<1>0. /\ delivery[s][e] \in Delivery /\ Faithful(s, e) /\ Reached(s, e)
      /\ delivery[s][e].state = "selected" => dest[s][e].kind = "none"
  BY TruthRow
<1>1. CASE Still(s, e)
  BY <1>0, <1>1 DEF Still, Faithful
<1>2. CASE delivery[s][e].state # "absent" /\ SameAnswer(s, e)
  BY <1>0, <1>2 DEF SameAnswer, Faithful
<1>3. CASE Bars(s, e) \/ Freezes(s, e)
  BY <1>0, <1>3, Limits DEF Bars, Freezes, Faithful
<1>4. CASE Receives(s, e)
  <2>1. dest[s][e].kind # "none"
    BY <1>4 DEF Receives, TruthInv, Informed
  <2>. QED
    BY <1>0, <1>4, <2>1 DEF Receives, Faithful
<1>5. CASE Rejects(s, e)
  BY <1>0, <1>5 DEF Rejects, Faithful
<1>6. CASE Observes(s, e)
  BY <1>0, <1>6 DEF Observes, Faithful
<1>7. CASE Vanishes(s, e)
  BY <1>7, Limits DEF Vanishes, Faithful, NoDelivery
<1>8. CASE Appears(s, e)
  BY <1>0, <1>8, Limits DEF Appears, Faithful, Reached
<1>. QED
  BY <1>1, <1>2, <1>3, <1>4, <1>5, <1>6, <1>7, <1>8 DEF RowMoves

LEMMA AdmissionIsTrue ==
  ASSUME TruthInv, NEW s \in Sub, NEW e \in Event, Admission(s, e), Still(s, e)
  PROVE  Faithful(s, e)' /\ dest'[s][e].envelope \in Envelope /\ Taken(s, e)
<1>1. PICK d \in Driver : /\ Asked(d, s, e) /\ call[d].at = "send"
                          /\ dest'[s][e].envelope = call[d].envelope
  BY DEF Admission
<1>2. call[d].envelope \in Envelope
  BY <1>1, Calls DEF TruthInv, MarkInv, OrderInv, Bound
<1>3. Taken(s, e) /\ Matches(call[d], delivery[s][e])
  BY <1>1 DEF TruthInv, Informed
<1>4. delivery[s][e] \in Delivery /\ Faithful(s, e)
  BY TruthRow
<1>5. /\ delivery[s][e].phase # "preparation" /\ ~delivery[s][e].settled
      /\ delivery[s][e].state # "absent" => delivery[s][e].envelope = dest'[s][e].envelope
  BY <1>1, <1>2, <1>3, <1>4, RowFields, Limits DEF Matches, Faithful, Admission
<1>. QED
  BY <1>1, <1>2, <1>3, <1>5 DEF Faithful, Admission, Still

LEMMA TruthNext ==
  ASSUME TruthInv, [Next]_vars
  PROVE  TruthInv'
<1>0. MarkInv /\ MarkInv' /\ TypeInv /\ Kinds
  BY MarkNext, StepKinds DEF TruthInv, MarkInv, OrderInv
<1>1. \A s \in Sub, e \in Event : Moves(s, e) /\ (Taken(s, e) => Taken(s, e)')
  BY <1>0, DeliveriesMove, TakenGrows
<1>2. ASSUME NEW s \in Sub, NEW e \in Event
      PROVE  /\ Faithful(s, e)' /\ Reached(s, e)'
             /\ dest[s][e].kind # "none" => dest'[s][e].kind # "none"
  <2>0. Moves(s, e) /\ Reached(s, e) /\ Faithful(s, e)
    BY <1>1, TruthRow
  <2>1. CASE dest'[s][e] = dest[s][e] /\ RowMoves(s, e)
    BY <1>1, <2>0, <2>1, RowStaysTrue DEF Reached
  <2>2. CASE Still(s, e) /\ Admission(s, e)
    BY <1>1, <2>2, AdmissionIsTrue DEF Reached, Admission
  <2>3. CASE Still(s, e) /\ Settlement(s, e)
    BY <1>1, <2>0, <2>3 DEF Still, Settlement, Faithful, Reached
  <2>. QED
    BY <2>0, <2>1, <2>2, <2>3 DEF Moves
<1>3. ASSUME NEW d \in Driver, NEW s \in Sub, NEW e \in Event, Asked(d, s, e), call'[d] = call[d]
      PROVE  Matches(call'[d], delivery'[s][e])
  <2>1. Informed(d, s, e) /\ Moves(s, e) /\ Bound(call[d]) /\ delivery[s][e] \in Delivery
    BY <1>0, <1>1, Calls, TruthRow DEF TruthInv
  <2>2. SUFFICES ASSUME call[d].at = "send", delivery'[s][e].state # "absent"
                 PROVE  delivery'[s][e].envelope = call[d].envelope
    BY <1>3 DEF Matches
  <2>3. /\ Taken(s, e) /\ call[d].envelope \in Envelope
        /\ delivery[s][e].state # "absent" => delivery[s][e].envelope = call[d].envelope
    BY <1>3, <2>1, <2>2 DEF Informed, Bound, Matches
  <2>4. delivery[s][e].state # "selected"
    BY <2>1, <2>3, RowFields, Limits
  <2>. QED
    BY <2>1, <2>2, <2>3, <2>4 DEF Moves, RowMoves, Still, SameAnswer, Bars, Freezes, Receives,
       Rejects, Observes, Vanishes, Appears, NoDelivery
<1>4. ASSUME NEW d \in Driver, NEW s \in Sub, NEW e \in Event, Asked(d, s, e)'
      PROVE  /\ Taken(s, e)' /\ Matches(call'[d], delivery'[s][e])
             /\ call'[d].at = "complete" => dest'[s][e].kind # "none"
  <2>1. Carries(d) /\ call'[d].at \in Handling /\ call'[d].sub = s /\ call'[d].event = e
    BY <1>0, <1>4, CallsCarry DEF Asked
  <2>2. CASE call'[d] = call[d]
    <3>1. Asked(d, s, e) /\ Informed(d, s, e)
      BY <2>1, <2>2 DEF Asked, TruthInv
    <3>. QED
      BY <1>1, <1>2, <1>3, <2>2, <3>1 DEF Informed
  <2>3. CASE ReadsOf(d, s, e)
    <3>1. Taken(s, e)
      BY <2>3 DEF ReadsOf, TruthInv, MarkInv, Marked
    <3>. QED
      BY <1>1, <2>3, <3>1 DEF ReadsOf
  <2>4. CASE GoesOnWith(d, s, e)
    <3>1. Taken(s, e)
      BY <2>4 DEF GoesOnWith, TruthInv, Informed
    <3>. QED
      BY <1>1, <2>4, <3>1 DEF GoesOnWith
  <2>5. call'[d] = call[d] \/ ReadsOf(d, s, e) \/ GoesOnWith(d, s, e)
    BY <2>1 DEF Carries, ReadsOf, GoesOnWith
  <2>. QED
    BY <2>2, <2>3, <2>4, <2>5
<1>5. (\A d \in Driver, s \in Sub, e \in Event : Informed(d, s, e))'
  BY <1>4 DEF Informed
<1>6. (\A s \in Sub, e \in Event : Faithful(s, e) /\ Reached(s, e))'
  BY <1>2
<1>. QED
  BY <1>0, <1>5, <1>6 DEF TruthInv

LEMMA TruthInit ==
  ASSUME Init
  PROVE  TruthInv
<1>1. MarkInv
  BY MarkInit
<1>2. \A s \in Sub, e \in Event : Faithful(s, e) /\ Reached(s, e)
  BY Limits DEF Init, Faithful, Reached, NoDelivery, Untouched
<1>3. \A d \in Driver : call[d].at \notin Handling
  BY DEF Init, NoCall, Handling
<1>. QED
  BY <1>1, <1>2, <1>3 DEF TruthInv, Informed, Asked

\* What a call carries and what the destination has stay in line with the delivery they are
\* about, from its preparation until long after its compaction (processDelivery).
THEOREM TruthHolds == Spec => []TruthInv
<1>. QED
  BY TruthInit, TruthNext, PTL DEF Spec

\* What a delivery shows is what happened: a refusal before preparation is conclusive, a Receipt
\* is the destination's, and the destination has seen no envelope but the frozen one
\* (processDelivery, applySubscriptionDeliveryChange).
THEOREM DeliveriesAreTrue == Spec => []DeliveryIsTrue
<1>1. TruthInv => DeliveryIsTrue
  BY DEF TruthInv, Faithful, DeliveryIsTrue
<1>. QED
  BY <1>1, TruthHolds, PTL

-----------------------------------------------------------------------------
(***************************************************************************)
(* The allowance.  What is counted on a delivery is backed by failures since *)
(* its recovery, and so is what a call will count on it, if it read it since *)
(* then: a call that goes to count brings a failure of its own.              *)
(***************************************************************************)
Backed(n, m) == n <= m \/ m >= MaxAutomatic
\* What a call will have counted on the delivery it read.
Load(c) == IF c.at = "retry" THEN c.automatic + 1 ELSE c.automatic
\* What a step does to the counters of one delivery.
Unspent(s, e) ==
  /\ delivery'[s][e].parked => delivery[s][e].parked
  /\ delivery'[s][e].state # "absent" => delivery[s][e].state # "absent" /\ SameCount(s, e)
  /\ misses'[s][e] = misses[s][e] \/ Missing(s, e)
Starts(s, e) ==
  /\ delivery[s][e].state = "absent" /\ ~Taken(s, e) /\ misses'[s][e] = misses[s][e]
  /\ delivery'[s][e].automatic = 0 /\ ~delivery'[s][e].parked
Spends(s, e) ==
  /\ delivery[s][e].state # "absent" /\ misses'[s][e] = misses[s][e]
  /\ delivery'[s][e].generation = delivery[s][e].generation
  /\ \E d \in Driver : /\ Asked(d, s, e) /\ call[d].at = "retry"
                       /\ call[d].generation = delivery[s][e].generation
                       /\ delivery'[s][e].automatic = call[d].automatic + 1
                       /\ delivery'[s][e].parked <=> call[d].automatic + 1 >= MaxAutomatic
Renews(s, e) ==
  /\ delivery[s][e].state # "absent" /\ misses'[s][e] = 0
  /\ delivery'[s][e].generation = delivery[s][e].generation + 1
  /\ delivery'[s][e].automatic = 0 /\ ~delivery'[s][e].parked
CountMoves(s, e) == Unspent(s, e) \/ Starts(s, e) \/ Spends(s, e) \/ Renews(s, e)

LEMMA OneCountMoves ==
  ASSUME NEW s \in Sub, NEW e \in Event, Written(s, e), CountMoves(s, e),
         \A t \in Sub, f \in Event : t # s \/ f # e => misses'[t][f] = misses[t][f]
  PROVE  \A t \in Sub, f \in Event : CountMoves(t, f)
BY DEF Written, CountMoves, Unspent, SameCount

LEMMA NoCountMoves ==
  ASSUME UNCHANGED <<delivery, misses>>
  PROVE  \A t \in Sub, f \in Event : CountMoves(t, f)
BY DEF CountMoves, Unspent, SameCount

LEMMA TalliedMoves ==
  ASSUME TypeInv, NEW d \in Driver, call[d].at \in Handling, Tallies(d), UNCHANGED delivery
  PROVE  \A t \in Sub, f \in Event : CountMoves(t, f)
<1>1. call[d].sub \in Sub /\ call[d].event \in Event
  BY Subject
<1>2. \A t \in Sub, f \in Event : misses'[t][f] = misses[t][f] \/ Missing(t, f)
  BY <1>1 DEF Tallies, Missed, Missing
<1>. QED
  BY <1>2 DEF CountMoves, Unspent, SameCount

LEMMA SameCountMoves ==
  ASSUME NEW s \in Sub, NEW e \in Event, Rewritten(s, e), SameCount(s, e),
         misses' = misses \/ Missed(s, e)
  PROVE  \A t \in Sub, f \in Event : CountMoves(t, f)
<1>1. Written(s, e) /\ CountMoves(s, e)
  BY DEF Rewritten, CountMoves, Unspent, SameCount, Missed, Missing
<1>2. \A t \in Sub, f \in Event : t # s \/ f # e => misses'[t][f] = misses[t][f]
  BY DEF Missed
<1>. QED
  BY <1>1, <1>2, OneCountMoves

LEMMA GivenCounts ==
  ASSUME MarkInv, NEW N \in SUBSET Sub, NEW e \in Event, Given(N, e), misses' = misses
  PROVE  \A t \in Sub, f \in Event : CountMoves(t, f)
<1>1. ASSUME NEW t \in N PROVE Starts(t, e)
  <2>1. /\ t \in Sub /\ ~Taken(t, e) /\ reg[t].state = "active" /\ delivery[t][e].state = "absent"
        /\ delivery'[t][e] = Chosen(t) /\ Sound(reg[t])
    BY <1>1, RegRow DEF Given, Chose, Eligible, MarkInv, OrderInv
  <2>2. reg[t].config \in Config
    BY <2>1 DEF Sound
  <2>. QED
    BY <2>1, <2>2, ChosenEffect DEF Starts
<1>2. ASSUME NEW t \in Sub, NEW f \in Event, ~(t \in N /\ f = e) PROVE Unspent(t, f)
  BY <1>2 DEF Given, Chose, Unspent, SameCount
<1>. QED
  BY <1>1, <1>2 DEF CountMoves

LEMMA ProcessingCounts ==
  ASSUME MarkInv, NEW d \in Driver, Prepare(d) \/ Freeze(d) \/ Send(d) \/ Complete(d) \/ Refuse(d)
                                      \/ Failed(d) \/ Retry(d) \/ Observe(d)
  PROVE  \A t \in Sub, f \in Event : CountMoves(t, f)
<1>0. TypeInv
  BY DEF MarkInv, OrderInv
<1>1. call[d].at \in Handling
  BY DEF Prepare, Freeze, Send, Complete, Refuse, Failed, Retry, Observe, Handling
<1>2. PICK s \in Sub, e \in Event : s = call[d].sub /\ e = call[d].event
  BY <1>0, <1>1, Subject
<1>3. Asked(d, s, e)
  BY <1>1, <1>2 DEF Asked
<1>4. CASE Prepare(d) \/ Send(d) \/ Failed(d)
  BY <1>0, <1>1, <1>4, PrepareEffect, SendEffect, FailedEffect, TalliedMoves DEF store
<1>5. CASE Freeze(d)
  <2>1. Tallies(d) /\ (Froze(d, s, e) \/ UNCHANGED delivery)
    BY <1>0, <1>2, <1>5, FreezeEffect
  <2>2. CASE Froze(d, s, e)
    BY <1>2, <2>1, <2>2, SameCountMoves DEF Froze, Tallies
  <2>. QED
    BY <1>0, <1>1, <2>1, <2>2, TalliedMoves
<1>6. CASE Complete(d)
  BY <1>0, <1>2, <1>6, CompleteEffect, SameCountMoves, NoCountMoves DEF Receipted
<1>7. CASE Refuse(d)
  BY <1>0, <1>2, <1>7, RefuseEffect, SameCountMoves, NoCountMoves DEF Declined
<1>8. CASE Observe(d)
  BY <1>0, <1>2, <1>8, ObserveEffect, SameCountMoves, NoCountMoves DEF SettledBy
<1>9. CASE Retry(d)
  <2>1. misses' = misses /\ call[d].at = "retry"
    BY <1>0, <1>9, RetryEffect
  <2>2. CASE Counted(d, s, e) /\ SameCount(s, e)
    BY <2>1, <2>2, SameCountMoves DEF Counted
  <2>3. CASE Counted(d, s, e) /\ ~SameCount(s, e)
    <3>1. Written(s, e) /\ Spends(s, e)
      BY <1>3, <2>1, <2>3 DEF Counted, Rewritten, Spends
    <3>. QED
      BY <2>1, <3>1, OneCountMoves DEF CountMoves
  <2>4. CASE UNCHANGED delivery
    BY <2>1, <2>4, NoCountMoves
  <2>. QED
    BY <1>0, <1>2, <1>9, <2>2, <2>3, <2>4, RetryEffect
<1>. QED
  BY <1>4, <1>5, <1>6, <1>7, <1>8, <1>9

LEMMA RoutingCounts ==
  ASSUME MarkInv, NEW d \in Driver,
         Select(d) \/ Seek(d) \/ GiveUp(d) \/ Find(d) \/ CatchUp(d) \/ Defer(d)
  PROVE  \A t \in Sub, f \in Event : CountMoves(t, f)
<1>0. TypeInv
  BY DEF MarkInv, OrderInv
<1>1. CASE Select(d)
  <2>1. CASE Selects(d)
    <3>1. Picks(d) /\ misses' = misses
      BY <1>0, <1>1, <2>1, SelectEffect DEF Picks, age
    <3>2. Given(Fresh(d), call[d].event) /\ call[d].event \in Event /\ Fresh(d) \in SUBSET Sub
      BY <3>1, PicksGive DEF Picks, Fresh
    <3>. QED
      BY <3>1, <3>2, GivenCounts
  <2>. QED
    BY <1>0, <1>1, <2>1, SelectEffect, NoCountMoves
<1>2. CASE CatchUp(d)
  <2>1. CASE CatchesUp(d) /\ Rested(d)
    <3>1. Vouches(d) /\ misses' = misses
      BY <1>0, <1>2, <2>1, CatchUpEffect DEF Vouches, age
    <3>2. /\ Given({call[d].sub}, call[d].event) /\ call[d].event \in Event
          /\ {call[d].sub} \in SUBSET Sub
      BY <3>1, VouchesGive DEF Vouches
    <3>. QED
      BY <3>1, <3>2, GivenCounts
  <2>. QED
    BY <1>0, <1>2, <2>1, CatchUpEffect, NoCountMoves
<1>3. CASE Seek(d) \/ GiveUp(d) \/ Find(d) \/ Defer(d)
  BY <1>3, NoCountMoves DEF Seek, GiveUp, Find, Defer, Recovery, store
<1>. QED
  BY <1>1, <1>2, <1>3

LEMMA WorldCounts ==
  ASSUME MarkInv, NEW s \in Sub, NEW e \in Event, Recover(s, e) \/ ReclaimDelivery(s,
         e) \/ Settle(s, e)
  PROVE  \A t \in Sub, f \in Event : CountMoves(t, f)
<1>0. TypeInv
  BY DEF MarkInv, OrderInv
<1>1. CASE Recover(s, e)
  <2>1. Reset(s, e)
    BY <1>0, <1>1, RecoverEffect
  <2>2. Written(s, e) /\ Renews(s, e)
    BY <2>1 DEF Reset, Rewritten, Renews
  <2>. QED
    BY <2>1, <2>2, OneCountMoves DEF Reset, CountMoves
<1>2. CASE ReclaimDelivery(s, e)
  <2>1. Removed(s, e) /\ misses' = misses
    BY <1>0, <1>2, ReclaimDeliveryEffect
  <2>2. Written(s, e) /\ Unspent(s, e)
    BY <2>1 DEF Removed, Unspent, NoDelivery
  <2>. QED
    BY <2>1, <2>2, OneCountMoves DEF CountMoves
<1>3. CASE Settle(s, e)
  BY <1>3, NoCountMoves DEF Settle, store
<1>. QED
  BY <1>1, <1>2, <1>3

LEMMA CountsMove ==
  ASSUME MarkInv, [Next]_vars
  PROVE  \A t \in Sub, f \in Event : CountMoves(t, f)
<1>0. TypeInv
  BY DEF MarkInv, OrderInv
<1>1. CASE UNCHANGED vars
  BY <1>1, NoCountMoves DEF vars, store
<1>2. CASE \E s \in Sub : Commands(s) \/ Cancel(s)
  BY <1>0, <1>2, CommandsEffect, CancelEffect, NoCountMoves
<1>3. CASE \E e \in Event : Accept(e) \/ ReclaimEvent(e) \/ Age(e)
  BY <1>3, NoCountMoves DEF Accept, ReclaimEvent, Age, store
<1>4. CASE \E d \in Driver : Interrupt(d)
  BY <1>4, NoCountMoves DEF Interrupt, store
<1>5. CASE \E d \in Driver, e \in Event : Route(d, e)
  BY <1>5, NoCountMoves DEF Route, store
<1>6. CASE \E d \in Driver, s \in Sub : List(d, s)
  BY <1>6, NoCountMoves DEF List, store
<1>7. CASE \E d \in Driver, s \in Sub, e \in Event : Begin(d, s, e)
  BY <1>7, NoCountMoves DEF Begin, store
<1>8. CASE \E c \in Config : Lapse(c)
  BY <1>8, NoCountMoves DEF Lapse, store
<1>9. CASE Next
  BY <1>2, <1>3, <1>4, <1>5, <1>6, <1>7, <1>8, <1>9, NextCases, ProcessingCounts, RoutingCounts,
     WorldCounts
<1>. QED
  BY <1>1, <1>9

\* What the counters of a delivery, and of a call about it, are worth.
Afforded(s, e) ==
  /\ delivery[s][e].parked => misses[s][e] >= MaxAutomatic
  /\ delivery[s][e].state # "absent" => Backed(delivery[s][e].automatic, misses[s][e])
\* A call that read generation g, and will have counted n failures of it.
CountsFor(g, n, s, e) ==
  delivery[s][e].state # "absent" =>
    /\ g <= delivery[s][e].generation
    /\ g = delivery[s][e].generation => Backed(n, misses[s][e])
Counting(d, s, e) == Asked(d, s, e) => CountsFor(call[d].generation, Load(call[d]), s, e)
AllowInv ==
  /\ TruthInv
  /\ \A s \in Sub, e \in Event : Afforded(s, e)
  /\ \A d \in Driver, s \in Sub, e \in Event : Counting(d, s, e)

LEMMA CountTypes ==
  ASSUME TypeInv, NEW s \in Sub, NEW e \in Event
  PROVE  /\ misses[s][e] \in Nat /\ delivery[s][e].generation \in Nat
         /\ delivery[s][e].automatic \in Nat
BY Rows, RowFields

\* A further failure backs one more attempt.
LEMMA MissingBacks ==
  ASSUME TypeInv, NEW s \in Sub, NEW e \in Event, Missing(s, e), NEW n \in Nat,
         Backed(n, misses[s][e])
  PROVE  Backed(n + 1, misses'[s][e]) /\ Backed(n, misses'[s][e])
<1>1. misses[s][e] \in Nat
  BY CountTypes
<1>. QED
  BY <1>1, Limits DEF Missing, Backed

LEMMA StaysAfforded ==
  ASSUME AllowInv, NEW s \in Sub, NEW e \in Event, CountMoves(s, e)
  PROVE  Afforded(s, e)'
<1>0. TypeInv /\ Afforded(s, e)
  BY DEF AllowInv, TruthInv, MarkInv, OrderInv
<1>1. /\ misses[s][e] \in Nat /\ delivery[s][e].generation \in Nat
      /\ delivery[s][e].automatic \in Nat
  BY <1>0, CountTypes
<1>2. CASE Unspent(s, e)
  <2>1. ASSUME Missing(s, e), delivery[s][e].state # "absent"
        PROVE  Backed(delivery[s][e].automatic, misses'[s][e])
    BY <1>0, <1>1, <2>1, MissingBacks DEF Afforded
  <2>2. misses[s][e] >= MaxAutomatic => misses'[s][e] >= MaxAutomatic
    BY <1>1, <1>2, Limits DEF Unspent, Missing
  <2>. QED
    BY <1>0, <1>2, <2>1, <2>2 DEF Unspent, SameCount, Afforded
<1>3. CASE Starts(s, e)
  BY <1>1, <1>3, Limits DEF Starts, Afforded, Backed
<1>4. CASE Spends(s, e)
  <2>1. PICK d \in Driver : /\ Asked(d, s, e) /\ call[d].at = "retry"
                            /\ call[d].generation = delivery[s][e].generation
                            /\ delivery'[s][e].automatic = call[d].automatic + 1
                            /\ delivery'[s][e].parked <=> call[d].automatic + 1 >= MaxAutomatic
    BY <1>4 DEF Spends
  <2>2. call[d].automatic \in Nat
    BY <1>0, Calls, CallFields
  <2>3. Backed(call[d].automatic + 1, misses'[s][e])
    BY <1>4, <2>1 DEF AllowInv, Counting, CountsFor, Load, Spends
  <2>4. misses'[s][e] \in Nat
    BY <1>1, <1>4 DEF Spends
  <2>. QED
    BY <2>1, <2>2, <2>3, <2>4, Limits DEF Afforded, Backed
<1>5. CASE Renews(s, e)
  BY <1>1, <1>5, Limits DEF Renews, Afforded, Backed
<1>. QED
  BY <1>2, <1>3, <1>4, <1>5 DEF CountMoves

LEMMA StillCounts ==
  ASSUME TypeInv, NEW s \in Sub, NEW e \in Event, CountMoves(s, e), Taken(s, e),
         NEW g \in Nat, NEW n \in Nat, CountsFor(g, n, s, e)
  PROVE  /\ CountsFor(g, n, s, e)'
         /\ Missing(s, e) => CountsFor(g, n + 1, s, e)'
<1>1. /\ misses[s][e] \in Nat /\ delivery[s][e].generation \in Nat
  BY CountTypes
<1>2. CASE Unspent(s, e)
  BY <1>1, <1>2, MissingBacks DEF Unspent, SameCount, CountsFor
<1>3. CASE Spends(s, e)
  BY <1>1, <1>3, MissingBacks DEF Spends, CountsFor
<1>4. CASE Renews(s, e)
  BY <1>1, <1>4 DEF Renews, CountsFor
<1>. QED
  BY <1>2, <1>3, <1>4 DEF CountMoves, Starts

\* What was read of an older generation counts for nothing, and never will.
LEMMA StaleCounts ==
  ASSUME TypeInv, NEW s \in Sub, NEW e \in Event, CountMoves(s, e), Taken(s, e),
         NEW g \in Nat, NEW n, NEW m, CountsFor(g, n, s, e), g # delivery[s][e].generation
  PROVE  CountsFor(g, m, s, e)'
<1>1. delivery[s][e].generation \in Nat
  BY CountTypes
<1>. QED
  BY <1>1 DEF CountMoves, Unspent, SameCount, Starts, Spends, Renews, CountsFor

LEMMA AllowNext ==
  ASSUME AllowInv, [Next]_vars
  PROVE  AllowInv'
<1>0. TruthInv /\ TruthInv' /\ MarkInv /\ TypeInv /\ TypeInv'
  BY TruthNext DEF AllowInv, TruthInv, MarkInv, OrderInv
<1>1. \A s \in Sub, e \in Event : CountMoves(s, e)
  BY <1>0, CountsMove
<1>2. \A s \in Sub, e \in Event : Afforded(s, e)'
  BY <1>1, StaysAfforded
<1>3. ASSUME NEW d \in Driver, NEW s \in Sub, NEW e \in Event, Asked(d, s, e)'
      PROVE  CountsFor(call[d].generation, Load(call[d]), s, e)'
  <2>1. Carries(d) /\ call'[d].at \in Handling /\ call'[d].sub = s /\ call'[d].event = e
    BY <1>0, <1>3, CallsCarry DEF Asked
  <2>2. /\ call[d].generation \in Nat /\ call[d].automatic \in Nat
        /\ call'[d].generation \in Nat /\ call'[d].automatic \in Nat
    BY <1>0, Calls, CallFields DEF TypeInv, TypeOK, Call
  <2>3. ASSUME Asked(d, s, e)
        PROVE  /\ CountsFor(call[d].generation, Load(call[d]), s, e) /\ Taken(s, e)
               /\ CountsFor(call[d].generation, call[d].automatic, s, e)
    <3>1. CountsFor(call[d].generation, Load(call[d]), s, e) /\ Taken(s, e)
      BY <1>0, <2>3 DEF AllowInv, Counting, TruthInv, Informed
    <3>2. misses[s][e] \in Nat
      BY <1>0, CountTypes
    <3>. QED
      BY <2>2, <3>1, <3>2 DEF CountsFor, Load, Backed
  <2>4. CASE call'[d] = call[d]
    <3>1. Asked(d, s, e) /\ Load(call[d]) \in Nat
      BY <2>1, <2>2, <2>4 DEF Asked, Load
    <3>2. /\ CountsFor(call[d].generation, Load(call[d]), s, e)
          /\ Load(call'[d]) = Load(call[d])
      BY <2>3, <2>4, <3>1
    <3>. QED
      BY <1>0, <1>1, <2>2, <2>3, <2>4, <3>1, <3>2, StillCounts DEF CountsFor
  <2>5. CASE ReadsOf(d, s, e)
    <3>1. /\ Afforded(s, e) /\ Afforded(s, e)' /\ delivery[s][e].automatic \in Nat
          /\ delivery'[s][e].generation \in Nat
      BY <1>0, <1>2, <2>2, <2>5, CountTypes DEF AllowInv, ReadsOf
    <3>2. CASE call'[d].at = "retry"
      BY <1>0, <2>5, <3>1, <3>2, MissingBacks DEF ReadsOf, Afforded, CountsFor, Load
    <3>3. CASE call'[d].at # "retry"
      BY <2>5, <3>1, <3>3 DEF ReadsOf, Afforded, CountsFor, Load
    <3>. QED
      BY <3>2, <3>3
  <2>6. CASE GoesOnWith(d, s, e)
    <3>1. /\ CountsFor(call[d].generation, call[d].automatic, s, e) /\ Taken(s, e)
          /\ call'[d].generation = call[d].generation
          /\ call'[d].automatic = call[d].automatic
          /\ call'[d].at = "retry" =>
               call[d].generation # delivery[s][e].generation \/ Missing(s, e)
      BY <2>3, <2>6 DEF GoesOnWith
    <3>2. /\ CountsFor(call[d].generation, call[d].automatic, s, e)'
          /\ Missing(s, e) => CountsFor(call[d].generation, call[d].automatic + 1, s, e)'
      BY <1>0, <1>1, <2>2, <3>1, StillCounts
    <3>3. ASSUME call[d].generation # delivery[s][e].generation
          PROVE  CountsFor(call[d].generation, call[d].automatic + 1, s, e)'
      BY <1>0, <1>1, <2>2, <3>1, <3>3, StaleCounts
    <3>. QED
      BY <3>1, <3>2, <3>3 DEF CountsFor, Load
  <2>7. call'[d] = call[d] \/ ReadsOf(d, s, e) \/ GoesOnWith(d, s, e)
    BY <2>1 DEF Carries, ReadsOf, GoesOnWith
  <2>. QED
    BY <2>4, <2>5, <2>6, <2>7
<1>4. (\A d \in Driver, s \in Sub, e \in Event : Counting(d, s, e))'
  BY <1>3 DEF Counting
<1>. QED
  BY <1>0, <1>2, <1>4 DEF AllowInv

LEMMA AllowInit ==
  ASSUME Init
  PROVE  AllowInv
<1>1. TruthInv
  BY TruthInit
<1>2. \A s \in Sub, e \in Event : Afforded(s, e)
  BY Limits DEF Init, Afforded, NoDelivery
<1>3. \A d \in Driver : call[d].at \notin Handling
  BY DEF Init, NoCall, Handling
<1>. QED
  BY <1>1, <1>2, <1>3 DEF AllowInv, Counting, Asked

\* A delivery is parked only after MaxAutomatic attempts at it failed since its last recovery.
\* An attempt that read the delivery before the recovery is none of them, unless it leaves its
\* failure to the sweep, which takes it for one of the delivery that it finds
\* (applySubscriptionDeliveryChange, processDelivery, runDue).
THEOREM AllowancesAreWhole == Spec => []AllowanceIsWhole
<1>1. AllowInv => AllowanceIsWhole
  BY DEF AllowInv, Afforded, AllowanceIsWhole
<1>. QED
  BY <1>1, AllowInit, AllowNext, PTL DEF Spec

=============================================================================
