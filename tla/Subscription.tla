---------------------------- MODULE Subscription ----------------------------
(***************************************************************************)
(* Event subscriptions of one source partition: registrations, retained     *)
(* events, the routing of an event to the registrations it matches, the     *)
(* delivery of each selection to a Thread, source reconciliation, and the    *)
(* compaction of completed work.                                            *)
(*                                                                          *)
(* A store transaction is one step.  A call remembers what it read: the     *)
(* page of registrations it routes to, the registration it reconciles, or   *)
(* the delivery it processes.  Time appears through what it decides: the     *)
(* configurations that have expired and the events old enough to compact     *)
(* and too old to accept; each is permanent.  A completed delivery may be    *)
(* compacted as soon as its event may.  Events carry a trusted occurrence    *)
(* time.  An event matches what its matching key matches.  The limits on     *)
(* the number of registrations and deliveries of an owner are left out.      *)
(***************************************************************************)
EXTENDS Integers, FiniteSets

CONSTANTS
  Sub,           \* registrations
  Event,
  Config,        \* configurations a registration may have
  Wants,         \* Wants[c]: the events that match configuration c
  Once,          \* configurations of mode "once"
  Sourced,       \* configurations of a source that reconciles: they are of mode "once"
  Driver,        \* concurrent calls of the driver
  Sender,        \* bound of the model: the calls that may process a delivery
  Envelope,      \* outcomes a preparation may have
  None,
  BatchSize,     \* limits.batchSize
  MaxTombstones, \* retention.maxTombstones
  MaxAutomatic,  \* limits.maxAutomaticAttempts
  MaxSequence,   \* bound of the model: registrations, revisions and acceptances
  MaxRecovery,   \* bound of the model: recoveries per delivery
  MaxFault       \* bound of the model: transient failures and interruptions

ASSUME SubscriptionConstants ==
  /\ IsFiniteSet(Sub)
  /\ Wants \in [Config -> SUBSET Event]
  /\ Sourced \subseteq Once /\ Once \subseteq Config
  /\ \A c \in Sourced, b \in Config : Wants[b] \cap Wants[c] # {} => b \in Sourced
  /\ Sender \subseteq Driver
  /\ None \notin Envelope \cup Config \cup Event \cup {"preparation", "admission"}
  /\ {BatchSize, MaxAutomatic} \subseteq Nat \ {0}
  /\ {MaxTombstones, MaxSequence, MaxRecovery, MaxFault} \subseteq Nat

VARIABLES
  seq,       \* the sequence that orders registrations and acceptances
  reg,       \* registrations
  event,     \* retained events
  delivery,  \* delivery[s][e]
  call,      \* what each driver is doing and remembers
  dest,      \* what the destination has done with each delivery
  lapsed,    \* configurations whose expiry has passed
  aged,      \* events accepted longer ago than completed work is kept
  beyond,    \* events that occurred before the replay horizon
  faults,
  taken,     \* history: the selections made, with their configuration
  misses     \* history: failed attempts at each delivery since its last recovery

store == <<seq, reg, event, delivery>>
age == <<lapsed, aged, beyond>>
vars == <<store, call, dest, age, faults, taken, misses>>

Position == 0..MaxSequence
NoReg == [state |-> "absent", revision |-> 0, config |-> None, ordinal |-> 0, seeking |-> FALSE]
NoEvent == [state |-> "absent", cutoff |-> 0, cursor |-> 0, routed |-> FALSE]
NoDelivery ==
  [state |-> "absent", config |-> None, envelope |-> None, phase |-> None, settled |-> FALSE,
   generation |-> 0, attempts |-> 0, automatic |-> 0, parked |-> FALSE]
Untouched == [kind |-> "none", envelope |-> None]
NoCall ==
  [at |-> "idle", sub |-> None, event |-> None, page |-> {}, cursor |-> 0, last |-> 0,
   complete |-> FALSE, revision |-> 0, generation |-> 0, attempts |-> 0, automatic |-> 0,
   envelope |-> None, phase |-> None]

Registration ==
  [state : {"absent", "active", "paused", "cancelled", "consumed"}, revision : Nat,
   config : Config \cup {None}, ordinal : Position, seeking : BOOLEAN]
Retained ==
  [state : {"absent", "live", "tombstone"}, cutoff : Position, cursor : Position,
   routed : BOOLEAN]
\* An envelope is there from the preparation on, so a refusal shows how far the delivery came.
Delivery ==
  {r \in [state : {"absent", "selected", "prepared", "delivered", "refused"},
          config : Config \cup {None}, envelope : Envelope \cup {None},
          phase : {None, "preparation", "admission"}, settled : BOOLEAN,
          generation : 0..MaxRecovery, attempts : Nat, automatic : Nat, parked : BOOLEAN] :
     /\ r.envelope # None <=> r.state \in {"prepared", "delivered"} \/ r.phase = "admission"
     /\ r.phase # None <=> r.state = "refused"
     /\ r.settled => r.state = "delivered"}
Call ==
  [at : {"idle", "select", "list", "seek", "giveUp", "catchUp", "defer", "observe", "prepare",
         "freeze", "send", "complete", "refuse", "retry", "failed"},
   sub : Sub \cup {None}, event : Event \cup {None}, page : SUBSET (Sub \X Nat),
   cursor : Position, last : Position, complete : BOOLEAN, revision : Nat,
   generation : 0..MaxRecovery, attempts : Nat, automatic : Nat,
   envelope : Envelope \cup {None}, phase : {None, "preparation", "admission"}]

TypeOK ==
  /\ seq \in Position
  /\ reg \in [Sub -> Registration]
  /\ event \in [Event -> Retained]
  /\ delivery \in [Sub -> [Event -> Delivery]]
  /\ call \in [Driver -> Call]
  /\ dest \in [Sub -> [Event -> [kind : {"none", "admitted", "settled"},
                                 envelope : Envelope \cup {None}]]]
  /\ lapsed \subseteq Config /\ aged \subseteq Event /\ beyond \subseteq Event
  /\ faults \in 0..MaxFault
  /\ taken \subseteq Sub \X Event \X Config

Init ==
  /\ seq = 0 /\ reg = [s \in Sub |-> NoReg] /\ event = [e \in Event |-> NoEvent]
  /\ delivery = [s \in Sub |-> [e \in Event |-> NoDelivery]]
  /\ call = [d \in Driver |-> NoCall]
  /\ dest = [s \in Sub |-> [e \in Event |-> Untouched]]
  /\ lapsed = {} /\ aged = {} /\ beyond = {} /\ faults = 0 /\ taken = {}
  /\ misses = [s \in Sub |-> [e \in Event |-> 0]]

-----------------------------------------------------------------------------
(***************************************************************************)
(* Management.  A command that names another revision than the current one  *)
(* fails; every control revision moves the registration behind the events   *)
(* accepted before it.                                                      *)
(***************************************************************************)
Register(s, c) ==
  /\ reg[s].state = "absent" /\ seq < MaxSequence /\ c \notin lapsed
  /\ seq' = seq + 1
  /\ reg' = [reg EXCEPT ![s] = [state |-> "active", revision |-> 1, config |-> c,
                                ordinal |-> seq + 1, seeking |-> c \in Sourced]]
  /\ UNCHANGED <<event, delivery, call, dest, age, faults, taken, misses>>

\* applySubscriptionChange with the change r that the command makes of the record.
Revise(s, r) ==
  /\ reg[s].state \in {"active", "paused"} /\ seq < MaxSequence
  /\ seq' = seq + 1
  /\ reg' = [reg EXCEPT ![s] = [r EXCEPT !.revision = @ + 1, !.ordinal = seq + 1]]
  /\ UNCHANGED <<event, delivery, call, dest, age, faults, taken, misses>>

Update(s, c) ==
  /\ c \notin lapsed
  /\ Revise(s, [reg[s] EXCEPT !.config = c, !.seeking = c \in Sourced])
Pause(s) == reg[s].state = "active" /\ Revise(s, [reg[s] EXCEPT !.state = "paused"])
Resume(s) == reg[s].state = "paused" /\ Revise(s, [reg[s] EXCEPT !.state = "active"])
Rearm(s) == Revise(s, reg[s])

Cancel(s) ==
  /\ reg[s].state \notin {"absent", "cancelled"}
  /\ reg' = [reg EXCEPT ![s] = [reg[s] EXCEPT !.state = "cancelled", !.revision = @ + 1,
                                              !.seeking = FALSE]]
  /\ UNCHANGED <<seq, event, delivery, call, dest, age, faults, taken, misses>>

-----------------------------------------------------------------------------
(* Intake.  A retained identity is acknowledged again and changes nothing.   *)
\* A mutant: the replay horizon is not looked at.
AnyAge(e) == TRUE
WithinHorizon(e) == e \notin beyond
Retain(e) ==
  IF event[e].state # "absent" THEN UNCHANGED <<seq, event>>
  ELSE /\ WithinHorizon(e) /\ seq < MaxSequence
       /\ seq' = seq + 1
       /\ event' = [event EXCEPT ![e] = [NoEvent EXCEPT !.state = "live", !.cutoff = seq + 1]]
Accept(e) ==
  /\ event[e].state = "absent"
  /\ Retain(e)
  /\ UNCHANGED <<reg, delivery, call, dest, age, faults, taken, misses>>

-----------------------------------------------------------------------------
(* Routing: SubscriptionDriver.route and SubscriptionStore.select.           *)
Idle(d) == call' = [call EXCEPT ![d] = NoCall]
At(d, step) == call' = [call EXCEPT ![d].at = step]
Candidates(e) ==
  {s \in Sub : /\ reg[s].state # "absent" /\ e \in Wants[reg[s].config]
               /\ event[e].cursor < reg[s].ordinal /\ reg[s].ordinal <= event[e].cutoff}
FirstOf(S) ==
  {s \in S : Cardinality({t \in S : reg[t].ordinal < reg[s].ordinal}) < BatchSize}
Eligible(s) == reg[s].state = "active" /\ reg[s].config \notin lapsed

Route(d, e) ==
  /\ call[d].at = "idle" /\ event[e].state = "live" /\ ~event[e].routed
  /\ LET page == FirstOf(Candidates(e))
         ordinals == {reg[s].ordinal : s \in page} \cup {event[e].cursor}
     IN  call' = [call EXCEPT ![d] =
           [NoCall EXCEPT !.at = "select", !.event = e, !.cursor = event[e].cursor,
              !.last = CHOOSE o \in ordinals : \A p \in ordinals : p <= o,
              !.complete = Cardinality(page) < BatchSize,
              !.page = {<<s, reg[s].revision>> : s \in {t \in page : Eligible(t)}}]]
  /\ UNCHANGED <<store, dest, age, faults, taken, misses>>

\* A delivery that is new takes the configuration of its registration with it.
Chosen(s) == [NoDelivery EXCEPT !.state = "selected", !.config = reg[s].config]
Consume(r) ==
  IF r.config \in Once THEN [r EXCEPT !.state = "consumed", !.seeking = FALSE] ELSE r

\* A page holds if nothing it was read from has moved; what lost its eligibility is left out.
Current(page) == \A x \in page : reg[x[1]].revision = x[2]
\* A mutant: a batch that is full ends the routing.
EndsRouting(c) == TRUE
Ends(c) == c.complete
Select(d) ==
  LET c == call[d]  e == c.event
      holds == /\ event[e].state = "live" /\ event[e].cursor = c.cursor /\ ~event[e].routed
               /\ Current(c.page)
      new == {s \in Sub : /\ \E x \in c.page : x[1] = s
                          /\ Eligible(s) /\ delivery[s][e].state = "absent"}
  IN  /\ c.at = "select"
      /\ IF holds
         THEN /\ event' = [event EXCEPT ![e].cursor = c.last, ![e].routed = Ends(c)]
              /\ delivery' = [s \in Sub |->
                   IF s \in new THEN [delivery[s] EXCEPT ![e] = Chosen(s)] ELSE delivery[s]]
              /\ reg' = [s \in Sub |-> IF s \in new THEN Consume(reg[s]) ELSE reg[s]]
              /\ taken' = taken \cup {<<s, e, reg[s].config>> : s \in new}
         ELSE UNCHANGED <<event, delivery, reg, taken>>
      /\ Idle(d)
      /\ UNCHANGED <<seq, dest, age, faults, misses>>

-----------------------------------------------------------------------------
(* Reconciliation with the source: reconcile, SubscriptionStore.catchUp.     *)
\* The sweep lists the registrations to recover, and reads each again as it comes to it.
List(d, s) ==
  /\ call[d].at = "idle" /\ reg[s].state = "active" /\ reg[s].seeking
  /\ call' = [call EXCEPT ![d] = [NoCall EXCEPT !.at = "list", !.sub = s]]
  /\ UNCHANGED <<store, dest, age, faults, taken, misses>>

Seek(d) ==
  LET s == call[d].sub
      step == IF ~Eligible(s) THEN "giveUp"
              ELSE IF reg[s].config \in Sourced THEN "seek" ELSE "defer"
  IN  /\ call[d].at = "list"
      /\ call' = [call EXCEPT ![d].at = step, ![d].revision = reg[s].revision]
      /\ UNCHANGED <<store, dest, age, faults, taken, misses>>

\* deferRecovery: a later revision keeps its own recovery, and only a registration that may
\* still be active has one.  With a further attempt to come, at a time or when it is asked for.
Recovery(d, more) ==
  LET s == call[d].sub
  IN  /\ reg' = IF reg[s].revision = call[d].revision
                THEN [reg EXCEPT ![s].seeking = more /\ reg[s].state \in {"active", "paused"}]
                ELSE reg
      /\ Idle(d)
      /\ UNCHANGED <<seq, event, delivery, dest, age, faults, taken, misses>>
GiveUp(d) == call[d].at = "giveUp" /\ Recovery(d, FALSE)
Defer(d) == call[d].at = "defer" /\ Recovery(d, TRUE)

\* The source observed e, which is accepted like any other; or it observed nothing, or failed.
Find(d) ==
  /\ call[d].at = "seek"
  /\ \/ \E e \in Event :
          /\ Retain(e) /\ event'[e].state = "live"
          /\ call' = [call EXCEPT ![d].at = "catchUp", ![d].event = e]
     \/ At(d, "defer") /\ UNCHANGED <<seq, event>>
  /\ UNCHANGED <<reg, delivery, dest, age, faults, taken, misses>>

\* The cutoff does not matter here: the source vouches for the event.  What cannot be selected
\* is a failure, unless it was selected before.
CatchUp(d) ==
  LET s == call[d].sub  e == call[d].event
      holds == /\ event[e].state = "live" /\ reg[s].revision = call[d].revision
               /\ delivery[s][e].state = "absent" /\ Eligible(s)
               /\ reg[s].config \in Once /\ e \in Wants[reg[s].config]
  IN  /\ call[d].at = "catchUp"
      /\ IF holds
         THEN /\ delivery' = [delivery EXCEPT ![s][e] = Chosen(s)]
              /\ reg' = [reg EXCEPT ![s] = Consume(@)]
              /\ taken' = taken \cup {<<s, e, reg[s].config>>}
              /\ Idle(d)
         ELSE /\ At(d, "defer") \/ (delivery[s][e].state # "absent" /\ Idle(d))
              /\ UNCHANGED <<delivery, reg, taken>>
      /\ UNCHANGED <<seq, event, dest, age, faults, misses>>

-----------------------------------------------------------------------------
(* applySubscriptionDeliveryChange: the record a change makes of r, or r.    *)
Open(r) == r.state \in {"selected", "prepared"}
Recovered(r) == [r EXCEPT !.generation = @ + 1, !.automatic = 0, !.parked = FALSE]
\* A mutant: a failure counted on an older generation still counts.
RetriedLate(r, c) ==
  IF c.attempts + 1 <= r.attempts THEN r
  ELSE [r EXCEPT !.attempts = c.attempts + 1, !.automatic = c.automatic + 1,
                 !.parked = c.automatic + 1 >= MaxAutomatic]
Retried(r, c) ==
  IF c.generation # r.generation \/ c.attempts + 1 <= r.attempts THEN r
  ELSE [r EXCEPT !.attempts = c.attempts + 1, !.automatic = c.automatic + 1,
                 !.parked = c.automatic + 1 >= MaxAutomatic]
Barred(s, r) == reg[s].state = "cancelled" \/ r.config \in lapsed
Prepared(s, r, v) ==
  IF Barred(s, r) THEN [r EXCEPT !.state = "refused", !.phase = "preparation"]
  ELSE [r EXCEPT !.state = "prepared", !.envelope = v]

\* SubscriptionDriver.processDelivery, one step per transaction.
Row(d) == delivery[call[d].sub][call[d].event]
Store(d, r) == delivery' = [delivery EXCEPT ![call[d].sub][call[d].event] = r]
Reading(c, r) ==
  [c EXCEPT !.generation = r.generation, !.attempts = r.attempts, !.automatic = r.automatic]
Fault == faults < MaxFault /\ faults' = faults + 1
\* A failure of the delivery as it is since its last recovery.
Miss(d) ==
  misses' = [misses EXCEPT ![call[d].sub][call[d].event] =
               IF @ < MaxAutomatic THEN @ + 1 ELSE @]
\* An attempt has failed, and goes to count it: on what it read, of this or an older generation.
Fail(d) ==
  /\ At(d, "retry")
  /\ IF call[d].generation = Row(d).generation THEN Miss(d) ELSE UNCHANGED misses

Begin(d, s, e) ==
  LET r == delivery[s][e]
      step == IF r.state = "delivered" THEN "observe"
              ELSE IF r.state = "selected" THEN "prepare" ELSE "send"
  IN  /\ call[d].at = "idle"
      /\ \/ Open(r) /\ ~r.parked
         \/ r.state = "delivered" /\ ~r.settled
      /\ call' = [call EXCEPT ![d] =
           Reading([NoCall EXCEPT !.at = step, !.sub = s, !.event = e,
                                  !.envelope = r.envelope], r)]
      /\ UNCHANGED <<store, dest, age, faults, taken, misses>>

\* The delivery's references are read again, then the authorizer and the binding asked.  An
\* event that is gone is a failure of the call.
Prepare(d) ==
  LET s == call[d].sub  e == call[d].event
      refuse == call' = [call EXCEPT ![d].at = "refuse", ![d].phase = "preparation"]
  IN  /\ call[d].at = "prepare"
      /\ IF event[e].state # "live" THEN At(d, "failed") /\ UNCHANGED <<faults, misses>>
         ELSE IF reg[s].state = "cancelled" \/ Row(d).config \in lapsed
         THEN refuse /\ UNCHANGED <<faults, misses>>
         ELSE \/ /\ UNCHANGED <<faults, misses>>
                 /\ \E v \in Envelope :
                      call' = [call EXCEPT ![d].at = "freeze", ![d].envelope = v]
              \/ Fault /\ Fail(d)
              \/ Fault /\ (At(d, "failed") \/ refuse) /\ UNCHANGED misses
      /\ UNCHANGED <<store, dest, age, taken>>

\* The first preparation to be stored is the one that is sent, and the call goes on with the
\* delivery as it is stored.  An answer that comes too late is a failure of what was read.
Freeze(d) ==
  LET r == Row(d)
      fits == r.state = "selected" \/ (r.state = "prepared" /\ r.envelope = call[d].envelope)
      stored == IF r.state = "selected" THEN Prepared(call[d].sub, r, call[d].envelope) ELSE r
  IN  /\ call[d].at = "freeze"
      /\ \/ /\ fits /\ Store(d, stored)
            /\ \/ /\ IF stored.state = "refused" THEN Idle(d)
                     ELSE call' = [call EXCEPT ![d] = Reading([@ EXCEPT !.at = "send"], stored)]
                  /\ UNCHANGED <<faults, misses>>
               \/ Fault /\ Fail(d)
         \/ ~fits /\ At(d, "failed") /\ UNCHANGED <<delivery, faults, misses>>
      /\ UNCHANGED <<seq, reg, event, dest, age, taken>>

\* The destination admits an admission key once; the answer may be lost or refused by policy.
Admits(s, e, v) ==
  dest' = IF dest[s][e].kind = "none"
          THEN [dest EXCEPT ![s][e] = [kind |-> "admitted", envelope |-> v]] ELSE dest
Send(d) ==
  LET s == call[d].sub  e == call[d].event
  IN  /\ call[d].at = "send"
      /\ \/ event[e].state # "live" /\ At(d, "failed") /\ UNCHANGED <<dest, faults, misses>>
         \/ /\ event[e].state = "live" /\ Admits(s, e, call[d].envelope)
            /\ \/ At(d, "complete") /\ UNCHANGED <<faults, misses>>
               \/ Fault /\ Fail(d)
         \/ /\ event[e].state = "live" /\ Fault /\ UNCHANGED dest
            /\ \/ Fail(d)
               \/ At(d, "failed") /\ UNCHANGED misses
               \/ /\ call' = [call EXCEPT ![d].at = "refuse", ![d].phase = "admission"]
                  /\ UNCHANGED misses
      /\ UNCHANGED <<store, age, taken>>

Complete(d) ==
  /\ call[d].at = "complete"
  /\ \/ /\ Row(d).state = "prepared" /\ Store(d, [Row(d) EXCEPT !.state = "delivered"])
        /\ Idle(d)
     \/ Row(d).state = "delivered" /\ Idle(d) /\ UNCHANGED delivery
     \/ Row(d).state \notin {"prepared", "delivered"} /\ At(d, "failed") /\ UNCHANGED delivery
  /\ UNCHANGED <<seq, reg, event, dest, age, faults, taken, misses>>

\* A mutant: a refusal is stored whatever the delivery has become.
RefusesLate(r, phase) == Open(r)
Refuses(r, phase) == r.state = IF phase = "preparation" THEN "selected" ELSE "prepared"
Refuse(d) ==
  LET r == Row(d)  phase == call[d].phase
  IN  /\ call[d].at = "refuse"
      /\ \/ /\ Refuses(r, phase)
            /\ Store(d, [r EXCEPT !.state = "refused", !.phase = phase]) /\ Idle(d)
         \/ /\ ~Refuses(r, phase)
            /\ IF r.state = "refused" /\ r.phase = phase THEN Idle(d) ELSE At(d, "failed")
            /\ UNCHANGED delivery
      /\ UNCHANGED <<seq, reg, event, dest, age, faults, taken, misses>>

\* A failure the call did not handle: the sweep counts it on the delivery as it is by then, a
\* failure of that delivery; a direct call only reports it.
Failed(d) ==
  /\ call[d].at = "failed"
  /\ \/ Idle(d) /\ UNCHANGED misses
     \/ /\ Open(Row(d)) /\ Miss(d)
        /\ call' = [call EXCEPT ![d] = Reading([@ EXCEPT !.at = "retry"], Row(d))]
  /\ UNCHANGED <<store, dest, age, faults, taken>>
Retry(d) ==
  /\ call[d].at = "retry"
  /\ \/ Open(Row(d)) /\ Store(d, Retried(Row(d), call[d])) /\ Idle(d)
     \/ ~Open(Row(d)) /\ Idle(d) /\ UNCHANGED delivery
  /\ UNCHANGED <<seq, reg, event, dest, age, faults, taken, misses>>

\* submissionStatus and ObserveSettlement; an unavailable status is asked again.
Observe(d) ==
  LET s == call[d].sub  e == call[d].event
  IN  /\ call[d].at = "observe"
      /\ \/ /\ dest[s][e].kind = "settled" /\ Row(d).state = "delivered"
            /\ Store(d, [Row(d) EXCEPT !.settled = TRUE])
         \/ UNCHANGED delivery
      /\ Idle(d)
      /\ UNCHANGED <<seq, reg, event, dest, age, faults, taken, misses>>

\* recoverDelivery, which the owner asks of a delivery that is not decided.
Recover(s, e) ==
  /\ Open(delivery[s][e]) /\ delivery[s][e].generation < MaxRecovery
  /\ delivery' = [delivery EXCEPT ![s][e] = Recovered(@)]
  /\ misses' = [misses EXCEPT ![s][e] = 0]
  /\ UNCHANGED <<seq, reg, event, call, dest, age, faults, taken>>

Interrupt(d) ==
  /\ call[d].at # "idle" /\ Fault /\ Idle(d)
  /\ UNCHANGED <<store, dest, age, taken, misses>>

-----------------------------------------------------------------------------
(***************************************************************************)
(* compact, one delivery or one event at a time: a pass looks at a page of   *)
(* each, and deliveries come first.                                         *)
(***************************************************************************)
Sought(e) == \E s \in Sub : reg[s].seeking /\ e \in Wants[reg[s].config]
Reclaimable(e) == event[e].routed /\ e \in aged /\ ~Sought(e)
Finished(r) == r.state = "refused" \/ (r.state = "delivered" /\ r.settled)
ReclaimDelivery(s, e) ==
  /\ Finished(delivery[s][e]) /\ event[e].state # "absent" /\ Reclaimable(e)
  /\ delivery' = [delivery EXCEPT ![s][e] = NoDelivery]
  /\ UNCHANGED <<seq, reg, event, call, dest, age, faults, taken, misses>>
\* A mutant: the deliveries of an event do not protect it.
Unneeded(e) == TRUE
Unreferenced(e) == \A s \in Sub : delivery[s][e].state = "absent"
Tombstones == {e \in Event : event[e].state = "tombstone"}
ReclaimEvent(e) ==
  /\ event[e].state # "absent" /\ Reclaimable(e) /\ Unreferenced(e)
  /\ \/ e \in beyond /\ event' = [event EXCEPT ![e] = NoEvent]
     \/ /\ e \notin beyond /\ event[e].state = "live" /\ Cardinality(Tombstones) < MaxTombstones
        /\ event' = [event EXCEPT ![e].state = "tombstone"]
  /\ UNCHANGED <<seq, reg, delivery, call, dest, age, faults, taken, misses>>

-----------------------------------------------------------------------------
(* The destination and time. *)
Settle(s, e) ==
  /\ dest[s][e].kind = "admitted"
  /\ dest' = [dest EXCEPT ![s][e].kind = "settled"]
  /\ UNCHANGED <<store, call, age, faults, taken, misses>>
InUse(c) ==
  \E s \in Sub : reg[s].config = c \/ \E e \in Event : delivery[s][e].config = c
Lapse(c) ==
  /\ InUse(c) /\ c \notin lapsed /\ lapsed' = lapsed \cup {c}
  /\ UNCHANGED <<store, call, dest, aged, beyond, faults, taken, misses>>
Age(e) ==
  /\ event[e].state # "absent"
  /\ \/ e \notin aged /\ aged' = aged \cup {e} /\ UNCHANGED beyond
     \/ e \in aged \ beyond /\ beyond' = beyond \cup {e} /\ UNCHANGED aged
  /\ UNCHANGED <<store, call, dest, lapsed, faults, taken, misses>>

Process(d) ==
  \/ Select(d) \/ Seek(d) \/ GiveUp(d) \/ Find(d) \/ CatchUp(d) \/ Defer(d)
  \/ Prepare(d) \/ Freeze(d) \/ Send(d) \/ Complete(d) \/ Refuse(d) \/ Failed(d) \/ Retry(d)
  \/ Observe(d)
Next ==
  \/ \E s \in Sub : \/ Pause(s) \/ Resume(s) \/ Rearm(s) \/ Cancel(s)
                    \/ \E c \in Config : Register(s, c) \/ Update(s, c)
  \/ \E e \in Event : Accept(e) \/ ReclaimEvent(e) \/ Age(e)
  \/ \E d \in Driver : \/ Process(d) \/ Interrupt(d)
                       \/ \E e \in Event : Route(d, e)
                       \/ \E s \in Sub : List(d, s)
  \/ \E d \in Sender, s \in Sub, e \in Event : Begin(d, s, e)
  \/ \E s \in Sub, e \in Event : Recover(s, e) \/ ReclaimDelivery(s, e) \/ Settle(s, e)
  \/ \E c \in Config : Lapse(c)

Spec == Init /\ [][Next]_vars
-----------------------------------------------------------------------------
(***************************************************************************)
(* Safety.                                                                  *)
(***************************************************************************)

\* An event is selected for a registration at most once, whatever is redelivered, reconciled
\* or compacted in between, and a once registration is given one event in its life.
SelectedOnce ==
  [][\A s \in Sub, e \in Event :
       delivery[s][e].state = "absent" /\ delivery'[s][e].state # "absent" =>
         /\ \A c \in Config : <<s, e, c>> \notin taken
         /\ delivery'[s][e].config \in Once =>
              \A f \in Event, c \in Once : <<s, f, c>> \notin taken]_vars

\* Routing leaves nobody out: once it is over, every registration that was in force when the
\* event was accepted, and has not changed since, has its delivery.
RoutedToAll ==
  \A s \in Sub, e \in Event :
    /\ event[e].routed /\ Eligible(s)
    /\ e \in Wants[reg[s].config] /\ reg[s].ordinal <= event[e].cutoff
    => \E c \in Config : <<s, e, c>> \in taken

\* What a delivery shows is what happened: a refusal before preparation is conclusive, a
\* Receipt is the destination's, and the destination has seen no envelope but the frozen one.
DeliveryIsTrue ==
  \A s \in Sub, e \in Event :
    LET r == delivery[s][e]
    IN  /\ r.phase = "preparation" => dest[s][e].kind = "none"
        /\ r.state = "delivered" => dest[s][e].kind # "none"
        /\ r.settled => dest[s][e].kind = "settled"
        /\ r.state # "absent" /\ dest[s][e].kind # "none" =>
             r.envelope = dest[s][e].envelope

\* Compaction takes no evidence that is still needed.
EvidenceIsKept ==
  \A s \in Sub, e \in Event :
    LET r == delivery[s][e]
    IN  Open(r) \/ (r.state = "delivered" /\ ~r.settled) => event[e].state = "live"

\* A delivery is parked only after MaxAutomatic attempts at it failed since its last recovery.
\* An attempt that read the delivery before the recovery is none of them, unless it leaves its
\* failure to the sweep, which takes it for one of the delivery that it finds.
AllowanceIsWhole ==
  \A s \in Sub, e \in Event :
    delivery[s][e].parked => misses[s][e] >= MaxAutomatic

=============================================================================
