----------------------------- MODULE ThreadLog -----------------------------
(***************************************************************************)
(* The canonical log of each Thread: an append-only sequence of batches     *)
(* fenced by a producer epoch.  Every operation of the store is one atomic  *)
(* Ref.modify, so each is one action.  The callers are not restricted: any  *)
(* may present any epoch, any tail it once read, and any batch, again and   *)
(* again; what the store refuses or replays leaves the log unchanged.       *)
(* RunAttempt composes the log with the Attempts that write it.             *)
(*                                                                          *)
(* A canonical tail, its sequence number with the digest chained over all   *)
(* batches before it, is abstracted to the number of batches it covers: the *)
(* digests are taken to be free of collisions, and a log only grows, so a   *)
(* tail a caller once read is a prefix of the log.                          *)
(***************************************************************************)
EXTENDS Integers, Sequences

CONSTANTS
  Thread,      \* Thread identities
  Batch,       \* batch identities
  Record,      \* record identities
  Body,        \* what the records of a batch may say
  MaxBatches   \* MAX_RECORDS_PER_THREAD, counted in batches

VARIABLES
  fence,   \* producerEpoch of the Thread, Unmaterialized before its first
  log      \* its batches in canonical order, each with the epoch it was appended under

vars == <<fence, log>>

Unmaterialized == -1

Request == [batch : Batch, records : SUBSET Record, body : Body]
Entry == [batch : Batch, records : SUBSET Record, body : Body, epoch : Nat]

TypeOK ==
  /\ fence \in [Thread -> Nat \cup {Unmaterialized}]
  /\ log \in [Thread -> Seq(Entry)]

Init ==
  /\ fence = [t \in Thread |-> Unmaterialized]
  /\ log = [t \in Thread |-> <<>>]

-----------------------------------------------------------------------------
TailOf(t) == Len(log[t])
Holds(t, q) == \E i \in 1..Len(log[t]) : log[t][i].batch = q.batch
HoldsRecordOf(t, q) == \E i \in 1..Len(log[t]) : log[t][i].records \cap q.records # {}

\* The same batch, after the same tail: the digest of a batch covers both.
Replays(t, n, q) ==
  \E i \in 1..Len(log[t]) :
    /\ i = n + 1
    /\ log[t][i].batch = q.batch
    /\ log[t][i].records = q.records
    /\ log[t][i].body = q.body

Fenced(t, e) == fence[t] = e
Fits(t) == Len(log[t]) < MaxBatches
Accepts(t, e, n, q) ==
  /\ Fenced(t, e)
  /\ ~Holds(t, q)
  /\ n = TailOf(t)
  /\ Fits(t)
  /\ ~HoldsRecordOf(t, q)

\* Mutant: the fence moves to whatever epoch is asked for.
MaterializeAny(t, e) ==
  /\ fence' = [fence EXCEPT ![t] = e]
  /\ UNCHANGED log
\* An equal epoch is a replay and a lower one is rejected.
Materialize(t, e) ==
  /\ fence[t] < e
  /\ fence' = [fence EXCEPT ![t] = e]
  /\ UNCHANGED log

AppendBatch(t, e, n, q) ==
  /\ Accepts(t, e, n, q)
  /\ log' = [log EXCEPT ![t] = Append(@, [batch |-> q.batch, records |-> q.records,
                                          body |-> q.body, epoch |-> e])]
  /\ UNCHANGED fence

Next ==
  \E t \in Thread, e \in Nat :
    \/ Materialize(t, e)
    \/ \E n \in 0..TailOf(t), q \in Request :
         q.records # {} /\ AppendBatch(t, e, n, q)

Spec == Init /\ [][Next]_vars

-----------------------------------------------------------------------------
(***************************************************************************)
(* Properties.                                                              *)
(***************************************************************************)
\* History is written in the order of the epochs: once a batch of a newer
\* Attempt is canonical, no superseded Attempt adds one behind it.
HistoryIsFenced ==
  \A t \in Thread : \A i \in 1..Len(log[t]) :
    /\ log[t][i].epoch <= fence[t]
    /\ \A j \in 1..i : log[t][j].epoch <= log[t][i].epoch

\* Nothing is canonical twice: neither a batch nor, under whatever batch
\* identity it comes, a record.
RecordedOnce ==
  \A t \in Thread : \A i, j \in 1..Len(log[t]) :
    i # j =>
      /\ log[t][i].batch # log[t][j].batch
      /\ log[t][i].records \cap log[t][j].records = {}

Extends ==
  \A t \in Thread :
    /\ fence[t] <= fence'[t]
    /\ Len(log[t]) <= Len(log'[t])
    /\ \A i \in 1..Len(log[t]) : log'[t][i] = log[t][i]

\* A prefix once read stays what it was: history is only extended, and the
\* fence only rises.
HistoryIsAppendOnly == [][Extends]_vars
=============================================================================
