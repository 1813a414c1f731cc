--------------------------- MODULE ThreadLogProofs ---------------------------
(***************************************************************************)
(* Theorems about ThreadLog, for every set of Threads, batches, records and *)
(* bodies, and any epochs.                                                  *)
(*                                                                          *)
(* The inductive invariant is the type invariant together with the two      *)
(* safety invariants; each is inductive relative to the type alone.         *)
(***************************************************************************)
EXTENDS ThreadLog, TLAPS

\* An accepted batch becomes the last entry of its Thread, stamped with the
\* epoch it was appended under; nothing else of the log changes.
Stamped(e, q) ==
  [batch |-> q.batch, records |-> q.records, body |-> q.body, epoch |-> e]

LEMMA AppendAddsLast ==
  ASSUME TypeOK, NEW t \in Thread, NEW e \in Nat, NEW n \in Nat,
         NEW q \in Request, AppendBatch(t, e, n, q)
  PROVE  /\ Stamped(e, q) \in Entry
         /\ log' \in [Thread -> Seq(Entry)]
         /\ Len(log'[t]) = Len(log[t]) + 1
         /\ log'[t][Len(log[t]) + 1] = Stamped(e, q)
         /\ \A i \in 1..Len(log[t]) : log'[t][i] = log[t][i]
         /\ \A u \in Thread \ {t} : log'[u] = log[u]
         /\ fence' = fence /\ fence[t] = e
<1>1. Stamped(e, q) \in Entry
  BY DEF Stamped, Entry, Request
<1>2. log[t] \in Seq(Entry)
  BY DEF TypeOK
<1>3. log' = [log EXCEPT ![t] = Append(@, Stamped(e, q))]
  BY DEF AppendBatch, Stamped
<1>4. log'[t] = Append(log[t], Stamped(e, q))
  BY <1>3 DEF TypeOK
<1>5. Append(log[t], Stamped(e, q)) \in Seq(Entry)
  BY <1>1, <1>2
<1>6. log' \in [Thread -> Seq(Entry)]
  BY <1>3, <1>5 DEF TypeOK
<1>7. \A u \in Thread \ {t} : log'[u] = log[u]
  BY <1>3 DEF TypeOK
<1>8. fence' = fence /\ fence[t] = e
  BY DEF AppendBatch, Accepts, Fenced
<1>9. /\ Len(log'[t]) = Len(log[t]) + 1
      /\ log'[t][Len(log[t]) + 1] = Stamped(e, q)
      /\ \A i \in 1..Len(log[t]) : log'[t][i] = log[t][i]
  BY <1>1, <1>2, <1>4
<1>. QED
  BY <1>1, <1>6, <1>7, <1>8, <1>9

-----------------------------------------------------------------------------
LEMMA TypeInit == Init => TypeOK
<1>. SUFFICES ASSUME Init PROVE TypeOK
  OBVIOUS
<1>1. << >> \in Seq(Entry)
  OBVIOUS
<1>. QED
  BY <1>1 DEF Init, TypeOK, Unmaterialized

LEMMA TypeStep == TypeOK /\ [Next]_vars => TypeOK'
<1>. SUFFICES ASSUME TypeOK, [Next]_vars PROVE TypeOK'
  OBVIOUS
<1>1. ASSUME NEW t \in Thread, NEW e \in Nat, Materialize(t, e)
      PROVE  TypeOK'
  <2>1. fence' \in [Thread -> Nat \cup {Unmaterialized}]
    BY <1>1 DEF Materialize, TypeOK
  <2>. QED
    BY <1>1, <2>1 DEF Materialize, TypeOK
<1>2. ASSUME NEW t \in Thread, NEW e \in Nat, NEW n \in 0..TailOf(t),
             NEW q \in Request, AppendBatch(t, e, n, q)
      PROVE  TypeOK'
  <2>1. n \in Nat
    BY DEF TailOf, TypeOK
  <2>. QED
    BY <1>2, <2>1, AppendAddsLast DEF TypeOK
<1>3. CASE UNCHANGED vars
  BY <1>3 DEF vars, TypeOK
<1>. QED
  BY <1>1, <1>2, <1>3 DEF Next

\* Every reachable log is well typed: each entry carries its batch, its
\* records and the epoch it was appended under.
THEOREM TypeCorrect == Spec => []TypeOK
<1>. QED
  BY TypeInit, TypeStep, PTL DEF Spec

-----------------------------------------------------------------------------
LEMMA FencedStep == TypeOK /\ HistoryIsFenced /\ [Next]_vars => HistoryIsFenced'
<1>. SUFFICES ASSUME TypeOK, HistoryIsFenced, [Next]_vars PROVE HistoryIsFenced'
  OBVIOUS
<1>0. \A u \in Thread : \A i \in 1..Len(log[u]) : log[u][i].epoch \in Nat /\ log[u][i] \in Entry
  <2>. SUFFICES ASSUME NEW u \in Thread, NEW i \in 1..Len(log[u])
                PROVE  log[u][i].epoch \in Nat /\ log[u][i] \in Entry
    OBVIOUS
  <2>1. log[u] \in Seq(Entry)
    BY DEF TypeOK
  <2>2. log[u][i] \in Entry
    BY <2>1
  <2>. QED
    BY <2>2 DEF Entry
<1>1. ASSUME NEW t \in Thread, NEW e \in Nat, Materialize(t, e)
      PROVE  HistoryIsFenced'
  <2>0. log' = log /\ fence[t] < e /\ fence' = [fence EXCEPT ![t] = e]
    BY <1>1 DEF Materialize
  <2>1. log' = log /\ \A u \in Thread : fence[u] <= fence'[u]
    <3>1. SUFFICES ASSUME NEW u \in Thread PROVE fence[u] <= fence'[u]
      BY <2>0
    <3>2. fence[u] \in Int
      BY DEF TypeOK, Unmaterialized
    <3>3. CASE u = t
      <4>1. fence'[u] = e
        BY <2>0, <3>3 DEF TypeOK
      <4>2. fence[u] < e /\ e \in Int
        BY <2>0, <3>3
      <4>. QED
        BY <3>2, <4>1, <4>2
    <3>4. CASE u # t
      <4>1. fence'[u] = fence[u]
        BY <2>0, <3>4 DEF TypeOK
      <4>. QED
        BY <3>2, <4>1
    <3>. QED
      BY <3>3, <3>4
  <2>2. \A u \in Thread : fence[u] \in Int /\ fence'[u] \in Int
    BY <1>1 DEF Materialize, TypeOK, Unmaterialized
  <2>. QED
    BY <1>0, <2>1, <2>2 DEF HistoryIsFenced
<1>2. ASSUME NEW t \in Thread, NEW e \in Nat, NEW n \in 0..TailOf(t),
             NEW q \in Request, AppendBatch(t, e, n, q)
      PROVE  HistoryIsFenced'
  <2>. DEFINE m == Len(log[t])
  <2>1. n \in Nat /\ m \in Nat
    BY DEF TailOf, TypeOK
  <2>2. /\ Len(log'[t]) = m + 1
        /\ log'[t][m + 1] = Stamped(e, q)
        /\ \A i \in 1..m : log'[t][i] = log[t][i]
        /\ \A u \in Thread \ {t} : log'[u] = log[u]
        /\ fence' = fence /\ fence[t] = e
    BY <1>2, <2>1, AppendAddsLast
  <2>3. \A i \in 1..m : log[t][i].epoch <= e
    BY <2>2 DEF HistoryIsFenced
  <2>4. log'[t][m + 1].epoch = e
    BY <2>2 DEF Stamped
  <2>5. ASSUME NEW i \in 1..(m + 1)
        PROVE  log'[t][i].epoch <= e /\ \A j \in 1..i : log'[t][j].epoch <= log'[t][i].epoch
    <3>1. CASE i = m + 1
      <4>1. \A j \in 1..m : log'[t][j].epoch <= e
        BY <2>2, <2>3
      <4>. QED
        BY <2>1, <2>4, <3>1, <4>1
    <3>2. CASE i \in 1..m
      <4>1. \A j \in 1..i : log[t][j].epoch <= log[t][i].epoch
        BY <3>2 DEF HistoryIsFenced
      <4>2. \A j \in 1..i : log'[t][j] = log[t][j]
        BY <2>1, <2>2, <3>2
      <4>. QED
        BY <2>1, <2>2, <2>3, <3>2, <4>1, <4>2
    <3>. QED
      BY <2>1, <3>1, <3>2
  <2>6. ASSUME NEW u \in Thread \ {t}
        PROVE  \A i \in 1..Len(log'[u]) :
                 /\ log'[u][i].epoch <= fence'[u]
                 /\ \A j \in 1..i : log'[u][j].epoch <= log'[u][i].epoch
    BY <2>2 DEF HistoryIsFenced
  <2>. QED
    BY <2>2, <2>5, <2>6 DEF HistoryIsFenced
<1>3. CASE UNCHANGED vars
  BY <1>3 DEF vars, HistoryIsFenced
<1>. QED
  BY <1>1, <1>2, <1>3 DEF Next

\* No superseded Attempt writes behind a newer one: along the log of every
\* Thread the producer epochs never fall, and the fence is at their head.
THEOREM FencedHistory == Spec => []HistoryIsFenced
<1>1. Init => HistoryIsFenced
  BY DEF Init, HistoryIsFenced
<1>. QED
  BY <1>1, TypeInit, TypeStep, FencedStep, PTL DEF Spec

-----------------------------------------------------------------------------
LEMMA RecordedStep == TypeOK /\ RecordedOnce /\ [Next]_vars => RecordedOnce'
<1>. SUFFICES ASSUME TypeOK, RecordedOnce, [Next]_vars PROVE RecordedOnce'
  OBVIOUS
<1>1. ASSUME NEW t \in Thread, NEW e \in Nat, Materialize(t, e)
      PROVE  RecordedOnce'
  BY <1>1 DEF Materialize, RecordedOnce
<1>2. ASSUME NEW t \in Thread, NEW e \in Nat, NEW n \in 0..TailOf(t),
             NEW q \in Request, AppendBatch(t, e, n, q)
      PROVE  RecordedOnce'
  <2>. DEFINE m == Len(log[t])
              Apart(i, j) == /\ log'[t][i].batch # log'[t][j].batch
                             /\ log'[t][i].records \cap log'[t][j].records = {}
  <2>1. n \in Nat /\ m \in Nat
    BY DEF TailOf, TypeOK
  <2>2. /\ Len(log'[t]) = m + 1
        /\ log'[t][m + 1] = Stamped(e, q)
        /\ \A i \in 1..m : log'[t][i] = log[t][i]
        /\ \A u \in Thread \ {t} : log'[u] = log[u]
    BY <1>2, <2>1, AppendAddsLast
  <2>3. \A i \in 1..m : log[t][i].batch # q.batch /\ log[t][i].records \cap q.records = {}
    BY <1>2 DEF AppendBatch, Accepts, Holds, HoldsRecordOf
  <2>4. log'[t][m + 1].batch = q.batch /\ log'[t][m + 1].records = q.records
    BY <2>2 DEF Stamped
  <2>5. \A i \in 1..m : Apart(i, m + 1) /\ Apart(m + 1, i)
    BY <2>2, <2>3, <2>4
  <2>6. \A i, j \in 1..m : i # j => Apart(i, j)
    <3>. SUFFICES ASSUME NEW i \in 1..m, NEW j \in 1..m, i # j
                  PROVE  Apart(i, j)
      OBVIOUS
    <3>1. log[t][i].batch # log[t][j].batch /\ log[t][i].records \cap log[t][j].records = {}
      BY DEF RecordedOnce
    <3>2. log'[t][i] = log[t][i] /\ log'[t][j] = log[t][j]
      BY <2>2
    <3>. QED
      BY <3>1, <3>2
  <2>7. \A i, j \in 1..(m + 1) : i # j => Apart(i, j)
    <3>. SUFFICES ASSUME NEW i \in 1..(m + 1), NEW j \in 1..(m + 1), i # j
                  PROVE  Apart(i, j)
      OBVIOUS
    <3>1. (i \in 1..m \/ i = m + 1) /\ (j \in 1..m \/ j = m + 1)
      BY <2>1
    <3>. HIDE DEF Apart, m
    <3>. QED
      BY <2>5, <2>6, <3>1
  <2>8. ASSUME NEW u \in Thread \ {t}, NEW i \in 1..Len(log'[u]), NEW j \in 1..Len(log'[u]), i # j
        PROVE  /\ log'[u][i].batch # log'[u][j].batch
               /\ log'[u][i].records \cap log'[u][j].records = {}
    <3>1. log'[u] = log[u]
      BY <2>2
    <3>2. i \in 1..Len(log[u]) /\ j \in 1..Len(log[u])
      BY <3>1
    <3>3. log[u][i].batch # log[u][j].batch /\ log[u][i].records \cap log[u][j].records = {}
      BY <2>8, <3>2 DEF RecordedOnce
    <3>. QED
      BY <3>1, <3>3
  <2>9. \A i, j \in 1..Len(log'[t]) : i # j => Apart(i, j)
    BY <2>2, <2>7
  <2>. QED
    BY <2>8, <2>9 DEF RecordedOnce
<1>3. CASE UNCHANGED vars
  BY <1>3 DEF vars, RecordedOnce
<1>. QED
  BY <1>1, <1>2, <1>3 DEF Next

\* Neither a batch nor a record becomes canonical twice, however often and
\* under whatever batch identity it is sent.
THEOREM RecordsAreUnique == Spec => []RecordedOnce
<1>1. Init => RecordedOnce
  BY DEF Init, RecordedOnce
<1>. QED
  BY <1>1, TypeInit, TypeStep, RecordedStep, PTL DEF Spec

-----------------------------------------------------------------------------
LEMMA ExtendsStep == TypeOK /\ Next => Extends
<1>. SUFFICES ASSUME TypeOK, Next PROVE Extends
  OBVIOUS
<1>1. ASSUME NEW t \in Thread, NEW e \in Nat, Materialize(t, e)
      PROVE  Extends
  <2>0. log' = log /\ fence[t] < e /\ fence' = [fence EXCEPT ![t] = e]
    BY <1>1 DEF Materialize
  <2>1. log' = log /\ \A u \in Thread : fence[u] <= fence'[u]
    <3>1. SUFFICES ASSUME NEW u \in Thread PROVE fence[u] <= fence'[u]
      BY <2>0
    <3>2. fence[u] \in Int
      BY DEF TypeOK, Unmaterialized
    <3>3. CASE u = t
      <4>1. fence'[u] = e
        BY <2>0, <3>3 DEF TypeOK
      <4>2. fence[u] < e /\ e \in Int
        BY <2>0, <3>3
      <4>. QED
        BY <3>2, <4>1, <4>2
    <3>4. CASE u # t
      <4>1. fence'[u] = fence[u]
        BY <2>0, <3>4 DEF TypeOK
      <4>. QED
        BY <3>2, <4>1
    <3>. QED
      BY <3>3, <3>4
  <2>2. \A u \in Thread : Len(log[u]) \in Nat
    BY DEF TypeOK
  <2>. QED
    BY <2>1, <2>2 DEF Extends
<1>2. ASSUME NEW t \in Thread, NEW e \in Nat, NEW n \in 0..TailOf(t),
             NEW q \in Request, AppendBatch(t, e, n, q)
      PROVE  Extends
  <2>1. n \in Nat /\ \A u \in Thread : Len(log[u]) \in Nat /\ fence[u] \in Int
    BY DEF TailOf, TypeOK, Unmaterialized
  <2>2. /\ Len(log'[t]) = Len(log[t]) + 1
        /\ \A i \in 1..Len(log[t]) : log'[t][i] = log[t][i]
        /\ \A u \in Thread \ {t} : log'[u] = log[u]
        /\ fence' = fence
    BY <1>2, <2>1, AppendAddsLast
  <2>. QED
    BY <2>1, <2>2 DEF Extends
<1>. QED
  BY <1>1, <1>2 DEF Next

\* A prefix a reader has seen never changes, and the fence only rises.
THEOREM HistoryOnlyGrows == Spec => HistoryIsAppendOnly
<1>1. TypeOK /\ [Next]_vars => [Extends]_vars
  BY ExtendsStep
<1>. QED
  BY <1>1, TypeInit, TypeStep, PTL DEF Spec, HistoryIsAppendOnly
=============================================================================
