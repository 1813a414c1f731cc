------------------------------ MODULE ChildWork ------------------------------
(***************************************************************************)
(* Attached children: the Calls of one parent Run that are delegated to     *)
(* child Submissions, each on a Thread of its own.  The parent's Attempts   *)
(* establish a child, wait for it and join it; an abort or an expiry closes *)
(* what is open; recovery repairs what an Attempt left behind; the child    *)
(* settles when it likes and wakes its parent.                              *)
(*                                                                          *)
(* What holds the two Threads together is the order of the writes: the      *)
(* reservation of the child's budget (a ledger row), the request, the       *)
(* admission, the start link, the attachment, the suspension, the join, the *)
(* frozen accounting, the release.  Each is one step here, and other        *)
(* processes act in between.  Rows and lanes are those of SubmissionLedger; *)
(* of the parent's log only the records of the delegated Calls are kept.    *)
(***************************************************************************)
EXTENDS Integers, Sequences, FiniteSets

CONSTANTS
  Worker,     \* processes that run Attempts of the parent
  Recoverer,  \* processes that sweep it
  None,       \* "undefined"
  Event,      \* what may befall the parent, among Events
  MaxEpoch,   \* bound of the model: claims granted
  Trouble     \* bound of the model: Trouble[n] events and trouble, with n Calls

Events == {"abort", "expiry", "failure"}
ASSUME ChildConstants ==
  /\ Event \subseteq Events
  /\ MaxEpoch \in Nat
  /\ Trouble \in Seq(Nat)
  /\ Worker \cap Recoverer = {}
  /\ None \notin {"completed", "failed", "aborted", "cancelled", "actual", "conservative", "zero"}
  /\ None \notin 0..Len(Trouble)
  /\ None \notin [outcome : {"completed", "failed", "aborted"},
                 ends : {"completed", "failed", "cancelled", None}]

\* The Calls in the order in which they are gone through.  A Call also names
\* its child Submission and the Thread of that; 0 names those of the parent.
Call == 1..Len(Trouble)
Root == 0
Submission == Call \cup {Root}
Process == Worker \cup Recoverer
Outcome == {"completed", "failed", "aborted"}

VARIABLES
  adm, sub, next, epoch, stopped, minted,   \* the ledger
  calls,    \* the Calls the parent delegates
  row,      \* the reservation of each Call's budget
  fence,    \* producer epoch of the parent's log
  said,     \* what that log says of each Call
  expired,  \* the parent's deadline: "no", "due", or "recorded" in the log
  child,    \* how far the Attempt that settles each child is
  job,      \* what each process is doing and remembers
  trouble   \* events and trouble so far

ledger == <<adm, sub, next, epoch, stopped, minted>>
canon == <<fence, said, expired>>
outside == <<calls, child, trouble>>
vars == <<ledger, row, canon, job, outside>>

L == INSTANCE SubmissionLedger WITH
  Thread <- Submission, Key <- Submission, Group <- {}, Origin <- {"none"},
  Call <- {}, JoinLimit <- 0, MaxEpoch <- [t \in Submission |-> MaxEpoch]

\* The decisions on a child's budget: what the child used, as its handler
\* reports it; all of it, when nobody can tell; nothing, without a child.
Accounting == {"actual", "conservative", "zero"}
Reservation ==
  [status : {"absent", "reserved", "releasePending", "released"},
   child : BOOLEAN, accounting : Accounting \cup {None}]
\* SubagentRequested, SubagentStarted and SubagentJoined with its accounting.
Records == [requested : BOOLEAN, started : BOOLEAN, joined : Accounting \cup {None}]

Position ==
  {"idle", "claimed", "read", "consult", "reserve", "request", "resolve", "admit",
   "ready", "start", "link", "lookup", "bid", "join", "freeze", "free", "suspend", "exhaust",
   "settle", "finalize", "release", "inspect", "wake", "acquire"}
\* An Attempt runs the Calls, closes them for an abort or an expiry, or checks
\* that all are closed; the others are recovery decisions.
Purpose ==
  {"run", "abort", "expire", "account",
   "admit", "link", "wait", "wake", "apply", "propagate", "nudge", "orphan", "close"}
Job ==
  [at : Position, doing : Purpose, c : Call \cup {None}, todo : SUBSET Call, wait : SUBSET Call,
   rows : [Call -> Reservation], knows : [Call -> Records],
   token : Nat, epoch : Nat, outcome : Outcome \cup {None}, money : Accounting \cup {None}]

NoRow == [status |-> "absent", child |-> FALSE, accounting |-> None]
Nothing == [requested |-> FALSE, started |-> FALSE, joined |-> None]
Idle ==
  [at |-> "idle", doing |-> "run", c |-> None, todo |-> {}, wait |-> {},
   rows |-> [c \in Call |-> NoRow], knows |-> [c \in Call |-> Nothing],
   token |-> 0, epoch |-> 0, outcome |-> None, money |-> None]

TypeOK ==
  /\ L!TypeOK
  /\ row \in [Call -> Reservation]
  /\ fence \in Nat
  /\ said \in [Call -> Records]
  /\ expired \in {"no", "due", "recorded"}
  /\ child \in [Call -> {"running", "announce", "finalize", "repeat", "done"}]
  /\ job \in [Process -> Job]
  /\ calls \subseteq Call
  /\ trouble \in Nat

\* The parent's input is applied and its Calls are declared and prepared.
Init ==
  /\ adm = [s \in Submission |->
       IF s = Root THEN [thread |-> Root, key |-> Root, group |-> None, origin |-> "none", seq |-> 1]
       ELSE L!NotAdmitted]
  /\ sub = [s \in Submission |->
       IF s = Root THEN [L!Fresh EXCEPT !.state = "input-applied", !.applied = TRUE] ELSE L!Absent]
  /\ next = [t \in Submission |-> IF t = Root THEN 2 ELSE 1]
  /\ epoch = [t \in Submission |-> 0]
  /\ stopped = [t \in Submission |-> "open"]
  /\ minted = 0
  /\ \E n \in Call : calls = 1..n
  /\ row = [c \in Call |-> NoRow]
  /\ fence = 0
  /\ said = [c \in Call |-> Nothing]
  /\ expired = "no"
  /\ child = [c \in Call |-> "running"]
  /\ job = [p \in Process |-> Idle]
  /\ trouble = 0

-----------------------------------------------------------------------------
\* Something happens to the parent or to a process.
Befalls == trouble < Trouble[Cardinality(calls)] /\ trouble' = trouble + 1
Set(p, j) == job' = [job EXCEPT ![p] = j]
Only(p, j) == Set(p, j) /\ UNCHANGED <<ledger, row, canon, outside>>
\* What is left of a job once it is over, or once a call of it is refused: the
\* claim it holds, if any, is released.
Done(j) == IF j.token = 0 THEN Idle ELSE [Idle EXCEPT !.at = "release", !.token = j.token]
Quit(p) == Only(p, Done(job[p]))
\* A call to the ledger that is accepted.
Told(p, call, j) == call /\ Set(p, j) /\ UNCHANGED <<row, canon, outside>>
\* An append at the process's epoch; a record that is there already is left.
Appends(p, recorded, flag, j) ==
  \/ /\ fence = job[p].epoch
     /\ said' = recorded /\ expired' = flag
     /\ Set(p, j) /\ UNCHANGED <<ledger, row, fence, outside>>
  \/ fence # job[p].epoch /\ Quit(p)
Owns(p) == L!OwnsLane(Root, job[p].token)

-----------------------------------------------------------------------------
(***************************************************************************)
(* Going through the Calls, one after the other.                            *)
(***************************************************************************)
\* A scan reads the reservation rows, then the log.
Scan(j, doing, outcome) ==
  [Idle EXCEPT !.at = "read", !.doing = doing, !.outcome = outcome,
               !.token = j.token, !.epoch = j.epoch]

\* Where the handling of a Call starts, and with which accounting.
To(at, money) == [at |-> at, money |-> money]
Opening(j, c) ==
  LET k == j.knows[c]
      r == j.rows[c]
      closing == j.doing \in {"abort", "expire", "account", "apply"}
      childless == ~k.started /\ ~r.child /\ ~k.requested
  IN
  CASE j.doing = "run" -> To(IF k.requested THEN "admit" ELSE "reserve", None)
    [] j.doing \in {"admit", "link"} -> To("admit", None)
    [] j.doing \in {"propagate", "nudge"} -> To("bid", None)
    [] j.doing = "orphan" -> To("freeze", "zero")
    [] closing /\ k.joined # None -> To("freeze", k.joined)
    [] closing /\ k.joined = None /\ r.status # "reserved" -> To("freeze", r.accounting)
    [] closing /\ k.joined = None /\ r.status = "reserved" ->
         IF childless THEN To("freeze", "zero")
         ELSE IF k.started \/ (r.child /\ j.doing = "abort") THEN To("lookup", None)
         ELSE To(IF j.doing = "expire" THEN "resolve" ELSE "admit", None)
\* Mutant: a Run that ends does not look for children that are still open.
OverAtOnce(j) ==
  IF j.doing \in {"run", "abort"} /\ j.wait # {} THEN [j EXCEPT !.at = "suspend"]
  ELSE IF j.doing \in {"run", "expire", "abort", "account"}
       THEN [j EXCEPT !.at = "settle", !.outcome = IF @ = None THEN "completed" ELSE @]
       ELSE IF j.doing = "propagate" THEN [j EXCEPT !.at = "acquire"] ELSE Done(j)
\* No Call is left.
Over(j) ==
  LET none == j.wait = {}
      go(at) == [j EXCEPT !.at = at]
  IN
  CASE j.doing = "run" /\ none -> Scan(j, "account", "completed")
    [] j.doing = "expire" -> Scan(j, "account", j.outcome)
    [] j.doing = "abort" /\ none -> go("settle")
    [] j.doing = "account" /\ none /\ j.outcome # None -> go("settle")
    [] j.doing \in {"run", "abort"} /\ ~none -> go("suspend")
    [] j.doing = "propagate" -> go("acquire")
    [] OTHER -> Done(j)
Walk(j) ==
  IF j.todo = {} THEN Over(j)
  ELSE LET c == CHOOSE c \in j.todo : \A d \in j.todo : c <= d
           first == Opening(j, c)
       IN [j EXCEPT !.c = c, !.at = first.at, !.money = first.money]
\* A Call is dealt with, and forgotten: on to the next.
Past(j) ==
  [j EXCEPT !.todo = @ \ {j.c}, !.c = None, !.money = None,
            !.rows[j.c] = NoRow, !.knows[j.c] = Nothing]
Onward(j) == Walk(Past(j))
Waiting(j) == Walk([Past(j) EXCEPT !.wait = @ \cup {j.c}])

-----------------------------------------------------------------------------
(***************************************************************************)
(* The four operations on a reservation row.  Only its creation and its     *)
(* first attachment ask for the parent's ownership.                         *)
(***************************************************************************)
Reserve(p) ==
  LET j == job[p] IN
  /\ j.at = "reserve"
  /\ \/ /\ row[j.c].status = "absent" /\ Owns(p)
        /\ row' = [row EXCEPT ![j.c].status = "reserved"]
        /\ Set(p, [j EXCEPT !.at = "request"])
        /\ UNCHANGED <<ledger, canon, outside>>
     \/ row[j.c].status # "absent" /\ Only(p, [j EXCEPT !.at = "request"])
     \/ row[j.c].status = "absent" /\ ~Owns(p) /\ Quit(p)

AfterLink(j) ==
  CASE j.doing = "run" -> [j EXCEPT !.at = "lookup"]
    [] j.doing = "expire" /\ j.money # None -> [j EXCEPT !.at = "join"]
    [] OTHER -> Onward(j)
Link(p) ==
  LET j == job[p] IN
  /\ j.at = "link"
  /\ \/ /\ ~row[j.c].child /\ Owns(p) /\ row[j.c].status = "reserved" /\ L!Present(j.c)
        /\ row' = [row EXCEPT ![j.c].child = TRUE]
        /\ Set(p, AfterLink(j))
        /\ UNCHANGED <<ledger, canon, outside>>
     \/ row[j.c].child /\ Only(p, AfterLink(j))
     \/ ~row[j.c].child /\ ~(Owns(p) /\ row[j.c].status = "reserved") /\ Quit(p)

\* Mutant: a decision that was frozen before is replaced.
FreezeAgain(p) ==
  LET j == job[p] IN
  /\ j.at = "freeze"
  /\ row' = [row EXCEPT ![j.c].status = "releasePending", ![j.c].accounting = j.money]
  /\ Set(p, [j EXCEPT !.at = "free"])
  /\ UNCHANGED <<ledger, canon, outside>>
\* Mutant: whatever is open when the parent is aborted is charged in full.
FreezeInFull(p) ==
  LET j == job[p]
      money == IF j.doing = "abort" THEN "conservative" ELSE j.money
      first == row[j.c].status = "reserved"
  IN
  /\ j.at = "freeze"
  /\ row' = IF first
            THEN [row EXCEPT ![j.c].status = "releasePending", ![j.c].accounting = money]
            ELSE row
  /\ Set(p, [j EXCEPT !.at = "free"])
  /\ UNCHANGED <<ledger, canon, outside>>
\* beginChildBudgetRelease.  Whoever finds that there is no child leaves a
\* decision that was frozen before as it is; for everybody else it is a conflict.
Freeze(p) ==
  LET j == job[p]
      agrees == row[j.c].accounting = j.money \/ j.money = "zero"
  IN
  /\ j.at = "freeze"
  /\ \/ /\ row[j.c].status = "reserved"
        /\ row' = [row EXCEPT ![j.c].status = "releasePending", ![j.c].accounting = j.money]
        /\ Set(p, [j EXCEPT !.at = "free"])
        /\ UNCHANGED <<ledger, canon, outside>>
     \/ row[j.c].status # "reserved" /\ agrees /\ Only(p, [j EXCEPT !.at = "free"])
     \/ row[j.c].status # "reserved" /\ ~agrees /\ Quit(p)

\* An expiry that finds a released row of an attached child unjoined gives up.
Hidden(j) ==
  /\ j.doing = "expire" /\ j.rows[j.c].status # "reserved"
  /\ j.knows[j.c].joined = None
  /\ j.rows[j.c].child \/ j.knows[j.c].started
Free(p) ==
  LET j == job[p]
      then == IF Hidden(j) THEN Done(j) ELSE Onward(j)
  IN
  /\ j.at = "free"
  /\ \/ /\ row[j.c].status = "releasePending"
        /\ row' = [row EXCEPT ![j.c].status = "released"]
        /\ Set(p, then) /\ UNCHANGED <<ledger, canon, outside>>
     \/ row[j.c].status = "released" /\ Only(p, then)

-----------------------------------------------------------------------------
(***************************************************************************)
(* Establishing a child: get or create, by the identity the request fixed.  *)
(* Neither the admission nor its readiness asks for the parent's ownership. *)
(***************************************************************************)
Request(p) ==
  LET j == job[p] IN
  /\ j.at = "request"
  /\ Appends(p, [said EXCEPT ![j.c].requested = TRUE], expired,
             [j EXCEPT !.at = "admit", !.knows[j.c].requested = TRUE])

\* An expiry admits no child that it does not find.
Resolve(p) ==
  LET j == job[p] IN
  /\ j.at = "resolve"
  /\ CASE L!Present(j.c) -> Only(p, [j EXCEPT !.at = "ready"])
       [] ~L!Present(j.c) /\ j.rows[j.c].child -> Quit(p)
       [] ~L!Present(j.c) /\ ~j.rows[j.c].child ->
            Only(p, [j EXCEPT !.at = "freeze", !.money = "zero"])
\* Mutant: an admission that was not answered is taken for granted.
AdmitUnanswered(p) ==
  LET j == job[p]
      then == [j EXCEPT !.at = "ready"]
  IN
  /\ j.at = "admit"
  /\ Told(p, L!Admit(j.c, j.c, j.c, None, "none"), then) \/ Only(p, then)
Admit(p) ==
  LET j == job[p]
      then == [j EXCEPT !.at = "ready"]
  IN
  /\ j.at = "admit"
  /\ \/ Told(p, L!Admit(j.c, j.c, j.c, None, "none"), then)
     \/ L!Present(j.c) /\ Only(p, then)

\* Mutant: the child is attached before it is recorded as started.
AfterReadyUnrecorded(j) ==
  CASE j.doing \in {"run", "expire"} -> [j EXCEPT !.at = "link"]
    [] j.doing = "abort" -> [j EXCEPT !.at = "lookup"]
    [] j.doing = "admit" -> Onward(j)
    [] j.doing = "link" -> [j EXCEPT !.at = "acquire"]
AfterReady(j) ==
  CASE j.doing = "run" /\ j.knows[j.c].started -> [j EXCEPT !.at = "link"]
    [] j.doing = "abort" -> [j EXCEPT !.at = "lookup"]
    [] j.doing = "admit" -> Onward(j)
    [] j.doing = "link" -> [j EXCEPT !.at = "acquire"]
    [] OTHER -> [j EXCEPT !.at = "start"]
Ready(p) ==
  LET j == job[p] IN
  /\ j.at = "ready"
  /\ \/ Told(p, L!MarkReady(j.c), AfterReady(j))
     \/ sub[j.c].state # "admitted" /\ Only(p, AfterReady(j))

Start(p) ==
  LET j == job[p] IN
  /\ j.at = "start"
  /\ Appends(p, [said EXCEPT ![j.c].started = TRUE], expired,
             [j EXCEPT !.at = IF j.doing = "expire" THEN "lookup" ELSE "link",
                       !.knows[j.c].started = TRUE])

\* A child that the ledger does not know fails the Attempt.
Lookup(p) ==
  LET j == job[p]
      settled == sub[j.c].state = "settled"
      open == L!Present(j.c) /\ ~settled
  IN
  /\ j.at = "lookup"
  /\ Only(p,
       CASE ~L!Present(j.c) -> Done(j)
         [] j.doing = "run" /\ settled -> [j EXCEPT !.at = "join", !.money = "actual"]
         [] j.doing = "run" /\ open -> Waiting(j)
         [] j.doing = "abort" /\ settled -> [j EXCEPT !.at = "join", !.money = "conservative"]
         [] j.doing = "abort" /\ open -> [j EXCEPT !.at = "bid"]
         [] j.doing = "expire" /\ L!Present(j.c) ->
              [j EXCEPT !.at = "link", !.money = IF settled THEN "conservative" ELSE None])

\* SubagentJoined and the Call's result, in one batch.
Join(p) ==
  LET j == job[p] IN
  /\ j.at = "join"
  /\ Appends(p, [said EXCEPT ![j.c].joined = IF @ = None THEN j.money ELSE @], expired,
             [j EXCEPT !.at = "freeze", !.knows[j.c].joined = j.money])

\* The abort command to a child that has not settled.
Bid(p) ==
  LET j == job[p]
      then == IF j.doing = "abort" THEN Waiting(j) ELSE Onward(j)
  IN
  /\ j.at = "bid"
  /\ \/ Told(p, L!RequestAbort(j.c), then)
     \/ ~L!Active(j.c) /\ Only(p, then)

-----------------------------------------------------------------------------
(***************************************************************************)
(* An Attempt of the parent.                                                *)
(***************************************************************************)
Claimed(j) == [j EXCEPT !.token = minted + 1, !.epoch = epoch[Root] + 1]
Claim(p) ==
  /\ p \in Worker /\ job[p] = Idle
  /\ Told(p, L!Claim(Root), [Claimed(Idle) EXCEPT !.at = "claimed"])

AfterAttach(j) ==
  CASE j.doing = "link" -> "start" [] j.doing = "close" -> "settle" [] OTHER -> "read"
Attach(p) ==
  LET j == job[p] IN
  /\ j.at = "claimed"
  /\ \/ /\ fence <= j.epoch
        /\ fence' = j.epoch
        /\ Set(p, [j EXCEPT !.at = AfterAttach(j)])
        /\ UNCHANGED <<ledger, row, said, expired, outside>>
     \/ fence > j.epoch /\ Quit(p)

Read(p) ==
  LET j == job[p]
      decided == sub[Root].reserved # None
  IN
  /\ j.at = "read"
  /\ j.doing = "run" /\ ~decided => ~sub[Root].abort /\ expired = "no"
  /\ Only(p, IF j.doing = "run" /\ decided THEN [j EXCEPT !.at = "finalize"]
             ELSE [j EXCEPT !.rows = IF j.doing = "run" THEN @ ELSE row, !.at = "consult"])
Consult(p) ==
  LET j == job[p]
      held == {c \in Call : j.rows[c].status \notin {"absent", "released"}}
      open == {c \in held : said[c].joined = None /\ j.rows[c].status = "reserved"}
      due == CASE j.doing = "run" -> {c \in calls : said[c].joined = None}
                 [] j.doing = "abort" -> held
                 [] j.doing = "expire" -> {c \in Call : j.rows[c].status # "absent"}
                 [] j.doing = "account" -> held \ open
      these(f, none) == [c \in Call |-> IF c \in due THEN f[c] ELSE none]
  IN
  /\ j.at = "consult"
  /\ Only(p, Walk([j EXCEPT !.todo = due, !.wait = IF j.doing = "account" THEN open ELSE {},
                           !.rows = these(@, NoRow), !.knows = these(said, Nothing)]))

\* The Run is cut short: by the parent's abort, by its deadline, by a failure.
Running(p) ==
  /\ job[p].doing = "run" /\ job[p].token # 0
  /\ job[p].at \notin {"claimed", "suspend", "finalize", "release"}
Halt(p) ==
  /\ Running(p) /\ sub[Root].abort
  /\ job[p].at = "read" => sub[Root].reserved = None
  /\ Only(p, Scan(job[p], "abort", "aborted"))
Expire(p) ==
  /\ Running(p) /\ expired # "no"
  /\ job[p].at = "read" => sub[Root].reserved = None /\ ~sub[Root].abort
  /\ Only(p, [Scan(job[p], "expire", "failed") EXCEPT !.at = "exhaust"])
FailRun(p) ==
  /\ "failure" \in Event
  /\ Running(p) /\ job[p].at \in {"reserve", "admit"}
  /\ Befalls /\ Set(p, Scan(job[p], "account", "failed"))
  /\ UNCHANGED <<ledger, row, canon, calls, child>>
\* RunDurationExhausted.
Exhaust(p) ==
  /\ job[p].at = "exhaust"
  /\ Appends(p, said, "recorded", [job[p] EXCEPT !.at = "read"])

Suspend(p) ==
  LET j == job[p]
      reason == [kind |-> "child", on |-> j.wait]
      entitled == Owns(p) /\ L!Active(Root) /\ sub[Root].reserved = None
  IN
  /\ j.at = "suspend"
  /\ \/ Told(p, L!Suspend(Root, j.token, reason), Idle)
     \/ /\ entitled /\ L!Covered(Root, reason)
        /\ Only(p, IF j.doing \in {"run", "abort"} THEN Scan(j, j.doing, j.outcome)
                   ELSE Done(j))
     \/ ~entitled /\ Quit(p)

Settle(p) ==
  LET j == job[p] IN
  /\ j.at = "settle"
  /\ \/ Told(p, L!ReserveSettlement(Root, j.token, j.outcome, None), [j EXCEPT !.at = "finalize"])
     \/ ~(Owns(p) /\ sub[Root].reserved = None) /\ Quit(p)
Finalize(p) ==
  LET then == Done(job[p]) IN
  /\ job[p].at = "finalize"
  /\ \/ Told(p, L!FinalizeSettlement(Root), then)
     \/ sub[Root].state = "settled" /\ Only(p, then)
Release(p) ==
  /\ job[p].at = "release"
  /\ \/ Told(p, L!ReleaseOwnership(Root, job[p].token), Idle)
     \/ ~Owns(p) /\ Only(p, Idle)

-----------------------------------------------------------------------------
(***************************************************************************)
(* Recovery: the log is read, then the rows and the admissions, then one    *)
(* decision is taken and carried out, under a claim where it needs one.     *)
(***************************************************************************)
Sweep(p) ==
  /\ p \in Recoverer /\ job[p] = Idle
  /\ L!Active(Root)
  /\ Only(p, [Idle EXCEPT !.at = "inspect", !.knows = said])

Plan(doing, on) == [doing |-> doing, on |-> on]
First(doing, on) == Plan(doing, {CHOOSE c \in on : \A d \in on : c <= d})
NoPlan == Plan("run", {})
\* classifyRecovery over the delegated Calls, where k is what the log said.
Views(k) ==
  LET live == {c \in calls : row[c].status # "released"}
      pending == {c \in live : row[c].status = "releasePending"}
      joined == {c \in live \ pending : k[c].joined # None}
      rest == live \ (pending \cup joined)
      exists(c) == k[c].started \/ row[c].child \/ (k[c].requested /\ L!Present(c))
      terminal(c) == row[c].child /\ sub[c].state = "settled"
      unlinked == {c \in rest : exists(c) /\ ~k[c].started}
      started == {c \in rest : k[c].started}
  IN [apply |-> pending \cup {c \in joined : row[c].status = "reserved"},
      unlinked |-> unlinked,
      open |-> {c \in started : ~terminal(c)},
      over |-> {c \in started : terminal(c)},
      asked |-> {c \in rest : ~exists(c) /\ k[c].requested},
      none |-> {c \in rest : ~exists(c) /\ ~k[c].requested}]
WhenAborted(v) ==
  LET orphans == {c \in v.asked \cup v.none : row[c].status = "reserved"} IN
  CASE v.unlinked # {} -> First("link", v.unlinked)
    [] v.unlinked = {} /\ v.open # {} ->
         Plan(IF sub[Root].state = "suspended" THEN "nudge" ELSE "propagate", v.open)
    [] v.unlinked \cup v.open = {} /\ v.over # {} -> Plan("wake", v.over)
    [] v.unlinked \cup v.open \cup v.over = {} /\ v.apply # {} -> First("apply", v.apply)
    [] v.unlinked \cup v.open \cup v.over \cup v.apply = {} /\ orphans # {} -> Plan("orphan", orphans)
    [] OTHER -> Plan("close", sub[Root].waiting.on)
WhenSuspended ==
  LET on == sub[Root].waiting.on IN
  IF \A c \in on : row[c].child /\ sub[c].state = "settled" THEN Plan("wake", on) ELSE NoPlan
\* Mutant: a child that was only asked for is waited for like one that runs.
WhenLiveEager(v) ==
  CASE v.apply # {} -> First("apply", v.apply)
    [] v.apply = {} /\ v.unlinked # {} -> First("link", v.unlinked)
    [] v.apply \cup v.unlinked \cup v.none = {} /\ v.asked \cup v.open # {} ->
         Plan("wait", v.asked \cup v.open \cup v.over)
    [] v.apply \cup v.asked \cup v.unlinked \cup v.none \cup v.open = {} /\ v.over # {} ->
         Plan("wake", v.over)
    [] OTHER -> NoPlan
WhenLive(v) ==
  CASE v.apply # {} -> First("apply", v.apply)
    [] v.apply = {} /\ v.asked # {} -> First("admit", v.asked)
    [] v.apply \cup v.asked = {} /\ v.unlinked # {} -> First("link", v.unlinked)
    [] v.apply \cup v.asked \cup v.unlinked \cup v.none = {} /\ v.open # {} ->
         Plan("wait", v.open \cup v.over)
    [] v.apply \cup v.asked \cup v.unlinked \cup v.none \cup v.open = {} /\ v.over # {} ->
         Plan("wake", v.over)
    [] OTHER -> NoPlan
Decision(k) ==
  LET plan == IF sub[Root].abort THEN WhenAborted(Views(k))
              ELSE IF sub[Root].state = "suspended" THEN WhenSuspended ELSE WhenLive(Views(k))
  IN IF expired = "recorded" /\ plan.doing \in {"admit", "link"} THEN Plan("expire", {}) ELSE plan

Inspect(p) ==
  LET j == job[p]
      plan == Decision(j.knows)
      asleep == sub[Root].state = "suspended"
      planned == [j EXCEPT !.doing = plan.doing, !.wait = plan.on, !.knows = Idle.knows]
      seen(f, none) ==
        [c \in Call |-> IF plan.doing = "apply" /\ c \in plan.on THEN f[c] ELSE none]
      scanned == Walk([j EXCEPT !.doing = plan.doing, !.todo = plan.on,
                                !.rows = seen(row, NoRow), !.knows = seen(@, Nothing),
                                !.wait = IF plan.doing = "propagate" THEN plan.on ELSE {}])
  IN
  /\ j.at = "inspect"
  /\ Only(p,
       CASE ~L!Active(Root) -> Idle
         [] L!Active(Root) /\ sub[Root].reserved # None -> [Idle EXCEPT !.at = "finalize"]
         [] L!Active(Root) /\ sub[Root].reserved = None ->
              CASE plan = NoPlan -> Idle
                [] plan.doing = "wake" -> [planned EXCEPT !.at = "wake"]
                [] plan.doing \in {"wait", "expire"} -> [planned EXCEPT !.at = "acquire"]
                [] plan.doing = "close" ->
                     [planned EXCEPT !.at = IF asleep THEN "wake" ELSE "acquire", !.outcome = "aborted"]
                [] OTHER -> scanned)

Wakes(c) ==
  /\ sub[Root].state = "suspended" /\ c \in sub[Root].waiting.on
  /\ \A d \in sub[Root].waiting.on : L!Announced(d)
\* The wake is replayed for each child; a wake that cannot be verified defers.
Wake(p) ==
  LET j == job[p]
      then == IF j.doing = "close" THEN [j EXCEPT !.at = "acquire"] ELSE Idle
  IN
  /\ j.at = "wake"
  /\ \/ \E c \in j.wait : Told(p, L!RecordChildSettled(Root, c), then)
     \/ (\A c \in j.wait : L!Announced(c) /\ ~Wakes(c)) /\ Only(p, then)
     \/ (\E c \in j.wait : ~L!Announced(c)) /\ Only(p, Idle)
\* claimFor: the parent is alone in its lane.
Claimable == L!LaneIdle(Root) /\ L!IsHead(Root) /\ sub[Root].state \notin L!BlockedHeadStates
Acquire(p) ==
  LET j == job[p]
      at == IF j.doing \in {"wait", "propagate"} THEN "suspend" ELSE "claimed"
  IN
  /\ j.at = "acquire"
  /\ \/ Told(p, L!Claim(Root), [Claimed(j) EXCEPT !.at = at])
     \/ ~(Claimable /\ epoch[Root] < MaxEpoch) /\ Only(p, Idle)

-----------------------------------------------------------------------------
(***************************************************************************)
(* The child: it settles on its own lane, and tells its parent before and   *)
(* after the settlement is final.                                           *)
(***************************************************************************)
Child(c, at) == child' = [child EXCEPT ![c] = at]
Decide(c) ==
  /\ child[c] = "running" /\ sub[c].state = "ready"
  /\ sub' = [sub EXCEPT ![c].state = "terminalizing",
       ![c].reserved = [outcome |-> IF sub[c].abort THEN "aborted" ELSE "completed", ends |-> None]]
  /\ Child(c, "announce")
  /\ UNCHANGED <<adm, next, epoch, stopped, minted, row, canon, job, calls, trouble>>
Notify(c) ==
  /\ child[c] \in {"announce", "repeat"}
  /\ Child(c, IF child[c] = "announce" THEN "finalize" ELSE "done")
  /\ \/ L!RecordChildSettled(Root, c)
     \/ ~Wakes(c) /\ UNCHANGED ledger
  /\ UNCHANGED <<row, canon, job, calls, trouble>>
FinalizeChild(c) ==
  /\ child[c] = "finalize"
  /\ L!FinalizeSettlement(c)
  /\ Child(c, "repeat")
  /\ UNCHANGED <<row, canon, job, calls, trouble>>

-----------------------------------------------------------------------------
(***************************************************************************)
(* Operators, time and trouble.                                              *)
(***************************************************************************)
RequestAbort ==
  /\ "abort" \in Event /\ ~sub[Root].abort
  /\ L!RequestAbort(Root)
  /\ Befalls /\ UNCHANGED <<row, canon, job, calls, child>>
Elapse ==
  /\ "expiry" \in Event /\ expired = "no"
  /\ expired' = "due"
  /\ Befalls /\ UNCHANGED <<ledger, row, fence, said, job, calls, child>>

Crash(p) ==
  /\ job[p] # Idle
  /\ Befalls /\ Set(p, Idle)
  /\ UNCHANGED <<ledger, row, canon, calls, child>>
\* The process that settles a child dies; whoever takes over starts with the
\* first announcement, unless the settlement is final.
CrashChild(c) ==
  /\ child[c] \in {"finalize", "repeat"}
  /\ Befalls /\ Child(c, IF child[c] = "finalize" THEN "announce" ELSE "done")
  /\ UNCHANGED <<ledger, row, canon, job, calls>>
\* A lease ends before its owner does only when the owner is stalled.
Held == \E p \in Process : job[p] # Idle /\ Owns(p)
LeaseExpires ==
  /\ L!LeaseExpires(Root)
  /\ IF Held THEN Befalls ELSE UNCHANGED trouble
  /\ UNCHANGED <<row, canon, job, calls, child>>

Step(p) ==
  \/ Reserve(p) \/ Link(p) \/ Freeze(p) \/ Free(p)
  \/ Request(p) \/ Resolve(p) \/ Admit(p) \/ Ready(p) \/ Start(p) \/ Lookup(p) \/ Join(p) \/ Bid(p)
  \/ Attach(p) \/ Read(p) \/ Consult(p) \/ Halt(p) \/ Expire(p) \/ Exhaust(p)
  \/ Suspend(p) \/ Settle(p) \/ Finalize(p) \/ Release(p)
  \/ Inspect(p) \/ Wake(p) \/ Acquire(p)
Settling(c) == Decide(c) \/ Notify(c) \/ FinalizeChild(c)

Next ==
  \/ \E p \in Process : Step(p) \/ FailRun(p) \/ Claim(p) \/ Sweep(p) \/ Crash(p)
  \/ \E c \in Call : Settling(c) \/ CrashChild(c)
  \/ RequestAbort \/ Elapse \/ LeaseExpires

Spec == Init /\ [][Next]_vars

-----------------------------------------------------------------------------
(***************************************************************************)
(* Properties.                                                              *)
(***************************************************************************)
\* A child exists only under a canonical request and a reservation, a start
\* link and an attachment only ever name a child that exists, and a join only
\* one that has settled: whatever order Attempts and repairs write them in.
LinksAreTrue ==
  \A c \in Call :
    /\ said[c].requested => row[c].status # "absent"
    /\ L!Present(c) => said[c].requested
    /\ said[c].started => L!Present(c) /\ sub[c].state # "admitted"
    /\ row[c].child => said[c].started
    /\ said[c].joined # None => sub[c].state = "settled"

\* A child's budget is charged what the canonical join says: an accounting
\* other than "there was no child" is that of the recorded join.
AccountingIsCanonical ==
  \A c \in Call :
    row[c].accounting \notin {None, "zero"} => said[c].joined = row[c].accounting

\* A Run that completes or fails leaves no child behind: each of its
\* reservations is released, and a completed one has joined every child.
OwesNoChild ==
  sub[Root].reserved # None =>
    /\ sub[Root].reserved.outcome # "aborted" =>
         \A c \in Call : row[c].status \in {"absent", "released"}
    /\ sub[Root].reserved.outcome = "completed" => \A c \in calls : said[c].joined # None

\* The parent never settles across an open child obligation, aborted or not.
NeverSettlesAcrossChild ==
  sub[Root].reserved # None => \A c \in Call : row[c].status \in {"absent", "released"}

\* Whoever looks up a child finds it, however old the view that led there: the
\* errors of establishment, abort and expiry for a child that the ledger does
\* not know are never raised.
FindsItsChild ==
  \A p \in Process : job[p].at = "lookup" => L!Present(job[p].c)

\* A parent only sleeps on children that exist: one that was never admitted
\* never announces a settlement, so that nobody would wake the parent, whatever
\* the Attempt or the repair that put it to sleep had read before.
SleepsOnChildren ==
  sub[Root].state = "suspended" =>
    sub[Root].waiting.on # {} /\ \A c \in sub[Root].waiting.on : L!Present(c)

\* A reservation only moves on: its accounting is frozen once, it is released
\* once and after that, and it keeps the child it was attached to.
Frozen ==
  \A c \in Call :
    /\ row[c].accounting # None => row'[c].accounting = row[c].accounting
    /\ row[c].status = "released" => row'[c] = row[c]
    /\ row'[c].status = "released" => row'[c].accounting # None
    /\ row[c].child => row'[c].child
DecisionsAreFrozen == [][Frozen]_vars
=============================================================================
