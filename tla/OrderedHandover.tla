--------------------------- MODULE OrderedHandover ---------------------------
(***************************************************************************)
(* What retained delivery promises about a sequence of messages: each is    *)
(* taken over at most once, none before every earlier one is decided by a   *)
(* Receipt or a refusal, a decision is never revised, and a message ends    *)
(* only after it was taken over.                                            *)
(***************************************************************************)
EXTENDS Sequences, Integers

CONSTANT Message

VARIABLES
  sent,     \* messages in the order they were accepted
  taken,    \* messages the destination has taken over
  verdict,  \* what the sender knows
  ended     \* messages the sender knows to be settled

vars == <<sent, taken, verdict, ended>>

Position(m) == {i \in 1..Len(sent) : sent[i] = m}
Unblocked(m) ==
  \E i \in Position(m) : \A j \in 1..(i - 1) : verdict[sent[j]] # "open"

Init ==
  /\ sent = <<>> /\ taken = {} /\ ended = {}
  /\ verdict = [m \in Message |-> "open"]

Accept(m) ==
  /\ Position(m) = {}
  /\ sent' = Append(sent, m)
  /\ UNCHANGED <<taken, verdict, ended>>
Take(m) ==
  /\ m \notin taken /\ Unblocked(m)
  /\ taken' = taken \cup {m}
  /\ UNCHANGED <<sent, verdict, ended>>
Learn(m) ==
  /\ m \in taken /\ verdict[m] = "open"
  /\ verdict' = [verdict EXCEPT ![m] = "receipt"]
  /\ UNCHANGED <<sent, taken, ended>>
Refuse(m) ==
  /\ Unblocked(m) /\ verdict[m] = "open"
  /\ verdict' = [verdict EXCEPT ![m] = "refused"]
  /\ UNCHANGED <<sent, taken, ended>>
End(m) ==
  /\ m \in taken \ ended /\ verdict[m] # "refused"
  /\ verdict' = [verdict EXCEPT ![m] = "receipt"]
  /\ ended' = ended \cup {m}
  /\ UNCHANGED <<sent, taken>>

Next == \E m \in Message : Accept(m) \/ Take(m) \/ Learn(m) \/ Refuse(m) \/ End(m)
Spec == Init /\ [][Next]_vars
=============================================================================
