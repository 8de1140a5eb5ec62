-------------------------- MODULE ConversationLog --------------------------
(***************************************************************************)
(* What a conversation promises its readers: it is a log to which whole    *)
(* groups are appended, each under a key that is never used again, and     *)
(* which is only ever lost as a whole.  No call, mutex, transaction or     *)
(* failure is in sight.                                                    *)
(***************************************************************************)
EXTENDS Integers, Sequences

CONSTANTS Investigations, Keys, LastDataset

VARIABLES
  present,  \* [Investigations -> whether it exists]
  log       \* [Investigations -> ordinal -> message]

logVars == <<present, log>>

\* The length of the log of an Investigation: its ordinals are those below it.
IsLength(i, n) == DOMAIN log[i] = 0..(n - 1)
Lengths(i) == {n \in {0} \cup {o + 1 : o \in DOMAIN log[i]} : IsLength(i, n)}

Used(i, k) == \E o \in DOMAIN log[i] : log[i][o].key = k

Init ==
  /\ present = [i \in Investigations |-> TRUE]
  /\ log = [i \in Investigations |-> <<>>]

\* A log of length n with one group more.
Extended(i, n, k, roles, about) ==
  [o \in 0..(n + Len(roles) - 1) |->
     IF o < n THEN log[i][o]
     ELSE [key |-> k, role |-> roles[o - n + 1],
           about |-> IF roles[o - n + 1] = "agent" THEN about ELSE 0]]

AppendGroup(i, k, roles, about) ==
  \E n \in Lengths(i) :
    /\ present[i] /\ ~Used(i, k)
    /\ log' = [log EXCEPT ![i] = Extended(i, n, k, roles, about)]
    /\ UNCHANGED present

Delete(i) ==
  /\ present[i]
  /\ present' = [present EXCEPT ![i] = FALSE]
  /\ log' = [log EXCEPT ![i] = <<>>]

Next ==
  \E i \in Investigations :
    \/ Delete(i)
    \/ \E about \in 0..LastDataset :
         \/ \E k \in Keys, outcome \in {"agent", "system"} :
              AppendGroup(i, k, <<"user", outcome>>, about)
         \/ \E d \in 1..LastDataset : AppendGroup(i, <<"summary", d>>, <<"agent">>, about)

Spec == Init /\ [][Next]_logVars
=============================================================================
