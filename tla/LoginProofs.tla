----------------------------- MODULE LoginProofs -----------------------------
(***************************************************************************)
(* What Login promises, for any number of requests, links and points of    *)
(* time and for every budget and life span.  The inductive invariants:     *)
(*                                                                         *)
(*   OnePlace        a link is in one place at a time, so that it reaches  *)
(*                   the sessions once;                                    *)
(*   KeptLongEnough  a revoked token stays registered until it expires;    *)
(*   QueueIsRecent   the limiter's queue holds the latest attempts, and    *)
(*                   what it has forgotten is a window old.                *)
(***************************************************************************)
EXTENDS Login, SequenceTheorems, TLAPS

USE LoginAssumption DEF LoginAssumption

----------------------------------------------------------------------------
\* Types.

LEMMA TypeInit == Init => TypeOK
BY DEF Init, TypeOK, None, Idle, Entry, Steps

LEMMA QueueType ==
    ASSUME TypeOK PROVE Admitted \in Seq(Nat)
<1>1. CASE Len(attempts) < Attempts
  BY <1>1 DEF Admitted, TypeOK
<1>2. CASE ~(Len(attempts) < Attempts)
  <2>1. attempts \in Seq(Nat) /\ attempts # <<>> /\ now \in Nat
    BY <1>2 DEF TypeOK
  <2>2. Tail(attempts) \in Seq(Nat)
    BY <2>1
  <2> QED BY <1>2, <2>1, <2>2 DEF Admitted
<1> QED BY <1>1, <1>2

ClientOK ==
    /\ client \in [Clients -> [step : Steps, link : Links \cup {"none"}]]
    /\ \A c \in Clients :
          client[c].step \in {"found", "confirmed", "entering"} => client[c].link \in Links

LEMMA SetType ==
    ASSUME ClientOK, NEW c \in Clients, NEW step \in Steps, NEW link \in Links \cup {"none"},
           step = "mailing" \/ link \in Links, Set(c, step, link)
    PROVE  ClientOK'
<1>1. client' = [client EXCEPT ![c] = [step |-> step, link |-> link]]
  BY DEF Set
<1>2. client' \in [Clients -> [step : Steps, link : Links \cup {"none"}]]
  BY <1>1 DEF ClientOK
<1>3. ASSUME NEW d \in Clients, client'[d].step \in {"found", "confirmed", "entering"}
      PROVE  client'[d].link \in Links
  BY <1>1, <1>3 DEF ClientOK
<1> QED BY <1>2, <1>3 DEF ClientOK

LEMMA LeaveType ==
    ASSUME ClientOK, NEW c \in Clients, Leave(c)
    PROVE  ClientOK'
<1>1. client' = [client EXCEPT ![c] = Idle] /\ Idle \in [step : Steps, link : Links \cup {"none"}]
  BY DEF Leave, Idle, Steps
<1>2. client' \in [Clients -> [step : Steps, link : Links \cup {"none"}]]
  BY <1>1 DEF ClientOK
<1>3. ASSUME NEW d \in Clients, client'[d].step \in {"found", "confirmed", "entering"}
      PROVE  client'[d].link \in Links
  BY <1>1, <1>3 DEF ClientOK, Idle
<1> QED BY <1>2, <1>3 DEF ClientOK

LEMMA TypeStep == TypeOK /\ [Next]_vars => TypeOK'
<1> SUFFICES ASSUME TypeOK, [Next]_vars PROVE TypeOK'
  OBVIOUS
<1>a. ClientOK
  BY DEF TypeOK, ClientOK
<1>1. ASSUME NEW c \in Clients, TryPassword(c) PROVE TypeOK'
  <2>1. attempts' \in Seq(Nat) /\ guesses' \in Seq(Nat)
    BY <1>1, QueueType DEF TryPassword, TypeOK
  <2>2. ClientOK'
    <3>1. CASE Set(c, "mailing", "none")
      BY <3>1, <1>a, SetType DEF Steps
    <3>2. CASE UNCHANGED client
      BY <3>2, <1>a DEF ClientOK
    <3> QED BY <1>1, <3>1, <3>2 DEF TryPassword
  <2> QED BY <1>1, <2>1, <2>2 DEF TryPassword, TypeOK, ClientOK
<1>2. ASSUME NEW c \in Clients, Mail(c) PROVE TypeOK'
  BY <1>2 DEF Mail, Leave, Idle, Entry, Steps, TypeOK
<1>3. ASSUME NEW c \in Clients, NEW link \in mailed, Follow(c, link) PROVE TypeOK'
  BY <1>3 DEF Follow, Set, Steps, TypeOK
<1>4. ASSUME NEW c \in Clients, Confirm(c) PROVE TypeOK'
  <2>1. client[c].link \in Links
    BY <1>4 DEF Confirm, TypeOK
  <2>2. ClientOK'
    <3>1. CASE Set(c, "confirmed", client[c].link)
      BY <3>1, <2>1, <1>a, SetType DEF Steps
    <3>2. CASE Leave(c)
      BY <3>2, <1>a, LeaveType
    <3> QED BY <1>4, <3>1, <3>2 DEF Confirm
  <2>3. challenge' \in Entry
    BY <1>4 DEF Confirm, None, Entry, TypeOK
  <2> QED BY <1>4, <2>2, <2>3 DEF Confirm, TypeOK, ClientOK
<1>5. ASSUME NEW c \in Clients, Redirect(c) PROVE TypeOK'
  BY <1>5 DEF Redirect, Leave, Idle, Entry, Steps, TypeOK
<1>6. ASSUME NEW c \in Clients, NEW link \in given, Exchange(c, link) PROVE TypeOK'
  <2>1. link \in Links
    BY DEF TypeOK
  <2>2. ClientOK'
    <3>1. CASE Set(c, "entering", link)
      BY <3>1, <2>1, <1>a, SetType DEF Steps
    <3>2. CASE UNCHANGED client
      BY <3>2, <1>a DEF ClientOK
    <3> QED BY <1>6, <3>1, <3>2 DEF Exchange
  <2>3. exchange' \in Entry
    BY <1>6 DEF Exchange, None, Entry, TypeOK
  <2> QED BY <1>6, <2>2, <2>3 DEF Exchange, TypeOK, ClientOK
<1>7. ASSUME NEW c \in Clients, Enter(c) PROVE TypeOK'
  <2>1. ClientOK'
    BY <1>7, <1>a, LeaveType DEF Enter
  <2>2. sessions' \in Seq([link : Links, expireAt : Nat]) /\ DOMAIN sessions \subseteq DOMAIN sessions'
    <3>1. CASE UNCHANGED sessions
      BY <3>1 DEF TypeOK
    <3>2. CASE sessions' = Append(sessions, [link |-> client[c].link, expireAt |-> now + TokenLife])
      <4>1. [link |-> client[c].link, expireAt |-> now + TokenLife] \in [link : Links, expireAt : Nat]
        BY <1>7 DEF Enter, TypeOK
      <4>2. sessions \in Seq([link : Links, expireAt : Nat])
        BY DEF TypeOK
      <4> QED BY <3>2, <4>1, <4>2
    <3> QED BY <1>7, <3>1, <3>2 DEF Enter
  <2> QED BY <1>7, <2>1, <2>2 DEF Enter, TypeOK, ClientOK
<1>8. ASSUME NEW k \in DOMAIN sessions, Logout(k) PROVE TypeOK'
  BY <1>8 DEF Logout, TypeOK
<1>13. ASSUME NEW k \in DOMAIN sessions, Revoke(k) PROVE TypeOK'
  BY <1>13 DEF Revoke, KeptUntil, TypeOK
<1>9. CASE Forget
  BY <1>9 DEF Forget, TypeOK
<1>10. CASE Tick
  BY <1>10 DEF Tick, TypeOK
<1>11. CASE Restart
  BY <1>11 DEF Restart, None, Idle, Entry, Steps, TypeOK
<1>12. CASE UNCHANGED vars
  BY <1>12 DEF vars, TypeOK
<1> QED
  BY <1>1, <1>2, <1>3, <1>4, <1>5, <1>6, <1>7, <1>8, <1>9, <1>10, <1>11, <1>12, <1>13 DEF Next

\* Every value keeps its type.
THEOREM TypeCorrect == Spec => []TypeOK
BY TypeInit, TypeStep, PTL DEF Spec

----------------------------------------------------------------------------
\* The budget of attempts.

QueueIsRecent ==
    LET m == Len(attempts)
        n == Len(guesses)
    IN  /\ m <= Attempts /\ m <= n
        /\ \A i \in 1..m : attempts[i] = guesses[n - m + i]
        /\ \A i \in 1..n : guesses[i] <= now
        /\ \A i, j \in 1..n : i <= j => guesses[i] <= guesses[j]
        /\ m < Attempts => \A i \in 1..(n - m) :
              /\ guesses[i] + Window <= now
              /\ \A j \in (n - m + 1)..n : guesses[i] + Window <= guesses[j]

\* What a further attempt does to the history.
LEMMA AttemptKeepsBudget ==
    ASSUME TypeOK, QueueIsRecent, GuessesWithinBudget, NEW c \in Clients, TryPassword(c)
    PROVE  QueueIsRecent' /\ GuessesWithinBudget'
<1> DEFINE m == Len(attempts)
           n == Len(guesses)
<1>1. /\ attempts \in Seq(Nat) /\ guesses \in Seq(Nat) /\ now \in Nat
      /\ m \in Nat /\ n \in Nat /\ Attempts \in Nat \ {0} /\ Window \in Nat
  BY DEF TypeOK
<1>2. /\ now' = now /\ Len(guesses') = n + 1
      /\ guesses'[n + 1] = now
      /\ \A i \in 1..n : guesses'[i] = guesses[i]
  BY <1>1 DEF TryPassword
<1> HIDE DEF m, n
<1>a. /\ m <= Attempts /\ m <= n
      /\ \A i \in 1..m : attempts[i] = guesses[n - m + i]
      /\ \A i \in 1..n : guesses[i] <= now /\ guesses[i] \in Nat
      /\ \A i, j \in 1..n : i <= j => guesses[i] <= guesses[j]
      /\ m < Attempts => \A i \in 1..(n - m) :
            /\ guesses[i] + Window <= now
            /\ \A j \in (n - m + 1)..n : guesses[i] + Window <= guesses[j]
  BY <1>1 DEF QueueIsRecent, m, n
<1>b. \A j \in 1..(n - Attempts) : guesses[j + Attempts] - guesses[j] >= Window
  BY DEF GuessesWithinBudget, n
<1>c. \A i \in 1..(n + 1) : guesses'[i] <= now'
  <2> TAKE i \in 1..(n + 1)
  <2>1. i = n + 1 \/ i \in 1..n
    BY <1>1
  <2>2. CASE i = n + 1
    BY <2>2, <1>1, <1>2
  <2>3. CASE i \in 1..n
    BY <2>3, <1>2, <1>a
  <2> QED BY <2>1, <2>2, <2>3
<1>d. \A i, j \in 1..(n + 1) : i <= j => guesses'[i] <= guesses'[j]
  <2> TAKE i, j \in 1..(n + 1)
  <2> HAVE i <= j
  <2>1. CASE j = n + 1
    BY <2>1, <1>c, <1>1, <1>2
  <2>2. CASE i \in 1..n /\ j \in 1..n
    BY <2>2, <1>2, <1>a
  <2> QED BY <2>1, <2>2, <1>1
<1>3. CASE m < Attempts
  <2>1. /\ attempts' = Append(attempts, now) /\ Len(attempts') = m + 1
        /\ attempts'[m + 1] = now
        /\ \A i \in 1..m : attempts'[i] = attempts[i]
    BY <1>1, <1>3 DEF TryPassword, Admitted, m
  <2>2. \A i \in 1..(m + 1) : attempts'[i] = guesses'[(n + 1) - (m + 1) + i]
    <3> TAKE i \in 1..(m + 1)
    <3>1. CASE i = m + 1
      BY <3>1, <2>1, <1>2, <1>1
    <3>2. CASE i \in 1..m
      <4>1. (n + 1) - (m + 1) + i = n - m + i /\ n - m + i \in 1..n
        BY <3>2, <1>1, <1>a
      <4> QED BY <3>2, <4>1, <2>1, <1>2, <1>a
    <3>3. i = m + 1 \/ i \in 1..m
      BY <1>1
    <3> QED BY <3>1, <3>2, <3>3
  <2>3. \A i \in 1..((n + 1) - (m + 1)) :
            /\ guesses'[i] + Window <= now'
            /\ \A j \in ((n + 1) - (m + 1) + 1)..(n + 1) : guesses'[i] + Window <= guesses'[j]
    <3> TAKE i \in 1..((n + 1) - (m + 1))
    <3>1. i \in 1..(n - m) /\ i \in 1..n
      BY <1>1, <1>a
    <3>2. guesses'[i] + Window <= now'
      BY <3>1, <1>2, <1>3, <1>a
    <3>3. ASSUME NEW j \in ((n + 1) - (m + 1) + 1)..(n + 1) PROVE guesses'[i] + Window <= guesses'[j]
      <4>1. CASE j = n + 1
        BY <4>1, <3>2, <1>2
      <4>2. CASE j \in (n - m + 1)..n
        <5>1. j \in 1..n
          BY <4>2, <1>1, <1>a
        <5> QED BY <5>1, <4>2, <3>1, <1>2, <1>3, <1>a
      <4> QED BY <4>1, <4>2, <1>1, <1>a
    <3> QED BY <3>2, <3>3
  <2>4. QueueIsRecent'
    <3>1. Len(attempts') <= Attempts /\ Len(attempts') <= Len(guesses')
      BY <1>1, <1>2, <1>3, <1>a, <2>1
    <3> QED BY <3>1, <1>2, <1>c, <1>d, <2>1, <2>2, <2>3 DEF QueueIsRecent
  <2>5. ASSUME NEW j \in 1..((n + 1) - Attempts) PROVE guesses'[j + Attempts] - guesses'[j] >= Window
    <3>1. j \in 1..n /\ j + Attempts \in 1..(n + 1) /\ j \in 1..(n - m)
      BY <1>1, <1>3, <1>a
    <3>2. CASE j + Attempts = n + 1
      <4>1. guesses[j] + Window <= now /\ guesses[j] \in Nat
        BY <3>1, <1>3, <1>a
      <4>2. guesses'[j + Attempts] = now /\ guesses'[j] = guesses[j]
        BY <3>1, <3>2, <1>2
      <4> QED BY <4>1, <4>2, <1>1
    <3>3. CASE j \in 1..(n - Attempts) /\ j + Attempts \in 1..n
      BY <3>1, <3>3, <1>2, <1>b
    <3> QED BY <3>1, <3>2, <3>3, <1>1
  <2> QED BY <2>4, <2>5, <1>2 DEF GuessesWithinBudget
<1>4. CASE m = Attempts
  <2>1. attempts # <<>> /\ Len(attempts) = m
    BY <1>1, <1>4 DEF m
  <2>2. /\ Tail(attempts) \in Seq(Nat) /\ Len(Tail(attempts)) = m - 1
        /\ \A i \in 1..(m - 1) : Tail(attempts)[i] = attempts[i + 1]
    BY <1>1, <2>1
  <2>3. attempts' = Append(Tail(attempts), now)
    BY <1>1, <1>4, <2>1 DEF TryPassword, Admitted
  <2>4. /\ Len(attempts') = m
        /\ attempts'[m] = now
        /\ \A i \in 1..(m - 1) : attempts'[i] = attempts[i + 1]
    BY <1>1, <2>1, <2>2, <2>3
  <2>5. \A i \in 1..m : attempts'[i] = guesses'[(n + 1) - m + i]
    <3> TAKE i \in 1..m
    <3>1. CASE i = m
      BY <3>1, <2>4, <1>2, <1>1
    <3>2. CASE i \in 1..(m - 1)
      <4>1. /\ (n + 1) - m + i = n - m + (i + 1) /\ i + 1 \in 1..m
            /\ n - m + (i + 1) \in 1..n
        BY <3>2, <1>1, <1>a
      <4> QED BY <3>2, <4>1, <2>4, <1>2, <1>a
    <3> QED BY <3>1, <3>2, <1>1
  <2>6. QueueIsRecent'
    <3>1. Len(attempts') <= Attempts /\ Len(attempts') <= Len(guesses') /\ ~(Len(attempts') < Attempts)
      BY <1>1, <1>2, <1>4, <1>a, <2>4
    <3> QED BY <3>1, <1>2, <1>c, <1>d, <2>4, <2>5 DEF QueueIsRecent
  <2>7. now - attempts[1] >= Window
    BY <1>1, <1>4, <2>1 DEF TryPassword, Allowed
  <2>8. ASSUME NEW j \in 1..((n + 1) - Attempts) PROVE guesses'[j + Attempts] - guesses'[j] >= Window
    <3>1. j \in 1..n /\ j + Attempts \in 1..(n + 1)
      BY <1>1, <1>4, <1>a
    <3>2. CASE j + Attempts = n + 1
      <4>1. j = n - m + 1 /\ 1 \in 1..m
        BY <3>2, <1>1, <1>4
      <4>2. attempts[1] = guesses[j]
        BY <4>1, <1>a
      <4> QED BY <3>1, <3>2, <4>2, <2>7, <1>2
    <3>3. CASE j \in 1..(n - Attempts) /\ j + Attempts \in 1..n
      BY <3>1, <3>3, <1>2, <1>b
    <3> QED BY <3>1, <3>2, <3>3, <1>1
  <2> QED BY <2>6, <2>8, <1>2 DEF GuessesWithinBudget
<1> QED BY <1>1, <1>3, <1>4, <1>a

LEMMA BudgetStep ==
    TypeOK /\ QueueIsRecent /\ GuessesWithinBudget /\ [Next]_vars
        => QueueIsRecent' /\ GuessesWithinBudget'
<1> SUFFICES ASSUME TypeOK, QueueIsRecent, GuessesWithinBudget, [Next]_vars
             PROVE  QueueIsRecent' /\ GuessesWithinBudget'
  OBVIOUS
<1>1. ASSUME NEW c \in Clients, TryPassword(c) PROVE QueueIsRecent' /\ GuessesWithinBudget'
  BY <1>1, AttemptKeepsBudget
<1>2. CASE Forget
  <2>1. /\ attempts' = <<>> /\ Len(attempts') = 0 /\ UNCHANGED <<now, guesses>>
        /\ now \in Nat /\ guesses \in Seq(Nat) /\ attempts \in Seq(Nat)
        /\ Len(attempts) > 0 /\ now - attempts[Len(attempts)] > Window
    BY <1>2 DEF Forget, TypeOK
  <2>2. attempts[Len(attempts)] = guesses[Len(guesses)] /\ Len(guesses) > 0
    BY <2>1 DEF QueueIsRecent
  <2>3. \A i \in 1..Len(guesses) : guesses[i] <= guesses[Len(guesses)] /\ guesses[i] \in Nat
    <3> TAKE i \in 1..Len(guesses)
    <3>a. Len(guesses) \in Nat
      BY <2>1
    <3>1. Len(guesses) \in 1..Len(guesses) /\ i <= Len(guesses)
      BY <3>a, <2>2
    <3>2. guesses[i] <= guesses[Len(guesses)]
      BY <3>1 DEF QueueIsRecent
    <3>3. guesses[i] \in Nat
      BY <2>1
    <3> QED BY <3>2, <3>3
  <2>4. \A i \in 1..Len(guesses) : guesses[i] + Window <= now
    BY <2>1, <2>2, <2>3
  <2>5. \A i \in 1..Len(guesses) : guesses[i] <= now
    BY DEF QueueIsRecent
  <2>6. \A i, j \in 1..Len(guesses) : i <= j => guesses[i] <= guesses[j]
    BY DEF QueueIsRecent
  <2>7. Len(guesses) \in Nat /\ (Len(guesses) - 0 + 1)..Len(guesses) = {}
    BY <2>1
  <2>8. QueueIsRecent'
    BY <2>1, <2>4, <2>5, <2>6, <2>7 DEF QueueIsRecent
  <2> QED BY <2>1, <2>8 DEF GuessesWithinBudget
<1>3. CASE Tick
  <2>1. UNCHANGED <<attempts, guesses>> /\ now' = now + 1 /\ now \in Nat
        /\ guesses \in Seq(Nat) /\ attempts \in Seq(Nat)
    BY <1>3 DEF Tick, TypeOK
  <2>2. \A i \in 1..Len(guesses) : guesses[i] \in Nat
    BY <2>1
  <2>3. ASSUME NEW i \in 1..Len(guesses), guesses[i] <= now PROVE guesses[i] <= now'
    BY <2>1, <2>2, <2>3
  <2>4. ASSUME NEW i \in 1..Len(guesses), guesses[i] + Window <= now PROVE guesses[i] + Window <= now'
    BY <2>1, <2>2, <2>4
  <2>5. Len(attempts) \in Nat /\ Len(guesses) \in Nat
    BY <2>1
  <2>6. Len(attempts) <= Len(guesses) => 1..(Len(guesses) - Len(attempts)) \subseteq 1..Len(guesses)
    BY <2>5
  <2>7. QueueIsRecent'
    BY <2>1, <2>3, <2>4, <2>6 DEF QueueIsRecent
  <2> QED BY <2>1, <2>7 DEF GuessesWithinBudget
<1>4. CASE Restart
  <2>1. attempts' = <<>> /\ guesses' = <<>> /\ Len(attempts') = 0 /\ Len(guesses') = 0
    BY <1>4 DEF Restart
  <2> QED BY <2>1 DEF QueueIsRecent, GuessesWithinBudget
<1>5. ASSUME UNCHANGED <<now, attempts, guesses>> PROVE QueueIsRecent' /\ GuessesWithinBudget'
  BY <1>5 DEF QueueIsRecent, GuessesWithinBudget
<1> QED
  BY <1>1, <1>2, <1>3, <1>4, <1>5
  DEF Next, vars, Mail, Follow, Confirm, Redirect, Exchange, Enter, Logout, Revoke

\* No more than Attempts passwords are tried within a window, for every budget
\* and window, whenever clearExpiredItems runs (middleware/limiter.go).
THEOREM BudgetHolds == Spec => []GuessesWithinBudget
<1>1. Init => QueueIsRecent /\ GuessesWithinBudget
  BY DEF Init, QueueIsRecent, GuessesWithinBudget
<1> QED BY <1>1, TypeInit, TypeStep, BudgetStep, PTL DEF Spec

----------------------------------------------------------------------------
\* Revocation.

KeptLongEnough ==
    /\ \A k \in DOMAIN sessions : sessions[k].expireAt <= now + TokenLife
    /\ \A k \in loggedOut :
          \/ sessions[k].expireAt <= now
          \/ k \in DOMAIN revoked /\ sessions[k].expireAt <= revoked[k]

LEMMA SessionType ==
    ASSUME TypeOK, NEW k \in DOMAIN sessions PROVE sessions[k] \in [link : Links, expireAt : Nat]
<1>1. sessions \in Seq([link : Links, expireAt : Nat])
  BY DEF TypeOK
<1>2. k \in 1..Len(sessions)
  BY <1>1
<1> QED BY <1>1, <1>2, ElementOfSeq

LEMMA KeptStep == TypeOK /\ KeptLongEnough /\ [Next]_vars => KeptLongEnough'
<1> SUFFICES ASSUME TypeOK, KeptLongEnough, [Next]_vars PROVE KeptLongEnough'
  OBVIOUS
<1>a. /\ now \in Nat /\ TokenLife \in Nat
      /\ sessions \in Seq([link : Links, expireAt : Nat])
      /\ \A k \in DOMAIN sessions : sessions[k].expireAt \in Nat
      /\ loggedOut \subseteq DOMAIN sessions
  BY SessionType DEF TypeOK
<1>b. \A k \in DOMAIN revoked : revoked[k] \in Nat
  <2>1. revoked \in [DOMAIN revoked -> Nat]
    BY DEF TypeOK
  <2> QED BY <2>1
<1>1. ASSUME NEW c \in Clients, Enter(c) PROVE KeptLongEnough'
  <2>1. CASE UNCHANGED sessions
    BY <1>1, <2>1 DEF Enter, KeptLongEnough
  <2>2. CASE sessions' = Append(sessions, [link |-> client[c].link, expireAt |-> now + TokenLife])
    <3>1. /\ DOMAIN sessions' = DOMAIN sessions \cup {Len(sessions) + 1}
          /\ \A k \in DOMAIN sessions : sessions'[k] = sessions[k]
          /\ sessions'[Len(sessions) + 1].expireAt = now + TokenLife
      BY <1>a, <2>2
    <3> QED BY <1>1, <1>a, <3>1 DEF Enter, KeptLongEnough
  <2> QED BY <1>1, <2>1, <2>2 DEF Enter
<1>2. ASSUME NEW k \in DOMAIN sessions, Revoke(k) PROVE KeptLongEnough'
  <2> DEFINE entries == [j \in DOMAIN revoked \cup {k} |-> IF j = k THEN KeptUntil ELSE revoked[j]]
  <2>1. /\ UNCHANGED <<now, sessions>> /\ loggedOut' = loggedOut \cup {k}
        /\ revoked' = [j \in {i \in DOMAIN entries : now <= entries[i]} |-> entries[j]]
    BY <1>2 DEF Revoke
  <2>2. entries[k] = now + TokenLife /\ sessions[k].expireAt <= now + TokenLife
        /\ \A j \in DOMAIN revoked : j # k => entries[j] = revoked[j]
    BY DEF KeptUntil, KeptLongEnough
  <2>3. ASSUME NEW j \in loggedOut'
        PROVE  (sessions[j].expireAt <= now)
               \/ (j \in DOMAIN revoked' /\ sessions[j].expireAt <= revoked'[j])
    <3>1. CASE j = k
      BY <3>1, <2>1, <2>2, <1>a
    <3>2. CASE j # k
      <4>1. j \in loggedOut /\ j \in DOMAIN sessions /\ sessions[j].expireAt \in Nat
        BY <3>2, <2>1, <1>a
      <4>2. CASE sessions[j].expireAt <= now
        BY <4>1, <4>2, <1>a
      <4>3. CASE j \in DOMAIN revoked /\ sessions[j].expireAt <= revoked[j] /\ now < sessions[j].expireAt
        <5>1. entries[j] = revoked[j] /\ revoked[j] \in Nat /\ j \in DOMAIN entries
          BY <4>3, <3>2, <2>2, <1>b
        <5>2. now <= entries[j]
          BY <5>1, <4>3, <4>1, <1>a
        <5>3. j \in DOMAIN revoked' /\ revoked'[j] = revoked[j]
          BY <5>1, <5>2, <2>1
        <5> QED BY <5>3, <4>3
      <4> QED BY <4>1, <4>2, <4>3, <1>a DEF KeptLongEnough
    <3> QED BY <3>1, <3>2
  <2> QED BY <2>1, <2>3 DEF KeptLongEnough
<1>3. CASE Tick
  BY <1>3, <1>a DEF Tick, KeptLongEnough
<1>4. CASE Restart
  BY <1>4 DEF Restart, KeptLongEnough
<1>5. ASSUME UNCHANGED <<now, sessions, revoked, loggedOut>> PROVE KeptLongEnough'
  BY <1>5 DEF KeptLongEnough
<1> QED
  BY <1>1, <1>2, <1>3, <1>4, <1>5
  DEF Next, vars, TryPassword, Mail, Follow, Confirm, Redirect, Exchange, Logout, Forget

\* A token that was logged out is not accepted again by the process that
\* revoked it, for every life span (auth/token_mgr.go:25-59).
THEOREM RevocationHolds == Spec => []LoggedOutStaysOut
<1>1. Init => KeptLongEnough
  BY DEF Init, KeptLongEnough
<1>2. TypeOK /\ KeptLongEnough => LoggedOutStaysOut
  <2> SUFFICES ASSUME TypeOK, KeptLongEnough, NEW k \in loggedOut PROVE ~Accepted(k)
    BY DEF LoggedOutStaysOut
  <2>1. now \in Nat /\ sessions[k].expireAt \in Nat
    <3>1. k \in DOMAIN sessions /\ now \in Nat
      BY DEF TypeOK
    <3> QED BY <3>1, SessionType
  <2> QED BY <2>1 DEF KeptLongEnough, Accepted
<1> QED BY <1>1, <1>2, TypeInit, TypeStep, KeptStep, PTL DEF Spec

----------------------------------------------------------------------------
\* One session for a link.

Holds(c) == client[c].step \in {"confirmed", "entering"}

OnePlace ==
    /\ {challenge.link, exchange.link} \subseteq mailed \cup {"none"}
    /\ challenge.link = exchange.link => challenge.link = "none"
    /\ \A c \in Clients : Holds(c) =>
          client[c].link \in mailed \ {challenge.link, exchange.link}
    /\ \A c, d \in Clients : Holds(c) /\ Holds(d) /\ client[c].link = client[d].link => c = d
    /\ \A k \in DOMAIN sessions : sessions[k].link \in mailed \ {challenge.link, exchange.link}
    /\ \A k \in DOMAIN sessions, c \in Clients : Holds(c) => sessions[k].link # client[c].link
    /\ OneSessionPerLink

LEMMA OnePlaceStep == TypeOK /\ OnePlace /\ [Next]_vars => OnePlace'
<1> SUFFICES ASSUME TypeOK, OnePlace, [Next]_vars PROVE OnePlace'
  OBVIOUS
<1>a. /\ client \in [Clients -> [step : Steps, link : Links \cup {"none"}]]
      /\ mailed \subseteq Links /\ "none" \notin Links
  BY DEF TypeOK
<1>1. ASSUME NEW c \in Clients, TryPassword(c) PROVE OnePlace'
  <2>1. UNCHANGED <<challenge, exchange, mailed, sessions>>
    BY <1>1 DEF TryPassword
  <2>2. CASE Set(c, "mailing", "none")
    BY <2>1, <2>2, <1>a DEF Set, OnePlace, Holds, OneSessionPerLink
  <2>3. CASE UNCHANGED client
    BY <2>1, <2>3 DEF OnePlace, Holds, OneSessionPerLink
  <2> QED BY <1>1, <2>2, <2>3 DEF TryPassword
<1>2. ASSUME NEW c \in Clients, Mail(c) PROVE OnePlace'
  BY <1>2, <1>a DEF Mail, Leave, Idle, OnePlace, Holds, OneSessionPerLink
<1>3. ASSUME NEW c \in Clients, NEW link \in mailed, Follow(c, link) PROVE OnePlace'
  BY <1>3, <1>a DEF Follow, Set, OnePlace, Holds, OneSessionPerLink
<1>4. ASSUME NEW c \in Clients, Confirm(c) PROVE OnePlace'
  <2>1. UNCHANGED <<exchange, mailed, sessions>> /\ client[c].step = "found"
    BY <1>4 DEF Confirm
  <2>2. CASE challenge.link = client[c].link /\ challenge' = None
             /\ Set(c, "confirmed", client[c].link)
    <3>1. client[c].link \in mailed /\ client[c].link # "none"
      BY <2>1, <2>2, <1>a DEF OnePlace, TypeOK
    <3> QED BY <2>1, <2>2, <3>1, <1>a DEF Set, None, OnePlace, Holds, OneSessionPerLink
  <2>3. CASE UNCHANGED challenge /\ Leave(c)
    BY <2>1, <2>3, <1>a DEF Leave, Idle, OnePlace, Holds, OneSessionPerLink
  <2> QED BY <1>4, <2>2, <2>3 DEF Confirm
<1>5. ASSUME NEW c \in Clients, Redirect(c) PROVE OnePlace'
  BY <1>5, <1>a DEF Redirect, Leave, Idle, OnePlace, Holds, OneSessionPerLink
<1>6. ASSUME NEW c \in Clients, NEW link \in given, Exchange(c, link) PROVE OnePlace'
  <2>1. UNCHANGED <<challenge, mailed, sessions>> /\ exchange' = None
    BY <1>6 DEF Exchange
  <2>2. CASE exchange.link = link /\ Set(c, "entering", link)
    <3>1. link \in mailed /\ link # "none"
      BY <2>2, <1>a DEF OnePlace, TypeOK
    <3> QED BY <2>1, <2>2, <3>1, <1>a DEF Set, None, OnePlace, Holds, OneSessionPerLink
  <2>3. CASE UNCHANGED client
    BY <2>1, <2>3, <1>a DEF None, OnePlace, Holds, OneSessionPerLink
  <2> QED BY <1>6, <2>2, <2>3 DEF Exchange
<1>7. ASSUME NEW c \in Clients, Enter(c) PROVE OnePlace'
  <2>1. sessions \in Seq([link : Links, expireAt : Nat])
    BY DEF TypeOK
  <2>2. CASE UNCHANGED sessions
    BY <1>7, <2>2, <1>a DEF Enter, Leave, Idle, OnePlace, Holds, OneSessionPerLink
  <2>3. CASE sessions' = Append(sessions, [link |-> client[c].link, expireAt |-> now + TokenLife])
    <3>1. /\ DOMAIN sessions' = DOMAIN sessions \cup {Len(sessions) + 1}
          /\ \A k \in DOMAIN sessions : sessions'[k] = sessions[k]
          /\ sessions'[Len(sessions) + 1].link = client[c].link
      BY <2>1, <2>3
    <3> QED BY <1>7, <3>1, <1>a DEF Enter, Leave, Idle, OnePlace, Holds, OneSessionPerLink
  <2> QED BY <1>7, <2>2, <2>3 DEF Enter
<1>8. CASE Restart
  <2>1. /\ UNCHANGED <<mailed, sessions>>
        /\ challenge'.link = "none" /\ exchange'.link = "none"
        /\ \A c \in Clients : client'[c].step = "idle"
    BY <1>8 DEF Restart, Idle, None
  <2>2. \A k \in DOMAIN sessions : sessions[k].link # "none"
    BY <1>a DEF OnePlace
  <2> QED BY <2>1, <2>2 DEF OnePlace, Holds, OneSessionPerLink
<1>9. ASSUME UNCHANGED <<challenge, exchange, mailed, client, sessions>> PROVE OnePlace'
  BY <1>9 DEF OnePlace, Holds, OneSessionPerLink
<1> QED
  BY <1>1, <1>2, <1>3, <1>4, <1>5, <1>6, <1>7, <1>8, <1>9
  DEF Next, vars, Logout, Revoke, Forget, Tick

\* A link lets one session begin, however many requests race for it and
\* wherever they fail (UrlVerifyLogin, ExchangeToken, controller/user.go).
THEOREM LinkIsUsedOnce == Spec => []OneSessionPerLink
<1>1. Init => OnePlace
  BY DEF Init, None, Idle, OnePlace, Holds, OneSessionPerLink
<1>2. OnePlace => OneSessionPerLink
  BY DEF OnePlace
<1> QED BY <1>1, <1>2, TypeInit, TypeStep, OnePlaceStep, PTL DEF Spec
=============================================================================
