--------------------------- MODULE CollectorProofs ---------------------------
(***************************************************************************)
(* What a collection promises, for every ledger, any scope, any limits and *)
(* budgets and any failures of the provider: it stays within its limits,   *)
(* says truly how it ended, is complete unless it says that it is not, its *)
(* depth is a distance, and the learned score is given the whole history   *)
(* of the target or its cap of transfers.                                  *)
(*                                                                         *)
(*   Charged   what was called and what remains make up the budget;        *)
(*   Honest    a walk that goes on is below the transfer limit, and one    *)
(*             that has collected nothing has found nobody either; what    *)
(*             was published tells the truth;                              *)
(*   Turning   what the pages of an address have given so far;             *)
(*   Layered   the addresses seen are two layers: those within the depth,  *)
(*             all of whose transfers are held unless they are still to be *)
(*             fetched, and those one transfer further.                    *)
(*                                                                         *)
(* Which transfers a page admits is a matter of ranks in a finite order:   *)
(* FirstByKeyBound counts them.  Distances are a recursive function, and   *)
(* facts about them are inductions over the radius.                        *)
(***************************************************************************)
EXTENDS Collector, FiniteFacts

USE CollectorAssumption DEF CollectorAssumption

----------------------------------------------------------------------------
\* Calls and their budget.

Charged ==
    /\ called \in Nat /\ remaining \in Nat
    /\ called + remaining = IF walk = "graph" THEN Budget ELSE ScoreBudget

LEMMA ChargedStep == Charged /\ [Next]_vars => Charged'
<1> SUFFICES ASSUME Charged, [Next]_vars PROVE Charged'
  OBVIOUS
<1>1. ASSUME Spend, walk' = walk PROVE Charged'
  BY <1>1 DEF Charged, Spend
<1>2. ASSUME UNCHANGED <<calls, walk>> PROVE Charged'
  BY <1>2 DEF Charged, calls
<1>3. ASSUME NEW kind, Interrupt(kind) PROVE walk' = walk
  BY <1>3 DEF Interrupt
<1>4. CASE Call
  <2>1. CASE ListAnswered
    BY <1>1, <2>1 DEF ListAnswered
  <2>2. CASE ReceiptAnswered
    BY <1>1, <2>2 DEF ReceiptAnswered
  <2>3. CASE RetryCall
    BY <1>1, <2>3 DEF RetryCall
  <2>4. CASE CallFails
    BY <1>1, <1>3, <2>4 DEF CallFails
  <2>5. CASE BudgetExhausted \/ PagesExhausted
    BY <1>2, <1>3, <2>5 DEF BudgetExhausted, PagesExhausted
  <2> QED BY <1>4, <2>1, <2>2, <2>3, <2>4, <2>5 DEF Call
<1>5. CASE Deadline
  BY <1>2, <1>3, <1>5 DEF Deadline
<1>6. CASE Visit
  BY <1>2, <1>6 DEF Visit, PageCollected, StopAtLimit, FollowCursor, NextAddress, LevelCollected,
                   SourceExhausted, DepthReached, NextDepth
<1>7. CASE BeginOwnHistory
  BY <1>7 DEF BeginOwnHistory, Charged
<1>8. CASE FollowOwnCursor \/ ScoreOwnHistory
  BY <1>2, <1>8 DEF FollowOwnCursor, ScoreOwnHistory, OwnPageCollected
<1>9. CASE UNCHANGED vars
  BY <1>2, <1>9 DEF vars
<1> QED BY <1>4, <1>5, <1>6, <1>7, <1>8, <1>9 DEF Next, Own

\* CallsWithinBudget: receipts and retries included, neither walk sends more
\* calls than withCallBudget allows it.
THEOREM CallsAreBudgeted == Spec => []CallsWithinBudget
<1>1. Init => Charged
  BY DEF Init, Charged
<1>2. Charged => CallsWithinBudget
  BY DEF Charged, CallsWithinBudget
<1> QED BY <1>1, <1>2, ChargedStep, PTL DEF Spec

----------------------------------------------------------------------------
\* The limit of transfers.

LEMMA EventsAreFinite ==
    ASSUME ledger \in Ledgers
    PROVE  /\ IsFiniteSet(Events)
           /\ Events \subseteq Int
           /\ \A e \in Events : ledger[e].tx \in Int
<1>1. IsFiniteSet(Events) /\ Events = 1..Cardinality(Events)
  BY DEF Events
<1>2. Cardinality(Events) \in Nat
  BY <1>1, FS_CardinalityType
<1> QED BY <1>1, <1>2 DEF Events

\* The names of the logs are in a linear order.
LEMMA LogKeys ==
    ASSUME ledger \in Ledgers
    PROVE  \A d, e \in Events : LogKey[e] \in Int /\ (LogKey[d] = LogKey[e] => d = e)
BY LogKeyAssumption DEF LogKeyAssumption, Events

\* How many events of S precede one: they differ in that, for the events before
\* one that precedes another are fewer.
Earlier(S, e) == {x \in S : Precedes(x, e)}

LEMMA EarlierCounts ==
    ASSUME ledger \in Ledgers, NEW S, S \subseteq Events
    PROVE  /\ \A e \in S : IsFiniteSet(Earlier(S, e)) /\ Cardinality(Earlier(S, e)) \in Nat
           /\ \A d, e \in S : Precedes(d, e) => Cardinality(Earlier(S, d)) < Cardinality(Earlier(S, e))
           /\ \A d, e \in S : d = e \/ Precedes(d, e) \/ Precedes(e, d)
<1>1. IsFiniteSet(S) /\ S \subseteq Int /\ \A e \in S : ledger[e].tx \in Int
  BY EventsAreFinite, FS_Subset
<1>2. ASSUME NEW e \in S PROVE IsFiniteSet(Earlier(S, e)) /\ Cardinality(Earlier(S, e)) \in Nat
  <2>1. Earlier(S, e) \in SUBSET S
    BY DEF Earlier
  <2> QED BY ONLY <1>1, <2>1, FS_Subset, FS_CardinalityType
<1>3. \A x, y, z \in S : Precedes(x, y) /\ Precedes(y, z) => Precedes(x, z)
  <2> TAKE x, y, z \in S
  <2> DEFINE i == ledger[x].tx  j == ledger[y].tx  k == ledger[z].tx
             p == LogKey[x]  q == LogKey[y]  r == LogKey[z]
  <2>1. i \in Int /\ j \in Int /\ k \in Int /\ p \in Int /\ q \in Int /\ r \in Int
    BY <1>1, LogKeys
  <2> HIDE DEF i, j, k, p, q, r
  <2>2. (i < j \/ (i = j /\ p < q)) /\ (j < k \/ (j = k /\ q < r)) => i < k \/ (i = k /\ p < r)
    BY ONLY <2>1
  <2> QED BY <2>2 DEF Precedes, i, j, k, p, q, r
<1>4. \A x, y \in S : ~Precedes(x, x) /\ (x = y \/ Precedes(x, y) \/ Precedes(y, x))
  <2> TAKE x, y \in S
  <2> DEFINE i == ledger[x].tx  j == ledger[y].tx
             p == LogKey[x]  q == LogKey[y]
  <2>1. i \in Int /\ j \in Int /\ p \in Int /\ q \in Int /\ (p = q => x = y)
    BY <1>1, LogKeys
  <2> HIDE DEF i, j, p, q
  <2>2. ~(i < i \/ (i = i /\ p < p)) /\ (x = y \/ i < j \/ (i = j /\ p < q) \/ j < i \/ (j = i /\ q < p))
    BY ONLY <2>1
  <2> QED BY <2>2 DEF Precedes, i, j, p, q
<1>5. ASSUME NEW d \in S, NEW e \in S, Precedes(d, e)
      PROVE  Cardinality(Earlier(S, d)) < Cardinality(Earlier(S, e))
  <2>1. Earlier(S, d) \subseteq Earlier(S, e)
    BY <1>3, <1>5 DEF Earlier
  <2>2. d \in Earlier(S, e) /\ d \notin Earlier(S, d)
    BY <1>4, <1>5 DEF Earlier
  <2>3. Earlier(S, d) # Earlier(S, e)
    BY <2>2
  <2>4. IsFiniteSet(Earlier(S, d)) /\ Cardinality(Earlier(S, d)) \in Nat
        /\ IsFiniteSet(Earlier(S, e)) /\ Cardinality(Earlier(S, e)) \in Nat
    BY <1>2
  <2>5. Cardinality(Earlier(S, d)) <= Cardinality(Earlier(S, e))
        /\ (Cardinality(Earlier(S, e)) = Cardinality(Earlier(S, d)) => Earlier(S, e) = Earlier(S, d))
    BY <2>1, <2>4, FS_Subset
  <2> QED BY <2>3, <2>4, <2>5
<1> QED BY <1>2, <1>4, <1>5

\* Taking the transfers of rank below n takes at most n.
LEMMA FirstByKeyBound ==
    ASSUME ledger \in Ledgers, NEW S, S \subseteq Events, NEW n \in Nat
    PROVE  /\ FirstByKey(S, n) \subseteq S
           /\ IsFiniteSet(FirstByKey(S, n))
           /\ Cardinality(FirstByKey(S, n)) <= n
<1> DEFINE First == FirstByKey(S, n)
           rank  == [e \in First |-> Cardinality(Earlier(S, e))]
<1>1. IsFiniteSet(S)
  BY EventsAreFinite, FS_Subset
<1>2. First \subseteq S /\ \A e \in First : Cardinality(Earlier(S, e)) < n
  BY DEF FirstByKey, Earlier
<1>3. IsFiniteSet(First)
  BY <1>1, <1>2, FS_Subset
<1>4. ASSUME NEW d \in First, NEW e \in First, d # e
      PROVE  Cardinality(Earlier(S, d)) # Cardinality(Earlier(S, e))
  <2>1. d \in S /\ e \in S /\ (Precedes(d, e) \/ Precedes(e, d))
    BY <1>2, <1>4, EarlierCounts
  <2>2. Cardinality(Earlier(S, d)) < Cardinality(Earlier(S, e))
        \/ Cardinality(Earlier(S, e)) < Cardinality(Earlier(S, d))
    BY <2>1, EarlierCounts
  <2>3. Cardinality(Earlier(S, d)) \in Nat /\ Cardinality(Earlier(S, e)) \in Nat
    BY <2>1, EarlierCounts
  <2> QED BY <2>2, <2>3
<1>5. rank \in Injection(First, 0..(n - 1))
  <2> HIDE DEF First
  <2>1. \A e \in First : Cardinality(Earlier(S, e)) \in Nat
    BY <1>2, EarlierCounts
  <2>2. \A e \in First : Cardinality(Earlier(S, e)) \in 0..(n - 1)
    BY <1>2, <2>1
  <2>3. \A d, e \in First : rank[d] = rank[e] => d = e
    BY <1>4
  <2> QED BY <2>2, <2>3 DEF Injection, IsInjective
<1>6. IsFiniteSet(0..(n - 1)) /\ Cardinality(0..(n - 1)) = n
  <2>1. 0 \in Int /\ n - 1 \in Int
    OBVIOUS
  <2>2. IsFiniteSet(0..(n - 1)) /\ Cardinality(0..(n - 1)) = IF 0 > n - 1 THEN 0 ELSE (n - 1) - 0 + 1
    BY ONLY <2>1, FS_Interval
  <2> QED BY <2>2
<1>7. Cardinality(First) <= n
  <2> HIDE DEF rank, First
  <2> QED BY <1>5, <1>6, FS_Injection
<1> QED BY <1>2, <1>3, <1>7

----------------------------------------------------------------------------
\* How a walk ends.

Going ==
    /\ Cardinality(admitted) < TransferLimit
    /\ admitted = {} => next = {} /\ reached = 0

Honest ==
    /\ ledger \in Ledgers /\ walk \in {"graph", "own"}
    /\ verified \subseteq Events /\ admitted \subseteq Events
    /\ reached \in Nat /\ depth \in Nat
    /\ walk = "graph" /\ pc # "done" => outcome = None /\ Going
    /\ StopReasonHonest

\* New transfers beside those of A, up to so many in all.
LEMMA TakenFits ==
    ASSUME ledger \in Ledgers, NEW A, A \subseteq Events, NEW cap \in Nat, Cardinality(A) < cap,
           NEW new, new \subseteq Events, new \cap A = {}, NEW n, n = cap - Cardinality(A)
    PROVE  LET F == FirstByKey(new, n) IN
           /\ F \subseteq new /\ IsFiniteSet(A \cup F)
           /\ n \in Nat /\ Cardinality(A) \in Nat /\ Cardinality(F) \in Nat /\ Cardinality(F) <= n
           /\ Cardinality(A \cup F) = Cardinality(A) + Cardinality(F)
           /\ F = {} => Cardinality(F) = 0
<1> DEFINE F == FirstByKey(new, n)
<1>1. IsFiniteSet(A) /\ Cardinality(A) \in Nat
  BY EventsAreFinite, FS_Subset, FS_CardinalityType
<1>2. n \in Nat /\ new \subseteq Events
  BY <1>1
<1>3. F \subseteq new /\ IsFiniteSet(F) /\ Cardinality(F) <= n
  BY <1>2, FirstByKeyBound
<1> HIDE DEF F
<1>4. Cardinality(F) \in Nat /\ (F = {} => Cardinality(F) = 0)
  BY <1>3, FS_CardinalityType, FS_EmptySet
<1>5. Cardinality(A \cap F) = 0
  <2>1. A \cap F = {}
    BY <1>3
  <2> QED BY <2>1, FS_EmptySet
<1>6. /\ IsFiniteSet(A \cup F)
      /\ Cardinality(A \cup F) = Cardinality(A) + Cardinality(F) - Cardinality(A \cap F)
  BY ONLY <1>1, <1>3, FS_Union
<1>7. Cardinality(A \cup F) = Cardinality(A) + Cardinality(F)
  BY ONLY <1>1, <1>4, <1>5, <1>6
<1> QED BY <1>1, <1>2, <1>3, <1>4, <1>6, <1>7 DEF F

\* What was found of a page fits below the limit.
LEMMA FoundFits ==
    ASSUME Honest, Going
    PROVE  /\ Found \subseteq Events /\ IsFiniteSet(Collected)
           /\ Collected \subseteq Events
           /\ Cardinality(Collected) \in Nat /\ Cardinality(Collected) <= TransferLimit
           /\ ~AtLimit => Cardinality(Collected) < TransferLimit
           /\ Cardinality(Collected) = 0 <=> Collected = {}
           /\ Found # {} => Collected # {}
<1>1. /\ Found \subseteq verified \ admitted /\ IsFiniteSet(admitted \cup Found)
      /\ Cardinality(admitted) \in Nat /\ Cardinality(Found) \in Nat
      /\ Cardinality(Found) <= TransferLimit - Cardinality(admitted)
      /\ Cardinality(admitted \cup Found) = Cardinality(admitted) + Cardinality(Found)
      /\ Found = {} => Cardinality(Found) = 0
  <2>1. /\ ledger \in Ledgers /\ admitted \subseteq Events /\ verified \subseteq Events
        /\ TransferLimit \in Nat /\ Cardinality(admitted) < TransferLimit
    BY DEF Honest, Going
  <2>2. PICK new, n : new = verified \ admitted /\ n = TransferLimit - Cardinality(admitted)
    OBVIOUS
  <2>3. Found = FirstByKey(new, n)
    BY <2>2 DEF Found
  <2>4. new \subseteq Events /\ new \cap admitted = {} /\ n = TransferLimit - Cardinality(admitted)
    BY <2>1, <2>2
  <2> DEFINE F == FirstByKey(new, n)
  <2>5. F \subseteq new /\ IsFiniteSet(admitted \cup F)
    BY <2>1, <2>4, TakenFits
  <2>6. Cardinality(F) <= n
    BY <2>1, <2>4, TakenFits
  <2>7. Cardinality(F) \in Nat
    BY <2>1, <2>4, TakenFits
  <2>8. Cardinality(admitted) \in Nat
    BY <2>1, EventsAreFinite, FS_Subset, FS_CardinalityType
  <2>9. Cardinality(admitted \cup F) = Cardinality(admitted) + Cardinality(F)
    BY <2>1, <2>4, TakenFits
  <2>10. F = {} => Cardinality(F) = 0
    BY <2>1, <2>4, TakenFits
  <2> HIDE DEF F
  <2>11. Found = F
    BY <2>3 DEF F
  <2> QED BY <2>2, <2>5, <2>6, <2>7, <2>8, <2>9, <2>10, <2>11
<1>2. IsFiniteSet(Collected) /\ Collected \subseteq Events /\ Found \subseteq Events
  BY <1>1 DEF Collected, Honest
<1>3. Cardinality(Collected) = Cardinality(admitted) + Cardinality(Found)
  BY <1>1 DEF Collected
<1>4. Cardinality(Collected) = 0 <=> Collected = {}
  BY <1>2, FS_EmptySet
<1>5. Found # {} => Collected # {}
  BY DEF Collected
<1>6. ~AtLimit => Cardinality(Collected) < TransferLimit
  BY <1>1, <1>3 DEF AtLimit, Going
<1>7. Cardinality(Collected) \in Nat /\ Cardinality(Collected) <= TransferLimit
  BY <1>1, <1>3
<1> QED BY <1>2, <1>4, <1>5, <1>6, <1>7

\* Whoever has collected nothing has found nobody.
LEMMA NothingFound ==
    ASSUME Honest, Going, Collected = {}
    PROVE  Level = {} /\ Depth = 0
<1>1. admitted = {} /\ Found = {}
  BY DEF Collected
<1>2. Peers = {}
  BY <1>1 DEF Peers
<1> QED BY <1>1, <1>2 DEF Level, Depth, Going

\* The result that completedCollection makes of T is honest.
HonestResult(stop, partial, confidence, T, level) ==
    LET n == Cardinality(T) IN
    /\ n <= TransferLimit
    /\ (stop = "transfer_limit") <=> (n = TransferLimit)
    /\ (stop = "no_eligible_transfers") <=> (n = 0)
    /\ n = 0 => ~partial /\ confidence = 0 /\ level = 0
    /\ n > 0 => (confidence = 100 <=> ~partial)
    /\ partial => confidence <= 75

LEMMA CompleteIsHonest ==
    ASSUME NEW stop, NEW partial, NEW confidence, NEW T, NEW level,
           HonestResult(stop, partial, confidence, T, level),
           Complete(stop, partial, confidence, T, level)
    PROVE  StopReasonHonest' /\ pc' = "done"
BY DEF Complete, HonestResult, StopReasonHonest

LEMMA MinOfTwo ==
    ASSUME NEW a \in Int, NEW b \in Int
    PROVE  Min({a, b}) \in {a, b} /\ Min({a, b}) <= a
<1>1. \E x \in {a, b} : \A y \in {a, b} : x <= y
  OBVIOUS
<1> QED BY <1>1 DEF Min

LEMMA InterruptIsHonest ==
    ASSUME Honest, NEW kind, kind \in {"rate_limited", "unavailable", "resource_limit", "deadline"},
           pc # "done", Interrupt(kind)
    PROVE  Honest'
<1> DEFINE confidence == Min({75, (100 * Cardinality(admitted)) \div TransferLimit})
<1>1. UNCHANGED <<ledger, walk, verified, admitted, reached, depth>>
  BY DEF Interrupt, position, answer, graph
<1>2. pc' = "done" /\ StopReasonHonest'
  <2>1. CASE walk = "own"
    BY <2>1 DEF Interrupt, results, Honest, StopReasonHonest, Published, None, Failed
  <2>2. CASE walk # "own" /\ (walk = "graph" /\ (admitted = {} \/ kind = "deadline"))
    BY <2>2 DEF Interrupt, StopReasonHonest, Published
  <2>3. CASE walk # "own" /\ ~(walk = "graph" /\ (admitted = {} \/ kind = "deadline"))
    <3>1. Complete(kind, TRUE, confidence, admitted, reached)
      BY <2>3 DEF Interrupt
    <3>2. IsFiniteSet(admitted) /\ Cardinality(admitted) \in Nat
      BY EventsAreFinite, FS_Subset, FS_CardinalityType DEF Honest
    <3>3. 0 < Cardinality(admitted) /\ Cardinality(admitted) < TransferLimit
      BY <2>3, <3>2, FS_EmptySet DEF Honest, Going
    <3>4. (100 * Cardinality(admitted)) \div TransferLimit \in Int
      BY <3>2
    <3>5. confidence \in Int /\ confidence <= 75
      BY <3>4, MinOfTwo
    <3>6. kind \notin {"transfer_limit", "no_eligible_transfers"}
      OBVIOUS
    <3> HIDE DEF confidence
    <3>7. HonestResult(kind, TRUE, confidence, admitted, reached)
      BY <3>2, <3>3, <3>5, <3>6 DEF HonestResult
    <3> QED BY <3>1, <3>7, CompleteIsHonest
  <2> QED BY <2>1, <2>2, <2>3
<1> QED BY <1>1, <1>2 DEF Honest, Events

LEMMA StopIsComplete ==
    ASSUME Honest, walk = "graph", pc # "done", PageCollected, NEW stop, NEW confidence \in Nat,
           Stop(stop, confidence),
           HonestResult(stop, FALSE, confidence, Collected, Depth)
    PROVE  Honest'
<1>1. StopReasonHonest' /\ pc' = "done"
  BY CompleteIsHonest DEF Stop
<1>2. /\ UNCHANGED <<ledger, walk, verified, depth>>
      /\ admitted' = Collected /\ reached' = Depth
  BY DEF Stop, PageCollected, position, answer
<1>3. Collected \subseteq Events /\ Depth \in Nat
  BY FoundFits DEF Honest, Depth
<1> QED BY <1>1, <1>2, <1>3 DEF Honest, Events

LEMMA GoesOn ==
    ASSUME Honest, walk = "graph", pc # "done", PageCollected, ~AtLimit,
           next' = Level \/ (Level # {} /\ next' = {}), depth' \in Nat, outcome' = outcome
    PROVE  Honest'
<1>1. /\ UNCHANGED <<ledger, walk, verified>>
      /\ admitted' = Collected /\ reached' = Depth
  BY DEF PageCollected, answer
<1>2. Going
  BY DEF Honest
<1>3. Collected \subseteq Events /\ Depth \in Nat /\ Cardinality(Collected) < TransferLimit
  BY <1>2, FoundFits DEF Honest, Depth
<1>4. Collected = {} => Level = {} /\ Depth = 0
  BY <1>2, NothingFound
<1>5. StopReasonHonest' /\ outcome = None
  BY DEF Honest, StopReasonHonest, Published
<1> QED BY <1>1, <1>3, <1>4, <1>5 DEF Honest, Going, Events

LEMMA HonestStep == Honest /\ [Next]_vars => Honest'
<1> SUFFICES ASSUME Honest, [Next]_vars PROVE Honest'
  OBVIOUS
<1> USE DEF position, answer, calls, graph, results
<1>1. ASSUME ListAnswered PROVE Honest'
  BY <1>1 DEF ListAnswered, Calling, Honest, StopReasonHonest, Published, Going, Events
<1>2. ASSUME ReceiptAnswered PROVE Honest'
  <2>1. \A h : Confirmed(h, PageOf(address, page)) \subseteq Events
    BY DEF Confirmed
  <2>2. verified' \subseteq Events
    BY <1>2, <2>1 DEF ReceiptAnswered, Honest
  <2> QED BY <1>2, <2>2 DEF ReceiptAnswered, Calling, Honest, StopReasonHonest, Published, Going, Events
<1>3. ASSUME RetryCall PROVE Honest'
  BY <1>3 DEF RetryCall, Calling, Honest, StopReasonHonest, Published, Going, Events
<1>4. ASSUME CallFails PROVE Honest'
  <2>1. PICK f \in Faults \cap (Retryable \cup Final) :
            Interrupt(CASE f = "too_large" -> "resource_limit"
                        [] f = "refused"   -> "unavailable"
                        [] OTHER           -> f)
    BY <1>4 DEF CallFails
  <2> QED BY <1>4, <2>1, InterruptIsHonest DEF CallFails, Calling, Retryable, Final
<1>5. ASSUME BudgetExhausted \/ PagesExhausted \/ Deadline PROVE Honest'
  BY <1>5, InterruptIsHonest DEF BudgetExhausted, PagesExhausted, Deadline, Calling
<1>6. ASSUME Visit PROVE Honest'
  <2>1. walk = "graph" /\ pc = "page" /\ PageCollected /\ Going
    BY <1>6 DEF Visit, PageCollected, StopAtLimit, FollowCursor, NextAddress, LevelCollected,
                SourceExhausted, DepthReached, NextDepth, Honest
  <2>2. CASE StopAtLimit
    <3>1. HonestResult("transfer_limit", FALSE, 100, Collected, Depth)
      BY <2>1, <2>2, FoundFits DEF StopAtLimit, AtLimit, HonestResult
    <3> QED BY <2>1, <2>2, <3>1, StopIsComplete DEF StopAtLimit
  <2>3. CASE FollowCursor
    BY <2>1, <2>3, GoesOn DEF FollowCursor, Honest
  <2>4. CASE NextAddress
    BY <2>1, <2>4, GoesOn DEF NextAddress, Honest
  <2>5. CASE SourceExhausted
    <3>1. Cardinality(Collected) < TransferLimit
      BY <2>1, <2>5, FoundFits DEF SourceExhausted, LevelCollected
    <3>2. CASE Collected = {}
      <4>1. HonestResult("no_eligible_transfers", FALSE, 0, Collected, Depth)
        BY <2>1, <3>1, <3>2, FoundFits, NothingFound DEF HonestResult
      <4> QED BY <2>1, <2>5, <3>2, <4>1, StopIsComplete DEF SourceExhausted
    <3>3. CASE Collected # {}
      <4>1. HonestResult("source_exhausted", FALSE, 100, Collected, Depth)
        BY <2>1, <3>1, <3>3, FoundFits DEF HonestResult
      <4> QED BY <2>1, <2>5, <3>3, <4>1, StopIsComplete DEF SourceExhausted
    <3> QED BY <3>2, <3>3
  <2>6. CASE DepthReached
    <3>1. HonestResult("traversal_depth", FALSE, 100, Collected, Depth)
      BY <2>1, <2>6, FoundFits, NothingFound DEF DepthReached, LevelCollected, HonestResult
    <3> QED BY <2>1, <2>6, <3>1, StopIsComplete DEF DepthReached
  <2>7. CASE NextDepth
    BY <2>1, <2>7, GoesOn DEF NextDepth, LevelCollected, Honest
  <2> QED BY <1>6, <2>2, <2>3, <2>4, <2>5, <2>6, <2>7 DEF Visit
<1>7. ASSUME BeginOwnHistory PROVE Honest'
  BY <1>7 DEF BeginOwnHistory, Honest, StopReasonHonest, Published, Events
<1>8. ASSUME FollowOwnCursor \/ ScoreOwnHistory PROVE Honest'
  BY <1>8 DEF FollowOwnCursor, ScoreOwnHistory, OwnPageCollected, Honest, StopReasonHonest, Published, Events
<1>9. CASE UNCHANGED vars
  BY <1>9 DEF vars, Honest, StopReasonHonest, Published, Going, Events
<1> QED BY <1>1, <1>2, <1>3, <1>4, <1>5, <1>6, <1>7, <1>8, <1>9 DEF Next, Call, Own

\* StopReasonHonest: the limit is never passed, and the stop reason, the
\* partial flag and the confidence of Collect agree with what it collected.
THEOREM StopTellsTheTruth == Spec => []StopReasonHonest
<1>1. Init => Honest
  <2> SUFFICES ASSUME Init PROVE Honest
    OBVIOUS
  <2>1. Cardinality({}) = 0
    BY FS_EmptySet
  <2> QED BY <2>1 DEF Init, Honest, Going, StopReasonHonest, Published
<1>2. Honest => StopReasonHonest
  BY DEF Honest
<1> QED BY <1>1, <1>2, HonestStep, PTL DEF Spec

----------------------------------------------------------------------------
\* Distances.

Neighbours(S, A) == UNION {Parties(e) : e \in {x \in S : Parties(x) \cap A # {}}}

\* What makes b the balls up to n.
AreBalls(b, S, n) == b = [k \in 0..n |-> IF k = 0 THEN {Target} ELSE b[k - 1] \cup Neighbours(S, b[k - 1])]

LEMMA BallIs ==
    ASSUME NEW S, NEW n
    PROVE  Ball(S, n) = (CHOOSE b : AreBalls(b, S, n))[n]
BY DEF Ball, AreBalls, Neighbours

LEMMA BallsExist ==
    ASSUME NEW S, NEW n \in Nat
    PROVE  \E b : AreBalls(b, S, n)
<1> DEFINE Known == {m \in Nat : \E b : AreBalls(b, S, m)}
<1>1. 0 \in Known
  <2>1. AreBalls([k \in 0..0 |-> {Target}], S, 0)
    BY DEF AreBalls
  <2> QED BY <2>1
<1>2. ASSUME NEW m \in Nat, m \in Known PROVE m + 1 \in Known
  <2>1. PICK b : AreBalls(b, S, m)
    BY <1>2
  <2> DEFINE c == [k \in 0..(m + 1) |-> IF k = m + 1 THEN b[m] \cup Neighbours(S, b[m]) ELSE b[k]]
  <2>2. \A k \in 0..(m + 1) : c[k] = IF k = m + 1 THEN b[m] \cup Neighbours(S, b[m]) ELSE b[k]
    OBVIOUS
  <2>3. DOMAIN c = 0..(m + 1) /\ c = [k \in 0..(m + 1) |-> c[k]]
    OBVIOUS
  <2> HIDE DEF c
  <2>4. ASSUME NEW k \in 0..(m + 1)
        PROVE  c[k] = IF k = 0 THEN {Target} ELSE c[k - 1] \cup Neighbours(S, c[k - 1])
    <3>1. CASE k = m + 1
      <4>1. k # 0 /\ k - 1 = m /\ m \in 0..(m + 1) /\ m # m + 1
        BY <3>1
      <4>2. c[k - 1] = b[m]
        BY <2>2, <4>1
      <4> QED BY <2>2, <3>1, <4>1, <4>2
    <3>2. CASE k # m + 1 /\ k # 0
      <4>1. k \in 0..m /\ k - 1 \in 0..(m + 1) /\ k - 1 # m + 1
        BY <3>2
      <4>2. b[k] = b[k - 1] \cup Neighbours(S, b[k - 1])
        BY <2>1, <3>2, <4>1 DEF AreBalls
      <4> QED BY <2>2, <3>2, <4>1, <4>2
    <3>3. CASE k = 0
      <4>1. 0 \in 0..m /\ 0 # m + 1
        OBVIOUS
      <4>2. b[0] = {Target}
        BY <2>1, <4>1 DEF AreBalls
      <4> QED BY <2>2, <3>3, <4>1, <4>2
    <3> QED BY <3>1, <3>2, <3>3
  <2>5. AreBalls(c, S, m + 1)
    BY <2>3, <2>4 DEF AreBalls
  <2> QED BY <2>5
<1>3. n \in Known
  <2> HIDE DEF Known
  <2> QED BY <1>1, <1>2, Induction
<1> QED BY <1>3

LEMMA NextBall ==
    ASSUME NEW S, NEW n \in Nat, NEW b, AreBalls(b, S, n), NEW k \in Nat, k + 1 <= n
    PROVE  b[k + 1] = b[k] \cup Neighbours(S, b[k])
<1>1. k + 1 \in 0..n /\ k + 1 # 0 /\ (k + 1) - 1 = k
  OBVIOUS
<1>2. PICK j \in 0..n : j = k + 1
  BY <1>1
<1>3. b[j] = IF j = 0 THEN {Target} ELSE b[j - 1] \cup Neighbours(S, b[j - 1])
  BY DEF AreBalls
<1> QED BY <1>1, <1>2, <1>3

\* Balls agree as far as they go.
LEMMA BallsAgree ==
    ASSUME NEW S, NEW n \in Nat, NEW m \in Nat, n <= m,
           NEW b, AreBalls(b, S, n), NEW c, AreBalls(c, S, m)
    PROVE  b[n] = c[n]
<1> DEFINE Same == {k \in Nat : k <= n => b[k] = c[k]}
<1>1. 0 \in Same
  BY DEF AreBalls
<1>2. ASSUME NEW k \in Nat, k \in Same PROVE k + 1 \in Same
  <2> SUFFICES ASSUME k + 1 <= n PROVE b[k + 1] = c[k + 1]
    OBVIOUS
  <2>1. k + 1 <= m /\ k <= n
    OBVIOUS
  <2>2. b[k + 1] = b[k] \cup Neighbours(S, b[k])
    BY NextBall
  <2>3. c[k + 1] = c[k] \cup Neighbours(S, c[k])
    BY <2>1, NextBall
  <2> QED BY <1>2, <2>1, <2>2, <2>3
<1>3. n \in Same
  <2> HIDE DEF Same
  <2> QED BY <1>1, <1>2, Induction
<1> QED BY <1>3

LEMMA BallZero == ASSUME NEW S PROVE Ball(S, 0) = {Target}
<1> DEFINE b == CHOOSE b : AreBalls(b, S, 0)
<1>1. AreBalls(b, S, 0)
  BY BallsExist
<1> HIDE DEF b
<1>2. b[0] = {Target}
  BY <1>1 DEF AreBalls
<1> QED BY <1>2, BallIs DEF b

LEMMA BallNext ==
    ASSUME NEW S, NEW n \in Nat
    PROVE  Ball(S, n + 1) = Ball(S, n) \cup Neighbours(S, Ball(S, n))
<1> DEFINE b == CHOOSE b : AreBalls(b, S, n)
           c == CHOOSE c : AreBalls(c, S, n + 1)
<1>1. AreBalls(b, S, n)
  BY BallsExist
<1>2. AreBalls(c, S, n + 1)
  <2>1. n + 1 \in Nat
    OBVIOUS
  <2> QED BY <2>1, BallsExist
<1>3. Ball(S, n) = b[n] /\ Ball(S, n + 1) = c[n + 1]
  BY BallIs
<1> HIDE DEF b, c
<1>4. n + 1 \in 0..(n + 1) /\ n + 1 # 0 /\ (n + 1) - 1 = n /\ n <= n + 1 /\ n + 1 \in Nat
  OBVIOUS
<1>5. b[n] = c[n]
  BY <1>1, <1>2, <1>4, BallsAgree
<1>6. c[n + 1] = c[n] \cup Neighbours(S, c[n])
  BY <1>2, <1>4 DEF AreBalls
<1> QED BY <1>3, <1>5, <1>6

LEMMA BallGrows ==
    ASSUME NEW S, NEW m \in Nat, NEW n \in Nat, m <= n PROVE Ball(S, m) \subseteq Ball(S, n)
<1> DEFINE Above == {k \in Nat : Ball(S, m) \subseteq Ball(S, m + k)}
<1>1. 0 \in Above
  OBVIOUS
<1>2. ASSUME NEW k \in Nat, k \in Above PROVE k + 1 \in Above
  <2>1. m + k \in Nat /\ m + (k + 1) = (m + k) + 1
    OBVIOUS
  <2>2. Ball(S, m + k) \subseteq Ball(S, (m + k) + 1)
    BY <2>1, BallNext
  <2> QED BY <1>2, <2>1, <2>2
<1>3. n - m \in Above
  <2>1. n - m \in Nat
    OBVIOUS
  <2> HIDE DEF Above
  <2> QED BY <1>1, <1>2, <2>1, Induction
<1>4. m + (n - m) = n
  OBVIOUS
<1> QED BY <1>3, <1>4

\* No event leads out of W.
LEMMA BallInside ==
    ASSUME NEW S, NEW W, Target \in W, \A e \in S : Touching(e, W) => Parties(e) \subseteq W,
           NEW n \in Nat
    PROVE  Ball(S, n) \subseteq W
<1> DEFINE Inside == {k \in Nat : Ball(S, k) \subseteq W}
<1>1. 0 \in Inside
  BY BallZero
<1>2. ASSUME NEW k \in Nat, k \in Inside PROVE k + 1 \in Inside
  BY <1>2, BallNext DEF Neighbours, Touching
<1>3. n \in Inside
  <2> HIDE DEF Inside
  <2> QED BY <1>1, <1>2, Induction
<1> QED BY <1>3

\* More events change no distance below n, if those that touch somebody nearer
\* join the same two addresses as an event there was.
LEMMA SameBall ==
    ASSUME NEW A, NEW S, A \subseteq S, NEW n \in Nat,
           \A e \in S : n > 0 /\ Touching(e, Ball(A, n - 1)) => \E x \in A : Parties(x) = Parties(e)
    PROVE  \A k \in 0..n : Ball(S, k) = Ball(A, k)
<1> DEFINE Same == {k \in Nat : k <= n => Ball(S, k) = Ball(A, k)}
<1>1. 0 \in Same
  BY BallZero
<1>2. ASSUME NEW k \in Nat, k \in Same PROVE k + 1 \in Same
  <2> SUFFICES ASSUME k + 1 <= n PROVE Ball(S, k + 1) = Ball(A, k + 1)
    OBVIOUS
  <2>1. n > 0 /\ n - 1 \in Nat /\ k <= n - 1 /\ k <= n
    OBVIOUS
  <2>2. Ball(A, k) \subseteq Ball(A, n - 1)
    BY <2>1, BallGrows
  <2>3. Ball(S, k) = Ball(A, k)
    BY <1>2, <2>1
  <2>4. \A e \in S : Touching(e, Ball(A, k)) => \E x \in A : Parties(x) = Parties(e)
    BY <2>1, <2>2 DEF Touching
  <2>5. Neighbours(S, Ball(A, k)) = Neighbours(A, Ball(A, k))
    BY <2>4 DEF Neighbours, Touching
  <2> QED BY <2>3, <2>5, BallNext
<1>3. Nat \subseteq Same
  <2> HIDE DEF Same
  <2> QED BY <1>1, <1>2, Induction
<1> QED BY <1>3

----------------------------------------------------------------------------
\* Events, twins, ranks and pages.

USE CollectorAssumption DEF CollectorAssumption

Valid == {e \in Events : ledger[e].kind = "valid"}

\* S holds e, or one that the history does not tell from it.
Has(S, e) == Twins(e) \cap S # {}

LEMMA TwinsAreAlike ==
    ASSUME NEW e \in Events, NEW x \in Twins(e)
    PROVE  /\ x \in Events /\ Parties(x) = Parties(e) /\ ledger[x].tx = ledger[e].tx
           /\ ledger[x].kind = ledger[e].kind /\ Twins(x) = Twins(e) /\ e \in Twins(e)
BY DEF Twins, Parties

LEMMA EventsAre ==
    ASSUME ledger \in Ledgers
    PROVE  /\ IsFiniteSet(Events) /\ Events \subseteq Nat
           /\ \A e \in Events : /\ Parties(e) \subseteq Addresses
                                /\ ledger[e].tx \in Nat
<1>1. IsFiniteSet(Events) /\ Events = 1..Cardinality(Events)
  BY DEF Events
<1>2. Cardinality(Events) \in Nat
  BY <1>1, FS_CardinalityType
<1> QED BY <1>1, <1>2 DEF Events, Parties

LEMMA RankIsPositive ==
    ASSUME ledger \in Ledgers, NEW a, NEW e \in History(a)
    PROVE  Rank(a, e) \in Nat /\ Rank(a, e) >= 1
<1> DEFINE R == {x \in History(a) : x <= e}
<1>1. e \in R /\ R \subseteq Events
  BY EventsAre DEF History
<1>2. IsFiniteSet(R)
  <2> HIDE DEF R
  <2> QED BY <1>1, EventsAre, FS_Subset
<1>3. Cardinality(R) \in Nat /\ Cardinality(R) # 0
  <2> HIDE DEF R
  <2> QED BY <1>1, <1>2, FS_CardinalityType, FS_EmptySet
<1> QED BY <1>3 DEF Rank

LEMMA PageSizeIs == PageSize \in Nat /\ PageSize > 0
BY DEF PageSize

\* A receipt confirms the first of the twins of a record of the page, and
\* nothing but twins of records of the page.
LEMMA ReceiptConfirms ==
    ASSUME ledger \in Ledgers, NEW P, P \subseteq Events, NEW h
    PROVE  /\ Confirmed(h, P) \subseteq Valid
           /\ \A e \in Confirmed(h, P) : \E x \in P : Parties(x) = Parties(e)
           /\ \A e \in P : e \in Valid /\ ledger[e].tx = h => Has(Confirmed(h, P), e)
<1>1. Confirmed(h, P) \subseteq Valid
  BY DEF Confirmed, Valid
<1>2. ASSUME NEW S, S \subseteq Events PROVE IsFiniteSet(S) /\ Cardinality(S) \in Nat
  BY <1>2, EventsAre, FS_Subset, FS_CardinalityType
<1>3. ASSUME NEW e \in Confirmed(h, P) PROVE \E x \in P : Parties(x) = Parties(e)
  <2> DEFINE R == {x \in Twins(e) : x <= e}
             Q == Twins(e) \cap P
  <2>1. e \in Events /\ Cardinality(R) <= Cardinality(Q)
    BY DEF Confirmed
  <2>2. e \in R /\ R \subseteq Events /\ Q \subseteq Events
    BY <2>1, EventsAre DEF Twins
  <2> HIDE DEF R
  <2>3. IsFiniteSet(R) /\ Cardinality(R) \in Nat /\ Cardinality(R) # 0
    BY <1>2, <2>2, FS_EmptySet
  <2>4. IsFiniteSet(Q) /\ Cardinality(Q) \in Nat
    <3> HIDE DEF Q
    <3> QED BY <1>2, <2>2
  <2>5. Cardinality(Q) # 0
    <3> HIDE DEF Q
    <3> QED BY <2>1, <2>3, <2>4
  <2>6. Q # {}
    <3> HIDE DEF Q
    <3> QED BY <2>4, <2>5, FS_EmptySet
  <2> QED BY <2>1, <2>6, TwinsAreAlike
<1>4. ASSUME NEW e \in P, e \in Valid, ledger[e].tx = h PROVE Has(Confirmed(h, P), e)
  <2> DEFINE T == Twins(e)
             first == Min(T)
             R == {x \in T : x <= first}
             Q == T \cap P
  <2>1. e \in Events /\ e \in T /\ T \subseteq Events /\ T \subseteq Nat
    BY EventsAre DEF Twins
  <2>2. first \in T /\ \A x \in T : first <= x
    <3> HIDE DEF T
    <3> QED BY <2>1, MinOfSet
  <2> HIDE DEF first
  <2>3. /\ first \in Events /\ ledger[first].tx = h /\ ledger[first].kind = "valid"
        /\ Twins(first) = T
    BY <1>4, <2>1, <2>2, TwinsAreAlike DEF Valid
  <2> HIDE DEF T
  <2>4. R = {first}
    <3>1. \A x \in T : x \in Nat /\ first <= x
      BY <2>1, <2>2
    <3>2. \A x \in T : x <= first => x = first
      BY <2>2, <3>1
    <3>3. first <= first
      BY <2>2, <3>1
    <3> QED BY <2>2, <3>2, <3>3
  <2>5. Cardinality(R) = 1
    <3> HIDE DEF R
    <3> QED BY <2>4, FS_Singleton
  <2>6. IsFiniteSet(Q) /\ Cardinality(Q) \in Nat /\ Q # {}
    <3>1. Q \subseteq Events /\ Q # {}
      BY <1>4, <2>1
    <3> HIDE DEF Q
    <3> QED BY <1>2, <3>1
  <2>7. Cardinality(Q) # 0
    <3> HIDE DEF Q
    <3> QED BY <2>6, FS_EmptySet
  <2>8. Cardinality(R) <= Cardinality(Q)
    <3> HIDE DEF Q, R
    <3> QED BY <2>5, <2>6, <2>7
  <2>9. first \in Confirmed(h, P)
    BY <2>3, <2>8 DEF Confirmed
  <2> QED BY <2>2, <2>9 DEF Has, T
<1> QED BY <1>1, <1>3, <1>4

\* Fewer than n are taken only if there are no more.
LEMMA FirstByKeyTakesAll ==
    ASSUME ledger \in Ledgers, NEW S, S \subseteq Events, NEW n \in Nat,
           Cardinality(FirstByKey(S, n)) < n
    PROVE  FirstByKey(S, n) = S
<1> DEFINE First  == FirstByKey(S, n)
           Missed == S \ First
           rank(e) == Cardinality(Earlier(S, e))
           ranks  == {rank(e) : e \in Missed}
<1>1. \A e \in S : rank(e) \in Nat /\ (e \in First <=> rank(e) < n)
  BY EarlierCounts DEF FirstByKey, Earlier
<1>2. IsFiniteSet(First) /\ First \subseteq S /\ Cardinality(First) \in Nat /\ Cardinality(First) < n
  BY FirstByKeyBound, FS_CardinalityType
<1> HIDE DEF First
<1>3. ASSUME Missed # {} PROVE FALSE
  <2>1. ranks \subseteq Nat /\ ranks # {}
    BY <1>1, <1>3
  <2>2. PICK r \in ranks : \A q \in ranks : r <= q
    <3> HIDE DEF ranks
    <3> QED BY <2>1, Least
  <2>3. PICK e \in Missed : \A x \in Missed : rank(e) <= rank(x)
    BY <2>2
  <2>4. ASSUME NEW x \in Earlier(S, e), x \notin First PROVE FALSE
    <3>1. x \in S /\ e \in S /\ rank(x) < rank(e)
      BY <2>4, EarlierCounts DEF Earlier
    <3>2. rank(x) \in Nat /\ rank(e) \in Nat /\ rank(e) <= rank(x)
      BY <1>1, <2>3, <2>4, <3>1
    <3> HIDE DEF rank
    <3> QED BY <3>1, <3>2
  <2>5. rank(e) <= Cardinality(First)
    <3>1. Earlier(S, e) \subseteq First
      BY <2>4
    <3> QED BY <1>2, <3>1, FS_Subset
  <2>6. rank(e) \in Nat /\ ~(rank(e) < n)
    BY <1>1, <2>3
  <2> HIDE DEF rank
  <2> QED BY <1>2, <2>5, <2>6
<1> QED BY <1>2, <1>3 DEF First

----------------------------------------------------------------------------
\* What the pages of an address have given.

Taken == IF walk = "graph" THEN admitted ELSE own

\* S holds what the pages of a before page k have shown.
Given(a, k, S) ==
    \A e \in Valid \cap History(a) : Rank(a, e) <= (k - 1) * PageSize => Has(S, e)

\* Of page k of a, with the receipts of u still to be read: the confirmed
\* events V are transfers of a, and complete but for u; m tells of more pages.
Shown(a, k, u, V, m) ==
    /\ \A e \in V : a \in Parties(e)
    /\ \A e \in Valid \cap PageOf(a, k) : ledger[e].tx \in u \/ Has(V, e)
    /\ ~m => Further(a, k) = {}

Turning ==
    /\ address \in Addresses /\ page \in Nat \ {0} /\ unverified \subseteq Nat
    /\ verified \subseteq Valid /\ admitted \subseteq Valid /\ own \subseteq Valid
    /\ pc # "done" =>
          /\ Given(address, page, Taken)
          /\ pc \in {"receipt", "page"} => Shown(address, page, unverified, verified, more)
          /\ pc = "page" => unverified = {}

LEMMA SameChain ==
    ASSUME ledger' = ledger
    PROVE  /\ Events' = Events /\ Valid' = Valid
           /\ \A e : Parties(e)' = Parties(e) /\ Twins(e)' = Twins(e)
           /\ \A S, e : Has(S, e)' = Has(S, e)
           /\ \A a : History(a)' = History(a)
BY DEF Events, Valid, Parties, Twins, Has, History

LEMMA SamePages ==
    ASSUME ledger' = ledger, walk' = walk
    PROVE  /\ \A a, k, S : Given(a, k, S)' = Given(a, k, S)
           /\ \A a, k, u, V, m : Shown(a, k, u, V, m)' = Shown(a, k, u, V, m)
           /\ PageSize' = PageSize
<1>1. PageSize' = PageSize
  BY DEF PageSize
<1>2. \A a, e : Rank(a, e)' = Rank(a, e)
  BY SameChain DEF Rank
<1>3. \A a, k : PageOf(a, k)' = PageOf(a, k) /\ Further(a, k)' = Further(a, k)
  BY <1>1, <1>2, SameChain DEF PageOf, Further
<1>4. ASSUME NEW a, NEW k, NEW S PROVE Given(a, k, S)' = Given(a, k, S)
  BY <1>1, <1>2, SameChain DEF Given
<1>5. ASSUME NEW a, NEW k, NEW u, NEW V, NEW m PROVE Shown(a, k, u, V, m)' = Shown(a, k, u, V, m)
  BY <1>3, SameChain DEF Shown
<1> QED BY <1>1, <1>4, <1>5

\* Unless the limit is met, everything new is taken.
LEMMA TakesAll ==
    ASSUME ledger \in Ledgers, NEW A, A \subseteq Events, NEW cap \in Nat, Cardinality(A) < cap,
           NEW new, new \subseteq Events, new \cap A = {}, NEW n, n = cap - Cardinality(A),
           NEW F, F = FirstByKey(new, n), ~(F # {} /\ Cardinality(A \cup F) = cap)
    PROVE  F = new
<1>1. /\ n \in Nat /\ Cardinality(A) \in Nat /\ Cardinality(F) \in Nat /\ Cardinality(F) <= n
  BY TakenFits
<1>2. Cardinality(A \cup F) = Cardinality(A) + Cardinality(F)
  BY TakenFits
<1>3. F = {} => Cardinality(F) = 0
  BY TakenFits
<1>4. n > 0
  BY <1>1
<1>5. Cardinality(F) # n
  BY <1>1, <1>2, <1>3, <1>4
<1>6. Cardinality(F) < n
  BY <1>1, <1>5
<1> QED BY <1>1, <1>6, FirstByKeyTakesAll

\* A page that is taken whole carries on to the next.
LEMMA PageGiven ==
    ASSUME ledger \in Ledgers, NEW a, NEW k \in Nat \ {0}, NEW S, NEW V, NEW m, NEW T,
           Given(a, k, S), Shown(a, k, {}, V, m), S \subseteq T, V \subseteq T
    PROVE  /\ Given(a, k + 1, T)
           /\ ~m => \A e \in Valid \cap History(a) : Has(T, e)
<1>1. k - 1 \in Nat /\ (k + 1) - 1 = k
  OBVIOUS
<1>2. (k - 1) * PageSize \in Int /\ k * PageSize \in Int
  BY <1>1, PageSizeIs
<1>3. ASSUME NEW e \in Valid \cap History(a), Rank(a, e) <= k * PageSize PROVE Has(T, e)
  <2>1. Rank(a, e) \in Nat
    BY RankIsPositive
  <2>2. CASE Rank(a, e) <= (k - 1) * PageSize
    BY <2>2 DEF Given, Has
  <2>3. CASE ~(Rank(a, e) <= (k - 1) * PageSize)
    <3>1. (k - 1) * PageSize < Rank(a, e)
      BY <1>2, <2>1, <2>3
    <3>2. e \in PageOf(a, k)
      BY <1>3, <3>1 DEF PageOf
    <3> QED BY <3>2 DEF Shown, Has
  <2> QED BY <2>2, <2>3
<1>4. ASSUME ~m, NEW e \in Valid \cap History(a) PROVE Has(T, e)
  <2>1. ~(Rank(a, e) > k * PageSize) /\ Rank(a, e) \in Nat
    BY <1>4, RankIsPositive DEF Shown, Further
  <2>2. Rank(a, e) <= k * PageSize
    BY <1>2, <2>1
  <2> QED BY <1>3, <2>2
<1> QED BY <1>1, <1>3, <1>4 DEF Given

\* Before the first page there is nothing.
LEMMA FirstPage == ledger \in Ledgers => \A a, S : Given(a, 1, S)
<1> SUFFICES ASSUME ledger \in Ledgers, NEW a, NEW e \in History(a), Rank(a, e) <= (1 - 1) * PageSize
             PROVE  FALSE
  BY DEF Given
<1>1. (1 - 1) * PageSize = 0
  BY PageSizeIs
<1> QED BY <1>1, RankIsPositive

----------------------------------------------------------------------------
\* Provider calls.

LEMMA PageIs == ASSUME NEW a, NEW k PROVE PageOf(a, k) \subseteq History(a) /\ History(a) \subseteq Events
BY DEF PageOf, History

LEMMA ListTurning ==
    ASSUME ledger \in Ledgers, Turning, ListAnswered PROVE Turning'
<1> DEFINE P == PageOf(address, page)
           u == Candidates(P)
<1>1. /\ UNCHANGED <<ledger, walk, address, page, admitted, own>>
      /\ unverified' = u /\ verified' = {} /\ (~more' => Further(address, page) = {})
      /\ pc' = IF u = {} THEN "page" ELSE "receipt"
      /\ pc # "done"
  BY DEF ListAnswered, Calling, position, graph, results
<1>2. P \subseteq Events
  BY PageIs
<1>3. u \subseteq Nat
  BY <1>2, EventsAre DEF Candidates
<1>4. Shown(address, page, u, {}, more')
  <2>1. \A e \in Valid \cap P : ledger[e].tx \in u
    BY DEF Candidates, Valid
  <2> HIDE DEF u
  <2> QED BY <1>1, <2>1 DEF Shown
<1> HIDE DEF u, P
<1>5. Taken' = Taken /\ Given(address, page, Taken)
  BY <1>1 DEF Taken, Turning
<1>6. Given(address, page, Taken)' /\ Shown(address, page, unverified, verified, more)'
  BY <1>1, <1>4, <1>5, SamePages
<1>7. verified' \subseteq Valid' /\ admitted' \subseteq Valid' /\ own' \subseteq Valid'
  BY <1>1, SameChain DEF Turning
<1> QED BY <1>1, <1>3, <1>6, <1>7 DEF Turning

LEMMA ReceiptTurning ==
    ASSUME ledger \in Ledgers, Turning, ReceiptAnswered PROVE Turning'
<1> DEFINE P == PageOf(address, page)
           h == Min(unverified)
           u == unverified \ {h}
           V == verified \cup Confirmed(h, P)
<1>1. /\ UNCHANGED <<ledger, walk, address, page, more, admitted, own>>
      /\ unverified' = u /\ verified' = V
      /\ pc' = IF u = {} THEN "page" ELSE "receipt"
      /\ pc = "receipt"
  BY DEF ReceiptAnswered, Calling, position, graph, results
<1>2. P \subseteq History(address) /\ P \subseteq Events
  BY PageIs
<1> HIDE DEF h
<1>3. /\ Confirmed(h, P) \subseteq Valid
      /\ \A e \in Confirmed(h, P) : address \in Parties(e)
      /\ \A e \in Valid \cap P : ledger[e].tx = h => Has(Confirmed(h, P), e)
  <2>1. \A x \in P : address \in Parties(x)
    BY <1>2 DEF History
  <2> HIDE DEF P
  <2> QED BY <1>2, <2>1, ReceiptConfirms
<1>4. Shown(address, page, unverified, verified, more) /\ Given(address, page, Taken)
  BY <1>1 DEF Turning
<1>5. Shown(address, page, u, V, more)
  BY <1>3, <1>4 DEF Shown, Has
<1>6. u \subseteq Nat /\ V \subseteq Valid
  BY <1>3 DEF Turning
<1> HIDE DEF u, V, P
<1>7. Taken' = Taken
  BY <1>1 DEF Taken
<1>8. Given(address, page, Taken)' /\ Shown(address, page, unverified, verified, more)'
  BY <1>1, <1>4, <1>5, <1>7, SamePages
<1>9. verified' \subseteq Valid' /\ admitted' \subseteq Valid' /\ own' \subseteq Valid'
  BY <1>1, <1>6, SameChain DEF Turning
<1> QED BY <1>1, <1>6, <1>8, <1>9 DEF Turning

LEMMA RetryTurning == ASSUME Turning, RetryCall PROVE Turning'
<1>1. UNCHANGED <<ledger, walk, address, page, unverified, verified, admitted, own, pc, more>>
  BY DEF RetryCall, position, graph, results
<1>2. Taken' = Taken
  BY <1>1 DEF Taken
<1> QED BY <1>1, <1>2, SameChain, SamePages DEF Turning

\* What an interruption leaves alone.
LEMMA Interrupted ==
    ASSUME NEW kind, Interrupt(kind)
    PROVE  /\ UNCHANGED <<ledger, walk, position, answer, graph, own>>
           /\ pc' = "done" /\ (walk = "own" => UNCHANGED results) /\ (walk = "graph" => score' = score)
BY DEF Interrupt, Complete, results

LEMMA InterruptTurning == ASSUME Turning, NEW kind, Interrupt(kind) PROVE Turning'
<1>1. UNCHANGED <<ledger, walk, address, page, unverified, verified, admitted, own>> /\ pc' = "done"
  BY Interrupted DEF position, answer, graph
<1> QED BY <1>1, SameChain DEF Turning

\* A call ends with an interruption, or it is one of three.
LEMMA CallIs ==
    ASSUME Call \/ Deadline
    PROVE  /\ ListAnswered \/ ReceiptAnswered \/ RetryCall \/ \E kind : Interrupt(kind)
           /\ pc # "done"
BY DEF Call, Deadline, ListAnswered, ReceiptAnswered, RetryCall, CallFails, BudgetExhausted, PagesExhausted, Calling

LEMMA CallTurning ==
    ASSUME ledger \in Ledgers, Turning, Call \/ Deadline PROVE Turning'
BY CallIs, ListTurning, ReceiptTurning, RetryTurning, InterruptTurning

----------------------------------------------------------------------------
\* The walk over the target's own history.

LEMMA BeginTurning ==
    ASSUME ledger \in Ledgers, Turning, BeginOwnHistory PROVE Turning'
<1>1. /\ UNCHANGED <<ledger, own>> /\ walk' = "own" /\ pc' = "list" /\ address' = Target /\ page' = 1
      /\ unverified' = {} /\ verified' = {} /\ admitted' = {}
  BY DEF BeginOwnHistory, results
<1>2. (ledger \in Ledgers => \A a, S : Given(a, 1, S))'
  BY FirstPage, PTL
<1>3. Given(address, page, Taken)'
  BY <1>1, <1>2
<1> QED BY <1>1, <1>3, SameChain DEF Turning

Owning ==
    /\ walk = "graph" => own = {} /\ score = NoScore
    /\ walk = "own" =>
          /\ address = Target
          /\ own \subseteq History(Target)
          /\ pc # "done" => Cardinality(own) < ScoreCap /\ score = NoScore

\* What a page adds to the history.
LEMMA OwnAdded ==
    ASSUME ledger \in Ledgers, Turning, Owning, walk = "own", pc = "page"
    PROVE  /\ own \cup FoundOwn \subseteq Valid \cap History(Target)
           /\ ~AtCap => /\ Cardinality(own \cup FoundOwn) < ScoreCap
                        /\ Given(Target, page + 1, own \cup FoundOwn)
                        /\ ~more => \A e \in Valid \cap History(Target) : Has(own \cup FoundOwn, e)
<1>1. /\ verified \subseteq Valid /\ own \subseteq Valid /\ page \in Nat \ {0}
      /\ Given(Target, page, own) /\ Shown(Target, page, {}, verified, more)
      /\ own \subseteq History(Target) /\ Cardinality(own) < ScoreCap
  BY DEF Turning, Owning, Taken
<1>2. Valid \subseteq Events /\ ScoreCap \in Nat
  BY DEF Valid
<1>3. PICK new, n : new = verified \ own /\ n = ScoreCap - Cardinality(own)
  OBVIOUS
<1>4. new \subseteq Events /\ new \cap own = {} /\ own \subseteq Events /\ n = ScoreCap - Cardinality(own)
  BY <1>1, <1>2, <1>3
<1>5. FoundOwn = FirstByKey(new, n)
  BY <1>3 DEF FoundOwn
<1> DEFINE F == FirstByKey(new, n)
<1>6. F \subseteq new
  BY <1>1, <1>2, <1>4, TakenFits
<1>7. n \in Nat /\ Cardinality(F) <= n
  BY <1>1, <1>2, <1>4, TakenFits
<1>8. Cardinality(F) \in Nat
  BY <1>1, <1>2, <1>4, TakenFits
<1>9. Cardinality(own \cup F) = Cardinality(own) + Cardinality(F)
  BY <1>1, <1>2, <1>4, TakenFits
<1>10. Cardinality(own) \in Nat
  BY <1>4, EventsAreFinite, FS_Subset, FS_CardinalityType
<1>11. F # {} /\ Cardinality(own \cup F) = ScoreCap <=> AtCap
  BY <1>5 DEF AtCap
<1>12. F = {} => Cardinality(F) = 0
  BY <1>1, <1>2, <1>4, TakenFits
<1>13. ~AtCap => F = new
  <2>1. PICK A, cap : A = own /\ cap = ScoreCap
    OBVIOUS
  <2>2. /\ A \subseteq Events /\ cap \in Nat /\ Cardinality(A) < cap /\ new \subseteq Events
        /\ new \cap A = {} /\ n = cap - Cardinality(A)
    BY <1>1, <1>2, <1>4, <2>1
  <2>3. ~AtCap => ~(F # {} /\ Cardinality(A \cup F) = cap)
    BY <1>11, <2>1
  <2> HIDE DEF F
  <2> QED BY <2>2, <2>3, TakesAll DEF F
<1>14. FoundOwn = F
  BY <1>5
<1> HIDE DEF F
<1>15. own \cup FoundOwn \subseteq Valid \cap History(Target)
  <2>1. \A e \in verified : e \in History(Target)
    BY <1>1, <1>2 DEF Shown, History
  <2> QED BY <1>1, <1>3, <1>6, <1>14, <2>1
<1>16. ~AtCap => Cardinality(own \cup F) < ScoreCap
  <2>1. F = {} => Cardinality(own \cup F) = Cardinality(own)
    BY <1>9, <1>10, <1>12
  <2>2. Cardinality(own \cup F) <= ScoreCap /\ Cardinality(own \cup F) \in Nat
    BY <1>2, <1>3, <1>7, <1>8, <1>9, <1>10
  <2> QED BY <1>1, <1>2, <1>11, <2>1, <2>2
<1>17. PICK T : T = own \cup FoundOwn
  OBVIOUS
<1>18. ~AtCap => own \subseteq T /\ verified \subseteq T
  BY <1>3, <1>13, <1>14, <1>17
<1>19. ~AtCap => /\ Given(Target, page + 1, T)
                 /\ ~more => \A e \in Valid \cap History(Target) : Has(T, e)
  BY <1>1, <1>18, PageGiven
<1> QED BY <1>14, <1>15, <1>16, <1>17, <1>19

LEMMA FollowOwnTurning ==
    ASSUME ledger \in Ledgers, Turning, Owning, FollowOwnCursor PROVE Turning' /\ Owning'
<1>1. /\ UNCHANGED <<ledger, walk, address, unverified, verified, admitted, score>>
      /\ walk = "own" /\ pc = "page" /\ ~AtCap
      /\ own' = own \cup FoundOwn /\ page' = page + 1 /\ pc' = "list"
  BY DEF FollowOwnCursor, OwnPageCollected, answer, graph
<1>2. /\ own \cup FoundOwn \subseteq Valid \cap History(Target)
      /\ Cardinality(own \cup FoundOwn) < ScoreCap
      /\ Given(Target, page + 1, own \cup FoundOwn)
  BY <1>1, OwnAdded
<1>3. Given(address, page, Taken)'
  <2>1. Taken' = own \cup FoundOwn /\ address' = Target
    BY <1>1 DEF Taken, Owning
  <2> QED BY <1>1, <1>2, <2>1, SamePages
<1>4. Turning'
  <2>1. page' \in Nat \ {0}
    BY <1>1 DEF Turning
  <2> QED BY <1>1, <1>2, <1>3, <2>1, SameChain DEF Turning
<1>5. Owning'
  BY <1>1, <1>2, SameChain DEF Owning
<1> QED BY <1>4, <1>5

\* The property, with its sets named.
WholeScore ==
    score # NoScore =>
        /\ score.given \subseteq Valid \cap History(Target)
        /\ Cardinality(score.given) <= ScoreCap
        /\ score.truncated => Cardinality(score.given) = ScoreCap
        /\ Cardinality(score.given) < ScoreCap =>
               \A e \in Valid \cap History(Target) : Has(score.given, e)

LEMMA WholeScoreIs == WholeScore => ScoredHistoryIsWhole
<1>1. {e \in History(Target) : ledger[e].kind = "valid"} = Valid \cap History(Target)
  BY PageIs DEF Valid
<1> QED BY <1>1 DEF WholeScore, ScoredHistoryIsWhole, Has

LEMMA ScoreTurning ==
    ASSUME ledger \in Ledgers, Turning, Owning, ScoreOwnHistory
    PROVE  Turning' /\ Owning' /\ WholeScore'
<1>1. /\ UNCHANGED <<ledger, walk, address, page, unverified, verified, admitted>>
      /\ walk = "own" /\ pc = "page" /\ (AtCap \/ ~more)
      /\ own' = own \cup FoundOwn /\ pc' = "done"
      /\ score' = IF own' = {} THEN score ELSE [given |-> own', truncated |-> AtCap /\ more]
  BY DEF ScoreOwnHistory, OwnPageCollected, answer, graph
<1>2. own' \subseteq Valid \cap History(Target)
  BY <1>1, OwnAdded
<1>3. Turning'
  BY <1>1, <1>2, SameChain DEF Turning
<1>4. Owning'
  BY <1>1, <1>2, SameChain DEF Owning
<1>5. ~AtCap => /\ Cardinality(own') < ScoreCap
                /\ \A e \in Valid \cap History(Target) : Has(own', e)
  BY <1>1, OwnAdded
<1>6. AtCap => Cardinality(own') = ScoreCap
  BY <1>1 DEF AtCap
<1>7. score = NoScore
  BY <1>1 DEF Owning
<1>8. own' = {} => WholeScore'
  BY <1>1, <1>7 DEF WholeScore, NoScore
<1>9. ASSUME own' # {} PROVE WholeScore'
  <2>1. score'.given = own' /\ score'.truncated = (AtCap /\ more)
    BY <1>1, <1>9
  <2>2. Cardinality(own') <= ScoreCap
    <3>1. Cardinality(own') \in Int /\ ScoreCap \in Int
      <4>1. own' \subseteq Events
        BY <1>2, PageIs
      <4>2. Cardinality(own') \in Nat
        BY <4>1, EventsAreFinite, FS_Subset, FS_CardinalityType
      <4> QED BY <4>2
    <3> QED BY <1>5, <1>6, <3>1
  <2>3. Cardinality(own') < ScoreCap => \A e \in Valid \cap History(Target) : Has(own', e)
    BY <1>5, <1>6
  <2>4. /\ Valid' = Valid /\ History(Target)' = History(Target)
        /\ \A S, e : Has(S, e)' = Has(S, e)
    BY <1>1, SameChain
  <2>5. own' \subseteq Valid' \cap History(Target)'
    BY <1>2, <2>4
  <2>6. \A e \in Valid' \cap History(Target)' : Has(own', e) => Has(score.given, e)'
    BY <2>1, <2>4
  <2> QED BY <1>6, <2>1, <2>2, <2>3, <2>4, <2>5, <2>6 DEF WholeScore
<1> QED BY <1>3, <1>4, <1>8, <1>9

----------------------------------------------------------------------------
\* The layers of the traversal.

Known(S) == {Target} \cup UNION {Parties(e) : e \in S}

\* Every confirmed transfer of the addresses of W is held.
Whole(A, W) == \A z \in W : \A e \in Valid \cap History(z) : Has(A, e)

\* The events A lead to the addresses V; those without N are within d
\* transfers of the target, those of N one farther; the address a and those
\* of f are at that depth d and no nearer.
Layers(A, V, N, a, f, d) ==
    /\ V = Known(A) /\ N \subseteq V /\ f \subseteq V \ N /\ a \in (V \ N) \ f
    /\ \A e \in A : Touching(e, V \ N)
    /\ Ball(A, d) = V \ N /\ Ball(A, d + 1) = V
    /\ d > 0 => Ball(A, d - 1) \cap (f \cup {a}) = {}

\* More transfers of a change no layer but the next.
LEMMA PageLayers ==
    ASSUME NEW A, A \subseteq Valid, NEW F, F \subseteq Valid, NEW V, NEW N, NEW a, NEW f, NEW d \in Nat,
           Layers(A, V, N, a, f, d), Whole(A, (V \ N) \ (f \cup {a})),
           \A e \in F : a \in Parties(e), NEW P, P = (UNION {Parties(e) : e \in F}) \ V
    PROVE  Layers(A \cup F, V \cup P, N \cup P, a, f, d)
<1> DEFINE C == A \cup F
<1>1. /\ V = Known(A) /\ N \subseteq V /\ f \subseteq V \ N /\ a \in (V \ N) \ f
      /\ \A e \in A : Touching(e, V \ N)
      /\ Ball(A, d) = V \ N
  BY DEF Layers
<1>2. d > 0 => d - 1 \in Nat /\ Ball(A, d - 1) \subseteq V \ N /\ Ball(A, d - 1) \cap (f \cup {a}) = {}
  BY <1>1, BallGrows DEF Layers
<1>3. ASSUME NEW e \in C, d > 0, Touching(e, Ball(A, d - 1)) PROVE \E x \in A : Parties(x) = Parties(e)
  <2>1. PICK z \in Parties(e) : z \in Ball(A, d - 1)
    BY <1>3 DEF Touching
  <2>2. z \in (V \ N) \ (f \cup {a})
    BY <1>2, <1>3, <2>1
  <2>3. e \in Valid /\ e \in Events
    BY <1>3 DEF Valid
  <2>4. e \in History(z)
    BY <2>1, <2>3 DEF History
  <2>5. Has(A, e)
    BY <2>2, <2>3, <2>4 DEF Whole
  <2> QED BY <2>3, <2>5, TwinsAreAlike DEF Has
<1>4. \A k \in 0..d : Ball(C, k) = Ball(A, k)
  <2>1. A \subseteq C
    OBVIOUS
  <2> HIDE DEF C
  <2>2. \A e \in C : d > 0 /\ Touching(e, Ball(A, d - 1)) => \E x \in A : Parties(x) = Parties(e)
    BY <1>3
  <2> QED BY ONLY d \in Nat, <2>1, <2>2, SameBall
<1>5. Ball(C, d) = V \ N /\ (d > 0 => Ball(C, d - 1) \cap (f \cup {a}) = {})
  <2>1. d \in 0..d /\ (d > 0 => d - 1 \in 0..d)
    OBVIOUS
  <2> HIDE DEF C
  <2> QED BY <1>1, <1>2, <1>4, <2>1
<1>6. (V \cup P) \ (N \cup P) = V \ N
  <2>1. P \cap V = {}
    OBVIOUS
  <2> QED BY ONLY <1>1, <2>1
<1>7. V \cup P = Known(C)
  <2> DEFINE pA == UNION {Parties(e) : e \in A}
             pF == UNION {Parties(e) : e \in F}
             pC == UNION {Parties(e) : e \in C}
  <2>1. pC = pA \cup pF
    BY Zenon
  <2>2. V = {Target} \cup pA /\ Known(C) = {Target} \cup pC
    BY <1>1 DEF Known
  <2>3. P = pF \ V
    OBVIOUS
  <2> HIDE DEF pA, pF, pC
  <2> QED BY ONLY <2>1, <2>2, <2>3
<1>8. \A e \in C : Touching(e, V \ N)
  BY <1>1 DEF Touching
<1>9. Neighbours(C, V \ N) = UNION {Parties(e) : e \in C}
  BY <1>8 DEF Neighbours, Touching
<1>10. Ball(C, d + 1) = (V \ N) \cup UNION {Parties(e) : e \in C}
  BY <1>5, <1>9, BallNext
<1>11. Target \in V \ N
  <2>1. Ball(A, 0) \subseteq Ball(A, d) /\ Target \in Ball(A, 0)
    BY BallGrows, BallZero
  <2> QED BY <1>1, <2>1
<1>12. Ball(C, d + 1) = V \cup P
  <2>1. V \ N \subseteq Known(C)
    BY <1>1, <1>7
  <2> QED BY <1>7, <1>10, <1>11, <2>1 DEF Known
<1>13. N \cup P \subseteq V \cup P
  BY <1>1
<1> HIDE DEF C
<1> QED BY <1>1, <1>5, <1>6, <1>7, <1>8, <1>12, <1>13 DEF Layers, C

\* The next address of the depth.
LEMMA AddressLayers ==
    ASSUME NEW A, NEW V, NEW N, NEW a, NEW f, NEW d, Layers(A, V, N, a, f, d), NEW m \in f
    PROVE  Layers(A, V, N, m, f \ {m}, d)
BY DEF Layers

\* The addresses of the next layer.
LEMMA DepthLayers ==
    ASSUME NEW A, NEW V, NEW N, NEW a, NEW d \in Nat, Layers(A, V, N, a, {}, d), NEW m \in N
    PROVE  Layers(A, V, {}, m, N \ {m}, d + 1)
<1>1. /\ V = Known(A) /\ N \subseteq V /\ \A e \in A : Touching(e, V \ N)
      /\ Ball(A, d) = V \ N /\ Ball(A, d + 1) = V
  BY DEF Layers
<1>2. d + 1 \in Nat /\ (d + 1) + 1 \in Nat /\ d + 1 <= (d + 1) + 1 /\ (d + 1) - 1 = d
  OBVIOUS
<1>3. Target \in V /\ \A e \in A : Parties(e) \subseteq V
  BY <1>1 DEF Known
<1>4. Ball(A, (d + 1) + 1) \subseteq V
  BY <1>2, <1>3, BallInside
<1>5. V \subseteq Ball(A, (d + 1) + 1)
  BY <1>1, <1>2, BallGrows
<1>6. Ball(A, (d + 1) + 1) = V
  BY <1>4, <1>5
<1>7. \A e \in A : Touching(e, V)
  BY <1>1 DEF Touching
<1>8. Ball(A, (d + 1) - 1) \cap ((N \ {m}) \cup {m}) = {}
  BY <1>1, <1>2
<1>9. V \ {} = V /\ {} \subseteq V /\ N \ {m} \subseteq V /\ m \in V \ (N \ {m})
  BY <1>1
<1> QED BY <1>1, <1>6, <1>7, <1>8, <1>9 DEF Layers

----------------------------------------------------------------------------
\* What is told of a collection.

\* Every confirmed transfer of the addresses nearer than the Traversal Depth.
AllNear(C) == \A e \in Valid : Touching(e, Ball(Valid, TraversalDepth - 1)) => Has(C, e)

IsDistance(C, r) ==
    /\ \A e \in C : Touching(e, Ball(C, TraversalDepth - 1))
    /\ Known(C) \subseteq Ball(C, r)
    /\ r > 0 => ~(Known(C) \subseteq Ball(C, r - 1))

Told ==
    Published =>
        /\ outcome.transfers \subseteq Valid /\ outcome.depth \in Nat
        /\ ~outcome.partial /\ outcome.stop # "transfer_limit" => AllNear(outcome.transfers)
        /\ IsDistance(outcome.transfers, outcome.depth)

LEMMA ToldIs == Told => CompleteUnlessTold /\ DepthIsDistance
<1>1. {e \in Events : ledger[e].kind = "valid"} = Valid
  BY DEF Valid
<1>2. Told => CompleteUnlessTold
  BY <1>1 DEF Told, CompleteUnlessTold, AllNear, Has
<1>3. Told => DepthIsDistance
  BY DEF Told, DepthIsDistance, IsDistance, Known
<1> QED BY <1>2, <1>3

\* The depth is told of the layers.
LEMMA LayersDistance ==
    ASSUME NEW A, NEW V, NEW N, NEW a, NEW f, NEW d \in 0..(TraversalDepth - 1),
           Layers(A, V, N, a, f, d), NEW r, r = IF N = {} THEN d ELSE d + 1
    PROVE  IsDistance(A, r)
<1>1. /\ V = Known(A) /\ N \subseteq V /\ a \in V \ N
      /\ \A e \in A : Touching(e, V \ N)
      /\ Ball(A, d) = V \ N /\ Ball(A, d + 1) = V
      /\ d > 0 => a \notin Ball(A, d - 1)
  BY DEF Layers
<1>2. Ball(A, d) \subseteq Ball(A, TraversalDepth - 1)
  <2>1. d \in Nat /\ TraversalDepth - 1 \in Nat /\ d <= TraversalDepth - 1
    OBVIOUS
  <2> QED BY <2>1, BallGrows
<1>3. \A e \in A : Touching(e, Ball(A, TraversalDepth - 1))
  BY <1>1, <1>2 DEF Touching
<1>4. CASE N = {}
  BY <1>1, <1>3, <1>4 DEF IsDistance
<1>5. CASE N # {}
  <2>1. (d + 1) - 1 = d /\ r = d + 1
    BY <1>5
  <2> QED BY <1>1, <1>3, <1>5, <2>1 DEF IsDistance
<1> QED BY <1>4, <1>5

\* A traversal that found nobody new holds everything.
LEMMA AllNearExhausted ==
    ASSUME NEW A, A \subseteq Valid, NEW V, V = Known(A), Whole(A, V)
    PROVE  AllNear(A)
<1>1. ASSUME NEW e \in Valid, Touching(e, V) PROVE Has(A, e) /\ Parties(e) \subseteq V
  <2>1. e \in Events /\ \E z \in V : e \in History(z)
    BY <1>1 DEF Valid, Touching, History
  <2>2. Has(A, e)
    BY <2>1 DEF Whole
  <2>3. PICK x \in A : Parties(x) = Parties(e)
    BY <2>1, <2>2, TwinsAreAlike DEF Has
  <2> QED BY <2>2, <2>3 DEF Known
<1>2. Target \in V
  BY DEF Known
<1>3. TraversalDepth - 1 \in Nat
  OBVIOUS
<1>4. Ball(Valid, TraversalDepth - 1) \subseteq V
  BY <1>1, <1>2, <1>3, BallInside
<1> QED BY <1>1, <1>4 DEF AllNear, Touching

\* A traversal of the depth asked for holds everything nearer.
LEMMA AllNearReached ==
    ASSUME NEW A, A \subseteq Valid, NEW W, NEW d \in Nat, d + 1 = TraversalDepth,
           Ball(A, d) = W, Whole(A, W)
    PROVE  AllNear(A)
<1>1. ASSUME NEW e \in Valid, Touching(e, W) PROVE Has(A, e) /\ \E x \in A : Parties(x) = Parties(e)
  <2>1. e \in Events /\ \E z \in W : e \in History(z)
    BY <1>1 DEF Valid, Touching, History
  <2>2. Has(A, e)
    BY <2>1 DEF Whole
  <2> QED BY <2>1, <2>2, TwinsAreAlike DEF Has
<1>2. ASSUME NEW e \in Valid, d > 0, Touching(e, Ball(A, d - 1)) PROVE \E x \in A : Parties(x) = Parties(e)
  <2>1. d - 1 \in Nat /\ d - 1 <= d
    BY <1>2
  <2>2. Ball(A, d - 1) \subseteq W
    BY <2>1, BallGrows
  <2>3. Touching(e, W)
    BY <1>2, <2>2 DEF Touching
  <2> QED BY <1>1, <2>3
<1>3. \A k \in 0..d : Ball(Valid, k) = Ball(A, k)
  <2>1. \A e \in Valid : d > 0 /\ Touching(e, Ball(A, d - 1)) => \E x \in A : Parties(x) = Parties(e)
    BY <1>2
  <2> QED BY <2>1, SameBall
<1>4. TraversalDepth - 1 = d /\ d \in 0..d
  OBVIOUS
<1>5. Ball(Valid, TraversalDepth - 1) = W
  BY <1>3, <1>4
<1> QED BY <1>1, <1>5 DEF AllNear

----------------------------------------------------------------------------
\* What a step that adds no block leaves alone.

AreDistances ==
    \A S : Ball(S, 0) = {Target} /\ \A n \in Nat : Ball(S, n + 1) = Ball(S, n) \cup Neighbours(S, Ball(S, n))

LEMMA Distances == AreDistances
BY BallZero, BallNext DEF AreDistances

LEMMA SameDistances ==
    ASSUME ledger' = ledger
    PROVE  \A S : \A n \in Nat : Ball(S, n)' = Ball(S, n)
<1>1. AreDistances'
  BY Distances, PTL
<1> SUFFICES ASSUME NEW S PROVE \A n \in Nat : Ball(S, n)' = Ball(S, n)
  OBVIOUS
<1>2. \A A : Neighbours(S, A)' = Neighbours(S, A)
  BY SameChain DEF Neighbours
<1> DEFINE Same == {n \in Nat : Ball(S, n)' = Ball(S, n)}
<1>3. 0 \in Same
  BY <1>1, BallZero DEF AreDistances
<1>4. ASSUME NEW n \in Nat, n \in Same PROVE n + 1 \in Same
  <2>1. Ball(S, n)' = Ball(S, n)
    BY <1>4
  <2>2. Ball(S, n + 1)' = Ball(S, n)' \cup Neighbours(S, Ball(S, n))'
    BY <1>1 DEF AreDistances
  <2>3. Neighbours(S, Ball(S, n))' = Neighbours(S, Ball(S, n))
    BY <1>2, <2>1 DEF Neighbours
  <2>4. Ball(S, n + 1)' = Ball(S, n + 1)
    BY <2>1, <2>2, <2>3, BallNext
  <2> QED BY <2>4
<1>5. Nat \subseteq Same
  <2> HIDE DEF Same
  <2> QED BY <1>3, <1>4, Induction
<1> QED BY <1>5

LEMMA SameLayers ==
    ASSUME ledger' = ledger, NEW A, NEW V, NEW N, NEW a, NEW f, NEW d \in Nat
    PROVE  /\ Layers(A, V, N, a, f, d)' <=> Layers(A, V, N, a, f, d)
           /\ Whole(A, V)' <=> Whole(A, V)
<1>1. /\ \A S : Known(S)' = Known(S)
      /\ \A e, S : Touching(e, S)' <=> Touching(e, S)
  BY SameChain DEF Known, Touching
<1>2. d + 1 \in Nat /\ (d > 0 => d - 1 \in Nat)
  OBVIOUS
<1>3. /\ Ball(A, d)' = Ball(A, d) /\ Ball(A, d + 1)' = Ball(A, d + 1)
      /\ d > 0 => Ball(A, d - 1)' = Ball(A, d - 1)
  BY <1>2, SameDistances
<1>4. Layers(A, V, N, a, f, d)' <=> Layers(A, V, N, a, f, d)
  BY <1>1, <1>3 DEF Layers
<1>5. Whole(A, V)' <=> Whole(A, V)
  BY SameChain DEF Whole
<1> QED BY <1>4, <1>5

LEMMA SameTold ==
    ASSUME ledger' = ledger, NEW C, NEW r \in Nat
    PROVE  /\ AllNear(C)' <=> AllNear(C)
           /\ IsDistance(C, r)' <=> IsDistance(C, r)
<1>1. /\ \A S : Known(S)' = Known(S)
      /\ \A e, S : Touching(e, S)' <=> Touching(e, S)
  BY SameChain DEF Known, Touching
<1>2. TraversalDepth - 1 \in Nat /\ (r > 0 => r - 1 \in Nat)
  OBVIOUS
<1>3. /\ \A S : Ball(S, TraversalDepth - 1)' = Ball(S, TraversalDepth - 1)
      /\ Ball(C, r)' = Ball(C, r) /\ (r > 0 => Ball(C, r - 1)' = Ball(C, r - 1))
  BY <1>2, SameDistances
<1>4. AllNear(C)' <=> AllNear(C)
  BY <1>1, <1>3, SameChain DEF AllNear
<1>5. IsDistance(C, r)' <=> IsDistance(C, r)
  BY <1>1, <1>3 DEF IsDistance
<1> QED BY <1>4, <1>5

----------------------------------------------------------------------------
\* The traversal.

Layered ==
    /\ frontier \subseteq Addresses /\ visited \subseteq Addresses /\ next \subseteq Addresses
    /\ depth \in 0..(TraversalDepth - 1)
    /\ walk = "graph" /\ pc # "done" =>
          /\ Layers(admitted, visited, next, address, frontier, depth)
          /\ Whole(admitted, (visited \ next) \ (frontier \cup {address}))
          /\ reached = IF next = {} THEN depth ELSE depth + 1

\* The graph once a page is collected.
LEMMA PageLayered ==
    ASSUME Honest, Turning, Layered, walk = "graph", pc = "page"
    PROVE  /\ Collected \subseteq Valid
           /\ visited \cup Peers \subseteq Addresses /\ Level \subseteq Addresses
           /\ Layers(Collected, visited \cup Peers, Level, address, frontier, depth)
           /\ Depth = IF Level = {} THEN depth ELSE depth + 1
           /\ ~AtLimit => Given(address, page + 1, Collected)
           /\ ~AtLimit /\ ~more => Whole(Collected, ((visited \cup Peers) \ Level) \ frontier)
           /\ Whole(Collected, ((visited \cup Peers) \ Level) \ (frontier \cup {address}))
<1>1. /\ verified \subseteq Valid /\ admitted \subseteq Valid /\ page \in Nat \ {0}
      /\ Given(address, page, admitted) /\ Shown(address, page, {}, verified, more)
  BY DEF Turning, Taken
<1>2. /\ Layers(admitted, visited, next, address, frontier, depth)
      /\ Whole(admitted, (visited \ next) \ (frontier \cup {address}))
      /\ reached = IF next = {} THEN depth ELSE depth + 1
      /\ visited \subseteq Addresses /\ next \subseteq Addresses
      /\ depth \in Nat
  BY DEF Layered
<1>3. ledger \in Ledgers /\ Going /\ Valid \subseteq Events
  BY DEF Honest, Valid
<1>4. PICK new, n : new = verified \ admitted /\ n = TransferLimit - Cardinality(admitted)
  OBVIOUS
<1>5. /\ new \subseteq Events /\ new \cap admitted = {} /\ admitted \subseteq Events
      /\ Cardinality(admitted) < TransferLimit /\ TransferLimit \in Nat
  BY <1>1, <1>3, <1>4 DEF Going
<1>6. Found = FirstByKey(new, n)
  BY <1>4 DEF Found
<1>7. Found \subseteq new
  BY <1>3, <1>4, <1>5, <1>6, TakenFits
<1>8. ~AtLimit => Found = new
  <2>1. PICK A, cap, F : A = admitted /\ cap = TransferLimit /\ F = Found
    OBVIOUS
  <2>2. /\ A \subseteq Events /\ cap \in Nat /\ Cardinality(A) < cap /\ new \subseteq Events
        /\ new \cap A = {} /\ n = cap - Cardinality(A) /\ F = FirstByKey(new, n)
    BY <1>4, <1>5, <1>6, <2>1
  <2>3. ~AtLimit => ~(F # {} /\ Cardinality(A \cup F) = cap)
    BY <2>1 DEF AtLimit, Collected
  <2> QED BY <1>3, <2>1, <2>2, <2>3, TakesAll
<1>9. Found \subseteq Valid /\ \A e \in Found : address \in Parties(e)
  BY <1>1, <1>4, <1>7 DEF Shown
<1>10. Peers = (UNION {Parties(e) : e \in Found}) \ visited
  BY DEF Peers
<1>11. Layers(Collected, visited \cup Peers, Level, address, frontier, depth)
  BY ONLY CollectorAssumption, <1>1, <1>2, <1>9, <1>10, PageLayers DEF Collected, Level
<1>12. Collected \subseteq Valid
  BY <1>1, <1>9 DEF Collected
<1>13. Peers \subseteq Addresses
  <2>1. \A e \in Found : Parties(e) \subseteq Addresses
    BY <1>3, <1>9, EventsAre
  <2> QED BY <1>10, <2>1
<1>14. Depth = IF Level = {} THEN depth ELSE depth + 1
  <2>1. CASE Peers = {}
    BY <1>2, <2>1 DEF Depth, Level
  <2>2. CASE Peers # {} /\ next = {}
    <3>1. reached = depth /\ depth + 1 > reached
      BY <1>2, <2>2
    <3> QED BY <2>2, <3>1 DEF Depth, Level
  <2>3. CASE Peers # {} /\ next # {}
    <3>1. reached = depth + 1
      BY <1>2, <2>3, Zenon
    <3>2. ~(depth + 1 > reached)
      BY <1>2, <3>1
    <3> QED BY <2>3, <3>1, <3>2 DEF Depth, Level
  <2> QED BY <2>1, <2>2, <2>3
<1>15. ASSUME ~AtLimit
       PROVE  /\ Given(address, page + 1, Collected)
              /\ ~more => \A e \in Valid \cap History(address) : Has(Collected, e)
  <2>1. PICK T : T = Collected
    OBVIOUS
  <2>2. admitted \subseteq T /\ verified \subseteq T
    BY <1>4, <1>8, <1>15, <2>1 DEF Collected
  <2>3. Given(address, page + 1, T) /\ (~more => \A e \in Valid \cap History(address) : Has(T, e))
    BY <1>1, <1>3, <2>2, PageGiven
  <2> QED BY <2>1, <2>3
<1>16. (visited \cup Peers) \ Level = visited \ next
  <2>1. Peers \cap visited = {}
    BY <1>10
  <2> QED BY <2>1 DEF Level
<1>17. Whole(Collected, (visited \ next) \ (frontier \cup {address}))
  BY <1>2 DEF Whole, Has, Collected
<1>18. ~AtLimit /\ ~more => Whole(Collected, (visited \ next) \ frontier)
  BY <1>15, <1>17 DEF Whole
<1> QED BY <1>2, <1>11, <1>12, <1>13, <1>14, <1>15, <1>16, <1>17, <1>18 DEF Level

\* The next page to be fetched is one of which nothing was missed.
LEMMA NextTurning ==
    ASSUME Turning, walk = "graph", PageCollected, UNCHANGED results, pc' = "list", Collected \subseteq Valid,
           NEW a \in Addresses, address' = a, NEW k \in Nat \ {0}, page' = k, Given(a, k, Collected)
    PROVE  Turning'
<1>1. UNCHANGED <<ledger, walk, unverified, verified, own>> /\ admitted' = Collected
  BY DEF PageCollected, answer, results
<1>2. Taken' = Collected
  BY <1>1 DEF Taken
<1>3. Given(address, page, Taken)'
  <2>1. PICK T : T = Collected
    OBVIOUS
  <2>2. Given(a, k, T)'
    BY <1>1, <2>1, SamePages
  <2> QED BY <1>2, <2>1, <2>2
<1> QED BY <1>1, <1>3, SameChain DEF Turning

\* The layers after a page are those of the next state.
LEMMA NextLayered ==
    ASSUME walk = "graph", PageCollected, NEW A, A = Collected, NEW V, V = visited \cup Peers,
           NEW N, next' = N, NEW a, address' = a, NEW f, frontier' = f,
           NEW d \in 0..(TraversalDepth - 1), depth' = d,
           V \subseteq Addresses, N \subseteq Addresses, f \subseteq Addresses,
           Layers(A, V, N, a, f, d), Whole(A, (V \ N) \ (f \cup {a})),
           Depth = IF N = {} THEN d ELSE d + 1
    PROVE  Layered'
<1>1. ledger' = ledger /\ admitted' = A /\ visited' = V /\ reached' = Depth
  BY DEF PageCollected
<1>2. Layers(A, V, N, a, f, d)'
  BY <1>1, SameLayers
<1>3. PICK W : W = (V \ N) \ (f \cup {a})
  OBVIOUS
<1>4. Whole(A, W)'
  BY <1>1, <1>3, SameChain DEF Whole
<1> QED BY <1>1, <1>2, <1>3, <1>4 DEF Layered

LEMMA FollowCursorGoesOn ==
    ASSUME Honest, Turning, Layered, FollowCursor PROVE Turning' /\ Layered'
<1>1. /\ walk = "graph" /\ pc = "page" /\ PageCollected /\ ~AtLimit /\ UNCHANGED results /\ pc' = "list"
      /\ page' = page + 1 /\ next' = Level /\ UNCHANGED <<address, frontier, depth>>
  BY DEF FollowCursor, PageCollected
<1>2. Turning'
  <2>1. PICK a, k : a = address /\ k = page + 1
    OBVIOUS
  <2>2. /\ a \in Addresses /\ k \in Nat \ {0} /\ address' = a /\ page' = k
    BY <1>1, <2>1 DEF Turning
  <2>3. Collected \subseteq Valid /\ Given(a, k, Collected)
    BY <1>1, <2>1, PageLayered
  <2> QED BY <1>1, <2>2, <2>3, NextTurning
<1>3. Layered'
  <2>1. PICK A, V, N, a, f, d : /\ A = Collected /\ V = visited \cup Peers /\ N = Level
                                /\ a = address /\ f = frontier /\ d = depth
    OBVIOUS
  <2>2. /\ V \subseteq Addresses /\ N \subseteq Addresses /\ Layers(A, V, N, a, f, d)
        /\ Whole(A, (V \ N) \ (f \cup {a})) /\ Depth = IF N = {} THEN d ELSE d + 1
    BY <1>1, <2>1, PageLayered
  <2>3. /\ next' = N /\ address' = a /\ frontier' = f /\ depth' = d
        /\ f \subseteq Addresses /\ d \in 0..(TraversalDepth - 1)
    BY <1>1, <2>1 DEF Layered
  <2> QED BY <1>1, <2>1, <2>2, <2>3, NextLayered
<1> QED BY <1>2, <1>3

LEMMA NextAddressGoesOn ==
    ASSUME Honest, Turning, Layered, NextAddress PROVE Turning' /\ Layered'
<1>1. /\ walk = "graph" /\ pc = "page" /\ PageCollected /\ ~AtLimit /\ ~more /\ UNCHANGED results /\ pc' = "list"
      /\ frontier # {} /\ address' = Min(frontier) /\ frontier' = frontier \ {Min(frontier)}
      /\ page' = 1 /\ next' = Level /\ depth' = depth
  BY DEF NextAddress, PageCollected, Fetch
<1>2. frontier \subseteq Addresses /\ frontier \subseteq Nat /\ depth \in 0..(TraversalDepth - 1)
  BY DEF Layered
<1>3. PICK A, V, N, m, f, d : /\ A = Collected /\ V = visited \cup Peers /\ N = Level
                              /\ m = Min(frontier) /\ f = frontier /\ d = depth
  OBVIOUS
<1>4. m \in f
  BY <1>1, <1>2, <1>3, MinOfSet
<1>5. /\ A \subseteq Valid /\ V \subseteq Addresses /\ N \subseteq Addresses
      /\ Layers(A, V, N, address, f, d) /\ Whole(A, (V \ N) \ f)
      /\ Depth = IF N = {} THEN d ELSE d + 1
  BY <1>1, <1>3, PageLayered
<1>6. Turning'
  <2>1. PICK k : k = 1
    OBVIOUS
  <2>2. m \in Addresses /\ k \in Nat \ {0} /\ address' = m /\ page' = k
    BY <1>1, <1>2, <1>3, <1>4, <2>1
  <2>3. Given(m, k, Collected)
    BY <2>1, FirstPage DEF Honest
  <2> QED BY <1>1, <1>3, <1>5, <2>2, <2>3, NextTurning
<1>7. Layered'
  <2>1. PICK g : g = f \ {m}
    OBVIOUS
  <2>2. Layers(A, V, N, m, g, d)
    <3>1. PICK a : a = address
      OBVIOUS
    <3> QED BY <1>4, <1>5, <2>1, <3>1, AddressLayers
  <2>3. (V \ N) \ (g \cup {m}) = (V \ N) \ f
    BY <1>4, <2>1
  <2>4. Whole(A, (V \ N) \ (g \cup {m}))
    BY <1>5, <2>3
  <2>5. /\ next' = N /\ address' = m /\ frontier' = g /\ depth' = d
        /\ g \subseteq Addresses /\ d \in 0..(TraversalDepth - 1)
    BY <1>1, <1>2, <1>3, <2>1
  <2> QED BY <1>1, <1>3, <1>5, <2>2, <2>4, <2>5, NextLayered
<1> QED BY <1>6, <1>7

LEMMA NextDepthGoesOn ==
    ASSUME Honest, Turning, Layered, NextDepth PROVE Turning' /\ Layered'
<1>1. /\ walk = "graph" /\ pc = "page" /\ PageCollected /\ ~AtLimit /\ ~more /\ UNCHANGED results /\ pc' = "list"
      /\ frontier = {} /\ Level # {} /\ address' = Min(Level) /\ frontier' = Level \ {Min(Level)}
      /\ page' = 1 /\ next' = {} /\ depth' = depth + 1 /\ depth + 1 < TraversalDepth
  BY DEF NextDepth, LevelCollected, PageCollected, Fetch
<1>2. depth \in Nat
  BY DEF Layered
<1>3. PICK A, V, N, m, d : /\ A = Collected /\ V = visited \cup Peers /\ N = Level
                           /\ m = Min(Level) /\ d = depth
  OBVIOUS
<1>4. /\ A \subseteq Valid /\ V \subseteq Addresses /\ N \subseteq Addresses
      /\ Layers(A, V, N, address, {}, d) /\ Whole(A, (V \ N) \ {})
      /\ Depth = IF N = {} THEN d ELSE d + 1
  BY <1>1, <1>3, PageLayered
<1>5. m \in N
  <2>1. N \subseteq Nat
    BY <1>4
  <2> QED BY <1>1, <1>3, <2>1, MinOfSet
<1>6. Turning'
  <2>1. PICK k : k = 1
    OBVIOUS
  <2>2. m \in Addresses /\ k \in Nat \ {0} /\ address' = m /\ page' = k
    BY <1>1, <1>3, <1>4, <1>5, <2>1
  <2>3. Given(m, k, Collected)
    BY <2>1, FirstPage DEF Honest
  <2> QED BY <1>1, <1>3, <1>4, <2>2, <2>3, NextTurning
<1>7. Layered'
  <2>1. PICK g, c, e : g = N \ {m} /\ c = d + 1 /\ e = {}
    OBVIOUS
  <2>2. Layers(A, V, e, m, g, c)
    <3>1. PICK a : a = address
      OBVIOUS
    <3>2. Layers(A, V, {}, m, N \ {m}, d + 1)
      BY <1>2, <1>3, <1>4, <1>5, <3>1, DepthLayers
    <3> QED BY <2>1, <3>2
  <2>3. (V \ e) \ (g \cup {m}) = (V \ N) \ {}
    BY <1>5, <2>1
  <2>4. Whole(A, (V \ e) \ (g \cup {m}))
    BY <1>4, <2>3
  <2>5. /\ next' = e /\ address' = m /\ frontier' = g /\ depth' = c
        /\ g \subseteq Addresses /\ e \subseteq Addresses /\ c \in 0..(TraversalDepth - 1)
    <3>1. c \in Nat /\ c < TraversalDepth /\ TraversalDepth \in Nat
      BY <1>1, <1>2, <1>3, <2>1
    <3>2. c \in 0..(TraversalDepth - 1)
      BY <3>1
    <3> QED BY <1>1, <1>3, <1>4, <2>1, <3>2
  <2>6. Depth = IF e = {} THEN c ELSE c + 1
    BY <1>4, <1>5, <2>1
  <2> QED BY <1>1, <1>3, <1>4, <2>2, <2>4, <2>5, <2>6, NextLayered
<1> QED BY <1>6, <1>7

----------------------------------------------------------------------------
\* How a collection ends.

LEMMA CarryTold == ASSUME ledger' = ledger, outcome' = outcome, Told PROVE Told'
<1>1. Published' <=> Published
  BY DEF Published, None, Failed
<1>2. CASE Published
  <2>1. PICK C, r : C = outcome.transfers /\ r = outcome.depth
    OBVIOUS
  <2>2. r \in Nat /\ C \subseteq Valid /\ IsDistance(C, r)
        /\ (~outcome.partial /\ outcome.stop # "transfer_limit" => AllNear(C))
    BY <1>2, <2>1 DEF Told
  <2>3. IsDistance(C, r)' /\ (AllNear(C)' <=> AllNear(C))
    BY <2>2, SameTold
  <2> QED BY <2>1, <2>2, <2>3, SameChain DEF Told
<1> QED BY <1>1, <1>2 DEF Told

LEMMA CompleteTold ==
    ASSUME ledger' = ledger, NEW stop, NEW partial, NEW confidence, NEW C, C \subseteq Valid, NEW r \in Nat,
           outcome' = [stop |-> stop, partial |-> partial, confidence |-> confidence,
                       transfers |-> C, depth |-> r],
           IsDistance(C, r), ~partial /\ stop # "transfer_limit" => AllNear(C)
    PROVE  Told'
<1>1. IsDistance(C, r)' /\ (AllNear(C)' <=> AllNear(C))
  BY SameTold
<1>2. /\ outcome'.transfers = C /\ outcome'.depth = r /\ outcome'.partial = partial /\ outcome'.stop = stop
  OBVIOUS
<1>3. C \subseteq Valid'
  BY SameChain
<1> QED BY <1>1, <1>2, <1>3 DEF Told

LEMMA InterruptTold ==
    ASSUME Turning, Layered, Told, walk \in {"graph", "own"}, pc # "done", NEW kind, Interrupt(kind)
    PROVE  Told'
<1>1. ledger' = ledger
  BY DEF Interrupt
<1>2. CASE walk = "own"
  BY <1>1, <1>2, Interrupted, CarryTold DEF results
<1>3. CASE walk = "graph" /\ outcome' = Failed
  BY <1>3 DEF Told, Published
<1>4. CASE walk = "graph" /\ outcome' # Failed
  <2>1. PICK c, A, r : /\ A = admitted /\ r = reached
                       /\ outcome' = [stop |-> kind, partial |-> TRUE, confidence |-> c,
                                      transfers |-> A, depth |-> r]
    BY <1>4 DEF Interrupt, Complete
  <2>2. PICK V, N, a, f, d : V = visited /\ N = next /\ a = address /\ f = frontier /\ d = depth
    OBVIOUS
  <2>3. /\ A \subseteq Valid /\ Layers(A, V, N, a, f, d) /\ d \in 0..(TraversalDepth - 1)
        /\ r = IF N = {} THEN d ELSE d + 1
    BY <1>4, <2>1, <2>2 DEF Turning, Layered
  <2>4. IsDistance(A, r) /\ r \in Nat
    BY <2>3, LayersDistance
  <2> QED BY <1>1, <2>1, <2>3, <2>4, CompleteTold
<1> QED BY <1>2, <1>3, <1>4

LEMMA StopTold ==
    ASSUME Honest, Turning, Layered, walk = "graph", pc = "page", PageCollected,
           NEW stop, NEW confidence, Stop(stop, confidence), stop # "transfer_limit" => AllNear(Collected)
    PROVE  Told'
<1>1. PICK A, V, N, a, f, d, r : /\ A = Collected /\ V = visited \cup Peers /\ N = Level
                                 /\ a = address /\ f = frontier /\ d = depth /\ r = Depth
  OBVIOUS
<1>2. /\ A \subseteq Valid /\ Layers(A, V, N, a, f, d) /\ r = IF N = {} THEN d ELSE d + 1
  BY <1>1, PageLayered
<1>3. d \in 0..(TraversalDepth - 1)
  BY <1>1 DEF Layered
<1>4. IsDistance(A, r) /\ r \in Nat
  BY <1>2, <1>3, LayersDistance
<1>5. outcome' = [stop |-> stop, partial |-> FALSE, confidence |-> confidence, transfers |-> A, depth |-> r]
  BY <1>1 DEF Stop, Complete
<1>6. ledger' = ledger
  BY DEF PageCollected
<1>7. stop # "transfer_limit" => AllNear(A)
  BY <1>1
<1> QED BY <1>2, <1>4, <1>5, <1>6, <1>7, CompleteTold

LEMMA StopsTold ==
    ASSUME Honest, Turning, Layered, StopAtLimit \/ SourceExhausted \/ DepthReached
    PROVE  Told'
<1>1. walk = "graph" /\ pc = "page" /\ PageCollected
  BY DEF StopAtLimit, SourceExhausted, DepthReached, LevelCollected, PageCollected
<1>2. CASE StopAtLimit
  BY <1>1, <1>2, StopTold DEF StopAtLimit
<1> SUFFICES ASSUME SourceExhausted \/ DepthReached PROVE Told'
  BY <1>2
<1>3. ~AtLimit /\ ~more /\ frontier = {}
  BY DEF SourceExhausted, DepthReached, LevelCollected
<1>4. PICK A, V, N, a, d, W : /\ A = Collected /\ V = visited \cup Peers /\ N = Level
                              /\ a = address /\ d = depth /\ W = V \ N
  OBVIOUS
<1>5. /\ A \subseteq Valid /\ Layers(A, V, N, a, {}, d) /\ Whole(A, W \ {}) /\ d \in Nat
  BY <1>1, <1>3, <1>4, PageLayered DEF Layered
<1>6. Whole(A, W) /\ V = Known(A) /\ Ball(A, d) = W
  BY <1>4, <1>5 DEF Layers
<1>7. CASE SourceExhausted
  <2>1. W = V
    BY <1>4, <1>7 DEF SourceExhausted
  <2>2. AllNear(A)
    BY <1>5, <1>6, <2>1, AllNearExhausted
  <2> QED BY <1>1, <1>4, <1>7, <2>2, StopTold DEF SourceExhausted
<1>8. CASE DepthReached
  <2>1. d + 1 = TraversalDepth
    BY <1>4, <1>8 DEF DepthReached
  <2>2. AllNear(A)
    BY <1>5, <1>6, <2>1, AllNearReached
  <2> QED BY <1>1, <1>4, <1>8, <2>2, StopTold DEF DepthReached
<1> QED BY <1>7, <1>8

----------------------------------------------------------------------------
\* All of it is inductive.

CollectionHolds ==
    Honest /\ Turning /\ Layered /\ Owning /\ Told /\ WholeScore

\* While the graph is walked there is no history; once it is scored, there is
\* no more to come.
LEMMA CarryOwning ==
    ASSUME ledger' = ledger, UNCHANGED <<walk, address, own, score>>, pc' = pc \/ pc' = "done" \/ pc # "done", Owning
    PROVE  Owning'
BY SameChain DEF Owning

LEMMA CarryScore == ASSUME ledger' = ledger, score' = score, WholeScore PROVE WholeScore'
<1>1. CASE score = NoScore
  BY <1>1 DEF WholeScore, NoScore
<1>2. CASE score # NoScore
  BY <1>2, SameChain DEF WholeScore, NoScore
<1> QED BY <1>1, <1>2

\* Steps of a page, and interruptions, leave the layers alone.
LEMMA CarryLayered ==
    ASSUME ledger' = ledger, UNCHANGED <<walk, position, graph>>, Layered, pc # "done" \/ pc' = pc
    PROVE  Layered'
<1>1. UNCHANGED <<address, frontier, depth, admitted, visited, next, reached>>
  <2>1. UNCHANGED <<address, page, frontier, depth>>
    BY DEF position
  <2>2. UNCHANGED <<admitted, visited, next, reached>>
    BY DEF graph
  <2> QED BY <2>1, <2>2
<1>2. CASE walk = "graph" /\ pc # "done"
  <2>1. PICK A, V, N, a, f, d, W : /\ A = admitted /\ V = visited /\ N = next /\ a = address
                                   /\ f = frontier /\ d = depth /\ W = (visited \ next) \ (frontier \cup {address})
    OBVIOUS
  <2>2. Layers(A, V, N, a, f, d) /\ Whole(A, W) /\ d \in Nat
    BY <1>2, <2>1 DEF Layered
  <2>3. Layers(A, V, N, a, f, d)' /\ Whole(A, W)'
    BY <2>2, SameLayers, SameChain DEF Whole
  <2> QED BY <1>1, <2>1, <2>3 DEF Layered
<1>3. CASE ~(walk = "graph" /\ pc # "done")
  BY <1>1, <1>3 DEF Layered
<1> QED BY <1>2, <1>3

LEMMA CallHolds ==
    ASSUME CollectionHolds, Call \/ Deadline
    PROVE  Turning' /\ Layered' /\ Owning' /\ Told' /\ WholeScore'
<1> USE DEF CollectionHolds
<1>1. ledger \in Ledgers /\ walk \in {"graph", "own"}
  BY DEF Honest
<1>2. Turning'
  BY <1>1, CallTurning
<1>3. pc # "done"
  BY CallIs
<1>4. CASE ListAnswered \/ ReceiptAnswered \/ RetryCall
  <2>1. UNCHANGED <<ledger, walk, position, graph, results>>
    BY <1>4 DEF ListAnswered, ReceiptAnswered, RetryCall
  <2>2. UNCHANGED <<address, own, outcome, score>>
    BY <2>1 DEF position, results
  <2> QED BY <1>2, <1>3, <2>1, <2>2, CarryLayered, CarryOwning, CarryTold, CarryScore
<1>5. ASSUME NEW kind, Interrupt(kind) PROVE Turning' /\ Layered' /\ Owning' /\ Told' /\ WholeScore'
  <2>1. UNCHANGED <<ledger, walk, position, graph, own, score>>
    BY <1>1, <1>5, Interrupted DEF results
  <2>2. address' = address
    BY <2>1 DEF position
  <2>3. Told'
    BY <1>1, <1>3, <1>5, InterruptTold
  <2> QED BY <1>2, <1>3, <2>1, <2>2, <2>3, CarryLayered, CarryOwning, CarryScore
<1> QED BY <1>4, <1>5, CallIs

LEMMA VisitHolds ==
    ASSUME CollectionHolds, Visit
    PROVE  Turning' /\ Layered' /\ Owning' /\ Told' /\ WholeScore'
<1> USE DEF CollectionHolds
<1>1. walk = "graph" /\ pc = "page" /\ PageCollected
  BY DEF Visit, StopAtLimit, FollowCursor, NextAddress, LevelCollected, SourceExhausted, DepthReached,
         NextDepth, PageCollected
<1>2. ledger' = ledger /\ walk' = walk
  BY <1>1 DEF PageCollected
<1>3. UNCHANGED <<own, score>>
  BY DEF Visit, StopAtLimit, FollowCursor, NextAddress, SourceExhausted, DepthReached,
         NextDepth, Stop, Complete, results
<1>4. Owning' /\ WholeScore'
  BY <1>1, <1>2, <1>3, CarryScore DEF Owning
<1>5. CASE FollowCursor \/ NextAddress \/ NextDepth
  <2>1. Turning' /\ Layered'
    BY <1>5, FollowCursorGoesOn, NextAddressGoesOn, NextDepthGoesOn
  <2>2. outcome' = outcome
    BY <1>5 DEF FollowCursor, NextAddress, NextDepth, results
  <2> QED BY <1>2, <1>4, <2>1, <2>2, CarryTold
<1>6. CASE StopAtLimit \/ SourceExhausted \/ DepthReached
  <2>1. Told'
    BY <1>6, StopsTold
  <2>2. /\ next' = Level /\ pc' = "done" /\ UNCHANGED <<address, page, frontier, depth>>
        /\ admitted' = Collected /\ visited' = visited \cup Peers /\ UNCHANGED <<unverified, verified>>
    BY <1>1, <1>6 DEF StopAtLimit, SourceExhausted, DepthReached, Stop, Complete, position, PageCollected, answer
  <2>3. Collected \subseteq Valid /\ visited \cup Peers \subseteq Addresses /\ Level \subseteq Addresses
    BY <1>1, PageLayered
  <2>4. Turning'
    BY <1>2, <1>3, <2>2, <2>3, SameChain DEF Turning
  <2>5. Layered'
    BY <2>2, <2>3 DEF Layered
  <2> QED BY <1>4, <2>1, <2>4, <2>5
<1> QED BY <1>5, <1>6 DEF Visit

LEMMA OwnHolds ==
    ASSUME CollectionHolds, Own
    PROVE  Turning' /\ Layered' /\ Owning' /\ Told' /\ WholeScore'
<1> USE DEF CollectionHolds
<1>1. ledger \in Ledgers
  BY DEF Honest
<1>2. ledger' = ledger /\ outcome' = outcome
  BY DEF Own, BeginOwnHistory, FollowOwnCursor, ScoreOwnHistory, OwnPageCollected, results
<1>3. Told'
  BY <1>2, CarryTold
<1>4. CASE BeginOwnHistory
  <2>1. /\ walk = "graph" /\ walk' = "own" /\ pc' = "list" /\ address' = Target /\ frontier' = {} /\ depth' = 0
        /\ visited' = {Target} /\ next' = {} /\ UNCHANGED <<own, score>>
    BY <1>4 DEF BeginOwnHistory, results
  <2>2. Layered'
    BY <2>1 DEF Layered
  <2>3. Owning'
    <3>1. own = {} /\ score = NoScore
      BY <2>1 DEF Owning
    <3>2. Cardinality({}) < ScoreCap
      BY FS_EmptySet
    <3> QED BY <2>1, <3>1, <3>2 DEF Owning, NoScore
  <2> QED BY <1>1, <1>2, <1>3, <1>4, <2>1, <2>2, <2>3, BeginTurning, CarryScore
<1>5. CASE FollowOwnCursor \/ ScoreOwnHistory
  <2>1. walk' = "own" /\ UNCHANGED <<frontier, visited, next, depth>>
    BY <1>5 DEF FollowOwnCursor, ScoreOwnHistory, OwnPageCollected, graph
  <2>2. Layered'
    BY <2>1 DEF Layered
  <2>3. CASE FollowOwnCursor
    <3>1. score' = score
      BY <2>3 DEF FollowOwnCursor
    <3> QED BY <1>1, <1>2, <1>3, <2>2, <2>3, <3>1, FollowOwnTurning, CarryScore
  <2>4. CASE ScoreOwnHistory
    BY <1>1, <1>3, <2>2, <2>4, ScoreTurning
  <2> QED BY <1>5, <2>3, <2>4
<1> QED BY <1>4, <1>5 DEF Own

LEMMA CollectionStep == CollectionHolds /\ [Next]_vars => CollectionHolds'
<1> SUFFICES ASSUME CollectionHolds, [Next]_vars PROVE CollectionHolds'
  OBVIOUS
<1>1. Honest'
  BY HonestStep DEF CollectionHolds
<1>2. CASE UNCHANGED vars
  <2>1. UNCHANGED <<ledger, walk, pc, position, answer, graph, results>>
    BY <1>2 DEF vars
  <2>2. UNCHANGED <<address, page, unverified, verified, more, admitted, own, outcome, score>>
    BY <2>1 DEF position, answer, graph, results
  <2>3. Taken' = Taken
    BY <2>1, <2>2 DEF Taken
  <2>4. Turning'
    BY <2>1, <2>2, <2>3, SameChain, SamePages DEF Turning, CollectionHolds
  <2> QED BY <1>1, <2>1, <2>2, <2>4, CarryLayered, CarryOwning, CarryTold, CarryScore DEF CollectionHolds
<1>3. CASE Next
  BY <1>1, <1>3, CallHolds, VisitHolds, OwnHolds DEF Next, CollectionHolds
<1> QED BY <1>2, <1>3

LEMMA CollectionInit == Init => CollectionHolds
<1> SUFFICES ASSUME Init PROVE CollectionHolds
  OBVIOUS
<1> USE DEF Init
<1>1. Cardinality({}) = 0
  BY FS_EmptySet
<1>2. Honest
  BY <1>1 DEF Honest, Going, StopReasonHonest, Published
<1>3. Turning
  BY FirstPage DEF Turning, Taken
<1>4. Owning
  BY DEF Owning
<1>5. Told /\ WholeScore
  BY DEF Told, Published, WholeScore
<1>6. Layered
  <2>1. Known({}) = {Target}
    BY DEF Known
  <2>2. Ball({}, 0) = {Target} /\ Ball({}, 0 + 1) = {Target}
    <3>1. Neighbours({}, {Target}) = {}
      BY DEF Neighbours
    <3>2. Ball({}, 0) = {Target}
      BY BallZero
    <3>3. Ball({}, 0 + 1) = Ball({}, 0) \cup Neighbours({}, Ball({}, 0))
      BY BallNext
    <3> QED BY <3>1, <3>2, <3>3
  <2>3. Layers({}, {Target}, {}, Target, {}, 0)
    BY <2>1, <2>2 DEF Layers
  <2>4. Whole({}, ({Target} \ {}) \ ({} \cup {Target}))
    BY DEF Whole
  <2>5. 0 \in 0..(TraversalDepth - 1)
    OBVIOUS
  <2> QED BY <2>3, <2>4, <2>5 DEF Layered
<1> QED BY <1>2, <1>3, <1>4, <1>5, <1>6 DEF CollectionHolds

\* CompleteUnlessTold: a collection of Collect that is neither partial nor at
\* the limit has every confirmed transfer of the addresses nearer than the
\* Traversal Depth, whatever the pages, the receipts and the repeated calls.
THEOREM CollectionIsComplete == Spec => []CompleteUnlessTold
<1>1. CollectionHolds => CompleteUnlessTold
  BY ToldIs DEF CollectionHolds
<1> QED BY <1>1, CollectionInit, CollectionStep, PTL DEF Spec

\* DepthIsDistance: the depth that Collect reports is the distance of the
\* farthest address it collected, even when it was interrupted.
THEOREM ReachedDepthIsADistance == Spec => []DepthIsDistance
<1>1. CollectionHolds => DepthIsDistance
  BY ToldIs DEF CollectionHolds
<1> QED BY <1>1, CollectionInit, CollectionStep, PTL DEF Spec

\* ScoredHistoryIsWhole: attemptLearnedScore gives the scorer the confirmed
\* transfers of the target, all of them or its cap, or nothing.
THEOREM ScoreSeesTheHistory == Spec => []ScoredHistoryIsWhole
<1>1. CollectionHolds => ScoredHistoryIsWhole
  BY WholeScoreIs DEF CollectionHolds
<1> QED BY <1>1, CollectionInit, CollectionStep, PTL DEF Spec

----------------------------------------------------------------------------
\* Types: what the invariants above leave open.

Outcomes == Collections \cup {None, Failed}
Scores   == [given : SUBSET Events, truncated : BOOLEAN] \cup {NoScore}

Rest ==
    /\ pc \in {"list", "receipt", "page", "done"} /\ more \in BOOLEAN /\ attempt \in 0..MaxRetries
    /\ reached \in 0..TraversalDepth
    /\ outcome \in Outcomes /\ score \in Scores

LEMMA SameSorts == ASSUME ledger' = ledger PROVE Outcomes' = Outcomes /\ Scores' = Scores
BY SameChain DEF Outcomes, Collections, None, Failed, Outcome, Scores, NoScore

LEMMA ConfidenceIs ==
    ASSUME NEW n \in Nat, NEW limit \in Nat \ {0} PROVE Min({75, (100 * n) \div limit}) \in 0..100
<1>1. (100 * n) \div limit \in Nat
  <2>1. 100 * n \in Nat
    OBVIOUS
  <2> QED BY <2>1
<1>2. PICK q \in Nat : q = (100 * n) \div limit
  BY <1>1
<1>3. 75 \in Int /\ q \in Int
  OBVIOUS
<1>4. Min({75, q}) \in {75, q} /\ Min({75, q}) <= 75
  BY <1>3, MinOfTwo
<1>5. PICK c : c = Min({75, q})
  OBVIOUS
<1>6. (c = 75 \/ c = q) /\ c <= 75
  BY <1>4, <1>5
<1>7. c \in 0..100
  BY ONLY q \in Nat, <1>6
<1> QED BY <1>2, <1>5, <1>7

\* Why a collection of the graph is cut short.
LEMMA InterruptRest ==
    ASSUME ledger \in Ledgers, walk \in {"graph", "own"}, admitted \subseteq Events, Rest,
           NEW kind, kind \in {"rate_limited", "unavailable", "resource_limit", "deadline"}, Interrupt(kind)
    PROVE  Rest'
<1>1. UNCHANGED <<ledger, more, attempt, reached>> /\ pc' = "done"
  BY DEF Interrupt, Complete, answer, graph
<1>2. CASE walk = "own"
  BY <1>1, <1>2, Interrupted, SameSorts DEF Rest, results
<1>3. CASE walk = "graph"
  <2>1. score' = score
    BY <1>3, Interrupted
  <2>2. outcome' \in Outcomes
    <3>1. CASE outcome' = Failed
      BY <3>1 DEF Outcomes
    <3>2. CASE outcome' # Failed
      <4>1. PICK c, T, r : /\ c = Min({75, (100 * Cardinality(admitted)) \div TransferLimit})
                           /\ T = admitted /\ r = reached
        OBVIOUS
      <4>2. /\ kind # "deadline"
            /\ outcome' = [stop |-> kind, partial |-> TRUE, confidence |-> c, transfers |-> T, depth |-> r]
        BY <1>3, <3>2, <4>1 DEF Interrupt, Complete
      <4>3. Cardinality(admitted) \in Nat
        BY EventsAreFinite, FS_Subset, FS_CardinalityType
      <4>4. c \in 0..100
        BY <4>1, <4>3, ConfidenceIs
      <4>5. T \subseteq Events /\ r \in Nat
        BY <4>1 DEF Rest
      <4> QED BY <4>2, <4>4, <4>5 DEF Outcomes, Collections
    <3> QED BY <3>1, <3>2
  <2> QED BY <1>1, <2>1, <2>2, SameSorts DEF Rest
<1> QED BY <1>2, <1>3

LEMMA RestStep == CollectionHolds /\ Rest /\ [Next]_vars => Rest'
<1> SUFFICES ASSUME CollectionHolds, Rest, [Next]_vars PROVE Rest'
  OBVIOUS
<1>1. /\ ledger \in Ledgers /\ walk \in {"graph", "own"} /\ admitted \subseteq Events
  BY DEF CollectionHolds, Honest
<1>2. ASSUME UNCHANGED <<ledger, reached, outcome, score>>,
             pc' \in {"list", "receipt", "page", "done"}, more' \in BOOLEAN, attempt' \in 0..MaxRetries
      PROVE  Rest'
  BY <1>2, SameSorts DEF Rest
<1>3. CASE ListAnswered \/ ReceiptAnswered \/ RetryCall
  <2>1. UNCHANGED <<ledger, reached, outcome, score>>
    BY <1>3 DEF ListAnswered, ReceiptAnswered, RetryCall, graph, results
  <2>2. pc' \in {"list", "receipt", "page", "done"} /\ more' \in BOOLEAN
    BY <1>3 DEF ListAnswered, ReceiptAnswered, RetryCall, Rest
  <2>3. attempt' \in 0..MaxRetries
    <3>1. MaxRetries \in Nat
      OBVIOUS
    <3> QED BY <1>3, <3>1 DEF ListAnswered, ReceiptAnswered, RetryCall, Rest
  <2> QED BY <1>2, <2>1, <2>2, <2>3
<1>4. CASE CallFails
  <2>1. PICK f \in Faults \cap (Retryable \cup Final) :
            Interrupt(CASE f = "too_large" -> "resource_limit"
                        [] f = "refused"   -> "unavailable"
                        [] OTHER           -> f)
    BY <1>4 DEF CallFails
  <2> QED BY <1>1, <2>1, InterruptRest DEF Retryable, Final
<1>5. CASE BudgetExhausted \/ PagesExhausted \/ Deadline
  BY <1>1, <1>5, InterruptRest DEF BudgetExhausted, PagesExhausted, Deadline
<1>6. CASE Visit
  <2>1. /\ walk = "graph" /\ pc = "page" /\ PageCollected
        /\ pc' \in {"list", "done"} /\ score' = score
    BY <1>6 DEF Visit, StopAtLimit, FollowCursor, NextAddress, LevelCollected, SourceExhausted, DepthReached,
                NextDepth, PageCollected, Stop, Complete, Fetch, results
  <2>2. /\ UNCHANGED <<ledger, more, attempt>> /\ reached' = Depth
    BY <2>1 DEF PageCollected, answer
  <2>3. Depth \in 0..TraversalDepth
    <3>1. Depth = depth \/ Depth = depth + 1
      BY <2>1, PageLayered DEF CollectionHolds
    <3>2. depth \in 0..(TraversalDepth - 1) /\ TraversalDepth \in Nat
      BY DEF CollectionHolds, Layered
    <3> QED BY <3>1, <3>2
  <2>4. outcome' \in Outcomes
    <3>1. CASE FollowCursor \/ NextAddress \/ NextDepth
      BY <3>1 DEF FollowCursor, NextAddress, NextDepth, results, Rest
    <3>2. ASSUME NEW stop \in {"transfer_limit", "no_eligible_transfers", "source_exhausted", "traversal_depth"},
                 NEW confidence \in {0, 100}, Stop(stop, confidence)
          PROVE  outcome' \in Outcomes
      <4>1. PICK T, r : T = Collected /\ r = Depth
        OBVIOUS
      <4>2. outcome' = [stop |-> stop, partial |-> FALSE, confidence |-> confidence,
                        transfers |-> T, depth |-> r]
        BY <3>2, <4>1 DEF Stop, Complete
      <4>3. T \subseteq Events
        BY <2>1, <4>1, PageLayered DEF CollectionHolds, Valid
      <4>4. r \in Nat /\ confidence \in 0..100
        BY <2>3, <4>1
      <4> QED BY <4>2, <4>3, <4>4 DEF Outcomes, Collections
    <3>3. CASE StopAtLimit \/ SourceExhausted \/ DepthReached
      BY <3>2, <3>3 DEF StopAtLimit, SourceExhausted, DepthReached
    <3> QED BY <1>6, <3>1, <3>3 DEF Visit
  <2> QED BY <2>1, <2>2, <2>3, <2>4, SameSorts DEF Rest
<1>7. CASE BeginOwnHistory
  <2>1. /\ UNCHANGED <<ledger, outcome, score>> /\ pc' = "list" /\ more' = FALSE /\ attempt' = 0 /\ reached' = 0
    BY <1>7 DEF BeginOwnHistory, results
  <2>2. attempt' \in 0..MaxRetries /\ reached' \in 0..TraversalDepth
    <3>1. MaxRetries \in Nat /\ TraversalDepth \in Nat
      OBVIOUS
    <3> QED BY <2>1, <3>1
  <2> QED BY <2>1, <2>2, SameSorts DEF Rest
<1>8. CASE FollowOwnCursor
  BY <1>2, <1>8 DEF FollowOwnCursor, OwnPageCollected, graph, answer, Rest
<1>9. CASE ScoreOwnHistory
  <2>1. /\ UNCHANGED <<ledger, outcome, more, attempt, reached>> /\ pc' = "done" /\ walk = "own" /\ pc = "page"
        /\ own' = own \cup FoundOwn
        /\ score' = IF own' = {} THEN score ELSE [given |-> own', truncated |-> AtCap /\ more]
    BY <1>9 DEF ScoreOwnHistory, OwnPageCollected, graph, answer
  <2>2. own' \subseteq Events
    BY <1>1, <2>1, OwnAdded DEF CollectionHolds, Valid
  <2>3. (AtCap /\ more) \in BOOLEAN
    BY DEF AtCap
  <2>4. score' \in Scores
    BY <2>1, <2>2, <2>3 DEF Scores, Rest
  <2> QED BY <2>1, <2>4, SameSorts DEF Rest
<1>10. CASE UNCHANGED vars
  BY <1>10, <1>2 DEF vars, answer, graph, results, Rest
<1> QED BY <1>3, <1>4, <1>5, <1>6, <1>7, <1>8, <1>9, <1>10 DEF Next, Call, Own

\* TypeOK: the collection of Collect and the score of attemptLearnedScore have
\* their types; retries, depth, reached depth and confidence their bounds.
THEOREM CollectionsAreTyped == Spec => []TypeOK
<1>1. Init => Charged /\ Rest
  <2> SUFFICES ASSUME Init PROVE Charged /\ Rest
    OBVIOUS
  <2>1. MaxRetries \in Nat /\ TraversalDepth \in Nat /\ Budget \in Nat
    OBVIOUS
  <2>2. Charged
    BY <2>1 DEF Init, Charged
  <2>3. 0 \in 0..MaxRetries /\ 0 \in 0..TraversalDepth
    BY <2>1
  <2>4. Rest
    BY <2>3 DEF Init, Rest, Outcomes, Scores
  <2> QED BY <2>2, <2>4
<1>2. CollectionHolds /\ Charged /\ Rest => TypeOK
  <2> SUFFICES ASSUME CollectionHolds, Charged, Rest PROVE TypeOK
    OBVIOUS
  <2>1. Valid \subseteq Events
    BY DEF Valid
  <2> QED BY <2>1 DEF CollectionHolds, Honest, Turning, Layered, Charged, Rest, Outcomes, Scores, TypeOK
<1> QED BY <1>1, <1>2, CollectionInit, CollectionStep, ChargedStep, RestStep, PTL DEF Spec
=============================================================================
