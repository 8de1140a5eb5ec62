------------------------------ MODULE Collector ------------------------------
(***************************************************************************)
(* The collection of an Analysis Run: the bounded breadth-first traversal  *)
(* of analysis/collector.go over the pages, receipts and retries of        *)
(* analysis/trongrid.go, followed by the second walk over the target's own *)
(* history that the learned score wants (analysis/learned_score.go).       *)
(*                                                                         *)
(* The chain is a ledger: a sequence of transfer events in the order in    *)
(* which the provider lists an address's history.  An event is known by    *)
(* its position.  Inside one transaction positions are the order of the    *)
(* receipt's logs; the sort key of an event is a string, the hash of its   *)
(* transaction and the name of its log, whose order is not that of the     *)
(* positions.  Amounts are left out: two events of one transaction between *)
(* the same two addresses carry the same amount, so that a history record  *)
(* does not tell them apart (twins).                                       *)
(***************************************************************************)
EXTENDS Integers, FiniteSets, FiniteSetsExt

CONSTANTS
    Addresses,      \* naturals, whose order is that of the address strings
    Target,         \* the address of the Investigation
    Ledgers,        \* the chains an instance considers
    LogKey,         \* the place of each event's log name in the order of strings:
                    \* "log:10" comes before "log:2"
    TransferLimit, TraversalDepth,   \* the Analysis Scope
    PageLimit, MaxPages, MaxRetries, \* TronGridConfig
    Budget,         \* provider calls of a run: 200 + 6 * TransferLimit
    ScoreCap,       \* LearnedScoreTransferCap
    ScoreBudget,    \* provider calls of the walk for the learned score
    Faults          \* what may go wrong with a provider call

Retryable == {"rate_limited", "unavailable"}
Final     == {"refused", "too_large"}
\* "ghost_page": a cursor on a page after which there is nothing.
AllFaults == Retryable \cup Final \cup {"deadline", "ghost_page"}

\* "foreign" events are refused by their history record (wrong token, out of
\* the window), "unconfirmed" ones by the lack of a successful receipt.
EventKinds == {"valid", "foreign", "unconfirmed"}

CollectorAssumption ==
    /\ Addresses \subseteq Nat
    /\ Target \in Addresses
    /\ {TransferLimit, TraversalDepth, PageLimit, MaxPages, ScoreCap} \subseteq Nat \ {0}
    /\ {MaxRetries, Budget, ScoreBudget} \subseteq Nat
    /\ Faults \subseteq AllFaults
    /\ \A l \in Ledgers :
          /\ IsFiniteSet(DOMAIN l) /\ DOMAIN l = 1..Cardinality(DOMAIN l)
          /\ \A e \in DOMAIN l :
                l[e] \in [tx : Nat, from : Addresses, to : Addresses, kind : EventKinds]
ASSUME CollectorAssumption

\* No two logs of a receipt have the same name.
LogKeyAssumption ==
    \A l \in Ledgers : \A x, e \in DOMAIN l :
        LogKey[e] \in Nat /\ (LogKey[x] = LogKey[e] => x = e)
ASSUME LogKeyAssumption

VARIABLES
    ledger,     \* the chain up to the captured cutoff block
    walk,       \* which walk is being made: "graph" or "own"
    pc,         \* "list", "receipt": the next provider call; "page": a page is complete; "done"
    address, page,      \* the address and the page being fetched
    frontier,   \* the addresses of this depth that are still to be fetched
    depth,
    unverified, \* transactions of the page whose receipt is still to be read
    verified,   \* events of the page that a receipt confirms
    more,       \* the page came with a cursor
    attempt,    \* retries of the current provider call
    remaining,  \* the call budget
    called,     \* provider calls sent in this walk
    admitted,   \* events of the collection
    visited, next,      \* addresses seen so far; those of the next depth
    reached,    \* reachedDepth
    own,        \* events of the target's own history
    outcome,    \* what Collect returned
    score       \* what the learned scorer was given

position == <<address, page, frontier, depth>>
answer   == <<unverified, verified, more, attempt>>
calls    == <<remaining, called>>
graph    == <<admitted, visited, next, reached>>
results  == <<own, outcome, score>>
vars     == <<ledger, walk, pc, position, answer, calls, graph, results>>

Events == DOMAIN ledger
Outcome(stop) == [stop |-> stop, partial |-> FALSE, confidence |-> 0, transfers |-> {}, depth |-> 0]
None    == Outcome("none")
Failed  == Outcome("failed")
NoScore == [given |-> {}, truncated |-> FALSE]

----------------------------------------------------------------------------
(***************************************************************************)
(* The provider.                                                           *)
(***************************************************************************)
Parties(e)  == {ledger[e].from, ledger[e].to}
History(a)  == {e \in Events : a \in Parties(e)}
PageSize    == IF walk = "graph" /\ TransferLimit < PageLimit THEN TransferLimit ELSE PageLimit
Rank(a, e)  == Cardinality({x \in History(a) : x <= e})

\* The records of one page, and whether records follow it.
PageOf(a, k) == {e \in History(a) : (k - 1) * PageSize < Rank(a, e) /\ Rank(a, e) <= k * PageSize}
Further(a, k) == {e \in History(a) : Rank(a, e) > k * PageSize}

\* groupTronGridCandidates: the transactions of the records that pass.
Candidates(P) == {ledger[e].tx : e \in {x \in P : ledger[x].kind # "foreign"}}

\* Events that a history record cannot tell from e.
Twins(e) == {x \in Events : ledger[x] = ledger[e]}

\* verifiedReceiptTransfers: the logs of the receipt take the records of this
\* page in turn, the first log that fits first; no page knows of another.
Confirmed(h, P) ==
    {e \in Events :
        /\ ledger[e].tx = h
        /\ ledger[e].kind = "valid"
        /\ Cardinality({x \in Twins(e) : x <= e}) <= Cardinality(Twins(e) \cap P)}

----------------------------------------------------------------------------
(***************************************************************************)
(* Provider calls: one action per HTTP attempt, the wait before a retry    *)
(* included.                                                               *)
(***************************************************************************)
Calling == pc \in {"list", "receipt"} /\ (pc = "list" => page <= MaxPages)

\* Mutant: repeated attempts are not charged.
SpendOnce ==
    /\ remaining > 0
    /\ remaining' = IF attempt = 0 THEN remaining - 1 ELSE remaining
    /\ called' = called + 1

\* spendProviderCall
Spend ==
    /\ remaining > 0
    /\ remaining' = remaining - 1
    /\ called' = called + 1

ListAnswered ==
    /\ Calling /\ pc = "list" /\ Spend
    /\ unverified' = Candidates(PageOf(address, page))
    /\ verified' = {}
    /\ \/ more' = (Further(address, page) # {})
       \/ "ghost_page" \in Faults /\ more' = TRUE
    /\ attempt' = 0
    /\ pc' = IF unverified' = {} THEN "page" ELSE "receipt"
    /\ UNCHANGED <<ledger, walk, position, graph, results>>

ReceiptAnswered ==
    /\ Calling /\ pc = "receipt" /\ Spend
    /\ LET h == Min(unverified) IN
          /\ unverified' = unverified \ {h}
          /\ verified' = verified \cup Confirmed(h, PageOf(address, page))
    /\ attempt' = 0
    /\ pc' = IF unverified' = {} THEN "page" ELSE "receipt"
    /\ UNCHANGED <<ledger, walk, position, more, graph, results>>

\* Mutant: one attempt too many.
RetryOnceMore ==
    /\ Calling /\ Spend
    /\ Faults \cap Retryable # {}
    /\ attempt <= MaxRetries
    /\ attempt' = attempt + 1
    /\ UNCHANGED <<ledger, walk, pc, position, unverified, verified, more, graph, results>>

RetryCall ==
    /\ Calling /\ Spend
    /\ Faults \cap Retryable # {}
    /\ attempt < MaxRetries
    /\ attempt' = attempt + 1
    /\ UNCHANGED <<ledger, walk, pc, position, unverified, verified, more, graph, results>>

\* completedCollection
Complete(stop, partial, confidence, transfers, level) ==
    /\ outcome' = [stop |-> stop, partial |-> partial, confidence |-> confidence,
                   transfers |-> transfers, depth |-> level]
    /\ pc' = "done"
    /\ UNCHANGED <<own, score>>

\* Mutant: a fetch that failed is scored with what it had.
ScoreInterrupted(kind) ==
    /\ IF walk = "own"
         THEN /\ pc' = "done"
              /\ score' = IF own = {} THEN score ELSE [given |-> own, truncated |-> FALSE]
              /\ UNCHANGED <<own, outcome>>
         ELSE Complete(kind, TRUE, 75, admitted, reached)
    /\ UNCHANGED <<ledger, walk, position, answer, graph>>

\* An error ends a walk: interruptedCollection publishes what there is when
\* the provider interrupted it, attemptLearnedScore publishes no score.
Interrupt(kind) ==
    /\ CASE walk = "own" ->
              pc' = "done" /\ UNCHANGED results
         [] walk = "graph" /\ (admitted = {} \/ kind = "deadline") ->
              pc' = "done" /\ outcome' = Failed /\ UNCHANGED <<own, score>>
         [] OTHER ->
              Complete(kind, TRUE, Min({75, (100 * Cardinality(admitted)) \div TransferLimit}),
                       admitted, reached)
    /\ UNCHANGED <<ledger, walk, position, answer, graph>>

CallFails ==
    /\ Calling /\ Spend
    /\ \E f \in Faults \cap (Retryable \cup Final) :
          /\ f \in Retryable => attempt = MaxRetries
          /\ Interrupt(CASE f = "too_large" -> "resource_limit"
                         [] f = "refused"   -> "unavailable"
                         [] OTHER           -> f)

\* Mutant: an exhausted budget is an error like another, and repeated.
RetryWithoutBudget ==
    /\ Calling /\ remaining = 0
    /\ attempt < MaxRetries /\ attempt' = attempt + 1
    /\ UNCHANGED <<ledger, walk, pc, position, unverified, verified, more, calls, graph, results>>

BudgetExhausted == Calling /\ remaining = 0 /\ Interrupt("resource_limit") /\ UNCHANGED calls

PagesExhausted ==
    /\ pc = "list" /\ page > MaxPages
    /\ Interrupt("resource_limit") /\ UNCHANGED calls

\* The context of the run, or of the score, is over: found after a failed
\* call or while waiting to repeat it.
Deadline == Calling /\ "deadline" \in Faults /\ Interrupt("deadline") /\ UNCHANGED calls

----------------------------------------------------------------------------
(***************************************************************************)
(* Collect: what is done with a page.                                      *)
(***************************************************************************)

\* transferKey: by transaction hash, then by the name of the log.
Precedes(x, e) ==
    \/ ledger[x].tx < ledger[e].tx
    \/ ledger[x].tx = ledger[e].tx /\ LogKey[x] < LogKey[e]

\* Mutant: the limit is looked at after a page, not after a transfer.
FirstUnlimited(S, n) == IF n > 0 THEN S ELSE {}

FirstByKey(S, n) == {e \in S : Cardinality({x \in S : Precedes(x, e)}) < n}

\* The transfers of the page that nobody has seen, up to the limit, and the
\* addresses they lead to (transferPeers).
Found     == FirstByKey(verified \ admitted, TransferLimit - Cardinality(admitted))
Collected == admitted \cup Found
Peers     == (UNION {Parties(e) : e \in Found}) \ visited
\* Mutant: the addresses of the next depth are forgotten with each page.
LevelOfPage == Peers

Level     == next \cup Peers
\* Mutant: the depth is that of the traversal, whether it found anybody or not.
DepthTraversed == depth + 1

Depth     == IF Peers # {} /\ depth + 1 > reached THEN depth + 1 ELSE reached
AtLimit   == Found # {} /\ Cardinality(Collected) = TransferLimit

PageCollected ==
    /\ walk = "graph" /\ pc = "page"
    /\ admitted' = Collected
    /\ visited' = visited \cup Peers
    /\ reached' = Depth
    /\ UNCHANGED <<ledger, walk, answer, calls>>

\* Collect returns, whatever the place of the traversal.
Stop(stop, confidence) ==
    /\ next' = Level
    /\ Complete(stop, FALSE, confidence, Collected, Depth)
    /\ UNCHANGED position

StopAtLimit == PageCollected /\ AtLimit /\ Stop("transfer_limit", 100)

FollowCursor ==
    /\ PageCollected /\ ~AtLimit
    /\ more
    /\ page' = page + 1
    /\ next' = Level
    /\ pc' = "list"
    /\ UNCHANGED <<address, frontier, depth, results>>

\* Fetch begins with the smallest address, from its first page.
Fetch(addresses) ==
    /\ address' = Min(addresses)
    /\ frontier' = addresses \ {Min(addresses)}
    /\ page' = 1
    /\ pc' = "list"

NextAddress ==
    /\ PageCollected /\ ~AtLimit
    /\ ~more /\ frontier # {}
    /\ Fetch(frontier)
    /\ next' = Level
    /\ UNCHANGED <<depth, results>>

LevelCollected == PageCollected /\ ~AtLimit /\ ~more /\ frontier = {}

SourceExhausted ==
    /\ LevelCollected
    /\ Level = {}
    /\ IF Collected = {} THEN Stop("no_eligible_transfers", 0)
                         ELSE Stop("source_exhausted", 100)

DepthReached ==
    /\ LevelCollected
    /\ Level # {} /\ depth + 1 = TraversalDepth
    /\ Stop("traversal_depth", 100)

NextDepth ==
    /\ LevelCollected
    /\ Level # {} /\ depth + 1 < TraversalDepth
    /\ Fetch(Level)
    /\ next' = {}
    /\ depth' = depth + 1
    /\ UNCHANGED results

----------------------------------------------------------------------------
(***************************************************************************)
(* attemptLearnedScore, once the collection has been evaluated: the pages  *)
(* of the target alone, under a budget and a limit of their own.           *)
(***************************************************************************)
BeginOwnHistory ==
    /\ walk = "graph" /\ pc = "done" /\ outcome # Failed
    /\ walk' = "own" /\ pc' = "list"
    /\ address' = Target /\ page' = 1 /\ frontier' = {} /\ depth' = 0
    /\ unverified' = {} /\ verified' = {} /\ more' = FALSE /\ attempt' = 0
    /\ remaining' = ScoreBudget /\ called' = 0
    /\ admitted' = {} /\ visited' = {Target} /\ next' = {} /\ reached' = 0
    /\ UNCHANGED <<ledger, results>>

FoundOwn == FirstByKey(verified \ own, ScoreCap - Cardinality(own))
AtCap    == FoundOwn # {} /\ Cardinality(own \cup FoundOwn) = ScoreCap

OwnPageCollected ==
    /\ walk = "own" /\ pc = "page"
    /\ own' = own \cup FoundOwn
    /\ UNCHANGED <<ledger, walk, address, frontier, depth, answer, calls, graph, outcome>>

FollowOwnCursor ==
    /\ OwnPageCollected /\ ~AtCap
    /\ more
    /\ page' = page + 1
    /\ pc' = "list"
    /\ UNCHANGED score

\* An empty history is not scored.
ScoreOwnHistory ==
    /\ OwnPageCollected
    /\ AtCap \/ ~more
    /\ score' = IF own' = {} THEN score ELSE [given |-> own', truncated |-> AtCap /\ more]
    /\ pc' = "done"
    /\ UNCHANGED page

----------------------------------------------------------------------------
Init ==
    /\ ledger \in Ledgers
    /\ walk = "graph" /\ pc = "list"
    /\ address = Target /\ page = 1 /\ frontier = {} /\ depth = 0
    /\ unverified = {} /\ verified = {} /\ more = FALSE /\ attempt = 0
    /\ remaining = Budget /\ called = 0
    /\ admitted = {} /\ visited = {Target} /\ next = {} /\ reached = 0
    /\ own = {} /\ outcome = None /\ score = NoScore

Call  == ListAnswered \/ ReceiptAnswered \/ RetryCall \/ CallFails
            \/ BudgetExhausted \/ PagesExhausted
Visit == StopAtLimit \/ FollowCursor \/ NextAddress \/ SourceExhausted \/ DepthReached \/ NextDepth
Own   == BeginOwnHistory \/ FollowOwnCursor \/ ScoreOwnHistory

Next == Call \/ Deadline \/ Visit \/ Own

Spec == Init /\ [][Next]_vars

\* A run has a goroutine of its own, and a provider call returns or times out.
\* Nothing rests on the deadline of the run.
FairSpec == Spec /\ WF_vars(Call \/ Visit \/ Own)

----------------------------------------------------------------------------
Collections ==
    [stop : {"rate_limited", "unavailable", "resource_limit", "transfer_limit",
             "no_eligible_transfers", "source_exhausted", "traversal_depth"},
     partial : BOOLEAN, confidence : 0..100, transfers : SUBSET Events, depth : Nat]

TypeOK ==
    /\ walk \in {"graph", "own"} /\ pc \in {"list", "receipt", "page", "done"}
    /\ address \in Addresses /\ page \in Nat \ {0}
    /\ frontier \subseteq Addresses /\ depth \in 0..(TraversalDepth - 1)
    /\ unverified \subseteq Nat /\ verified \subseteq Events
    /\ more \in BOOLEAN /\ attempt \in 0..MaxRetries
    /\ remaining \in Nat /\ called \in Nat
    /\ admitted \subseteq Events /\ visited \subseteq Addresses
    /\ next \subseteq Addresses /\ reached \in 0..TraversalDepth
    /\ own \subseteq Events
    /\ outcome \in Collections \cup {None, Failed}
    /\ score \in [given : SUBSET Events, truncated : BOOLEAN] \cup {NoScore}

\* The addresses within n transfers of the target, by the events of S.
Ball(S, n) ==
    LET ball[k \in 0..n] ==
            IF k = 0 THEN {Target}
            ELSE ball[k - 1] \cup UNION {Parties(e) : e \in {x \in S : Parties(x) \cap ball[k - 1] # {}}}
    IN  ball[n]

Published == outcome \notin {None, Failed}
Touching(e, addresses) == Parties(e) \cap addresses # {}

\* No walk sends the provider more calls than its budget, receipts and retries
\* included (withCallBudget: neither the page cap nor the Transfer Limit
\* bounds a run's call volume).
CallsWithinBudget == called <= IF walk = "graph" THEN Budget ELSE ScoreBudget

\* Stop reason, partial flag and confidence agree with what was collected: the
\* limit is never passed and is named exactly when it was reached, an empty
\* collection is never partial nor confident, and a partial one is less
\* confident than any that was not cut short.
StopReasonHonest ==
    Published =>
        LET n == Cardinality(outcome.transfers) IN
        /\ n <= TransferLimit
        /\ (outcome.stop = "transfer_limit") <=> (n = TransferLimit)
        /\ (outcome.stop = "no_eligible_transfers") <=> (n = 0)
        /\ n = 0 => ~outcome.partial /\ outcome.confidence = 0 /\ outcome.depth = 0
        /\ n > 0 => (outcome.confidence = 100 <=> ~outcome.partial)
        /\ outcome.partial => outcome.confidence <= 75

\* A collection that says neither that it is partial nor that it met the limit
\* holds every confirmed transfer of every address nearer than the Traversal
\* Depth, up to transfers the history cannot tell apart; and it holds nothing
\* that no receipt confirms.
CompleteUnlessTold ==
    Published =>
        LET confirmed == {e \in Events : ledger[e].kind = "valid"}
            near      == Ball(confirmed, TraversalDepth - 1)
        IN  /\ outcome.transfers \subseteq confirmed
            /\ ~outcome.partial /\ outcome.stop # "transfer_limit" =>
                  \A e \in confirmed : Touching(e, near) => Twins(e) \cap outcome.transfers # {}

\* However the traversal ended, every transfer it collected touches an address
\* nearer than the Traversal Depth, and the reached depth is the distance of
\* the farthest address the collection knows.
DepthIsDistance ==
    Published =>
        LET known == {Target} \cup UNION {Parties(e) : e \in outcome.transfers}
            near  == Ball(outcome.transfers, TraversalDepth - 1)
        IN  /\ \A e \in outcome.transfers : Touching(e, near)
            /\ known \subseteq Ball(outcome.transfers, outcome.depth)
            /\ outcome.depth > 0 => ~(known \subseteq Ball(outcome.transfers, outcome.depth - 1))

\* The learned score is given confirmed transfers of the target, at most the
\* cap, and if they are fewer than the cap then, up to twins, all of them: an
\* interrupted fetch is never scored as if it were a short history.  Of two twins
\* that a page boundary divides one is missing, and the rest is scored.  A
\* history called truncated has reached the cap; one that reached the cap inside
\* its last page is not called truncated, whatever is left of that page.
ScoredHistoryIsWhole ==
    score # NoScore =>
        LET confirmed == {e \in History(Target) : ledger[e].kind = "valid"} IN
        /\ score.given \subseteq confirmed
        /\ Cardinality(score.given) <= ScoreCap
        /\ score.truncated => Cardinality(score.given) = ScoreCap
        /\ Cardinality(score.given) < ScoreCap => \A e \in confirmed : Twins(e) \cap score.given # {}

\* Every walk ends, even against a provider that names a next page for ever or
\* fails for ever (pages, retries and calls are all bounded).
EveryWalkEnds == (pc # "done") ~> (pc = "done")
=============================================================================
