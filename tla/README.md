# ChainTrace: a TLA+ verification project

ChainTrace analyses the transfers of a TRON address. An Owner creates an
*Investigation*, gives it a target address, starts an *Analysis Run*, reads the
*Analysis Dataset* the run publishes, and asks an Agent about it. The vocabulary
is that of `CONTEXT.md`; file names below are relative to the repository.

This directory holds the models, the TLC configurations and the machine-checked
proofs. Section 1 is the inventory of the system, section 2 the plan, sections 3
to 8 the modules, section 9 the runs, section 10 the theorems, section 11 what is
left.

| file | what it is |
|---|---|
| `RunLifecycle.tla` | the Analysis Run manager, its workers, the Investigation rows and the handlers |
| `InvestigationPromise.tla` | what the above promises of an Investigation, abstractly |
| `MCRunLifecycle.tla`, `lifecycle_*.cfg` | its TLC instances |
| `RunLifecycleProofs.tla` | its theorems, for TLAPS: the inductive invariant, safety, two action properties, the refinement |
| `RunFailureProofs.tla` | what it promises when one kind of failure does not happen |
| `Conversation.tla` | the conversation of an Investigation: its store, its handlers, repeated keys |
| `ConversationLog.tla` | what it promises its readers, abstractly |
| `MCConversation.tla`, `conversation*.cfg` | its TLC instances |
| `ConversationProofs.tla` | its theorems and its refinement, for TLAPS |
| `Collector.tla` | the collection of a run: traversal, provider calls, the walk of the learned score |
| `Rules.tla` | the rules, the score and the metrics, as functions of a set of transfers |
| `Reading.tla` | reading graphs, results and transcripts, statement by statement and page by page |
| `AgentTurn.tla` | an Agent turn between the backend and the sidecar |
| `Login.tla` | password attempts, links, codes, tokens and revocations |
| `MCCollector.tla`, `MCReading.tla`, `MCAgentTurn.tla`, `MCLogin.tla` and a `.cfg` each | their TLC instances |
| `CollectorProofs.tla`, `ReadingProofs.tla`, `AgentTurnProofs.tla`, `LoginProofs.tla` | the theorems about these four; `ReadingProofs` has those about `Rules` as well |
| `FiniteFacts.tla` | lemmas that several of them need: induction, finite orders, lists and sums |
| `PROJECT.json` | components, runs, mutants, the map of definitions to source lines, findings, hazards, theorems |

To check: `tlc -config lifecycle_faults.cfg MCRunLifecycle`, and so on for the
other configurations; `tlapm RunLifecycleProofs.tla`, and so on for the other modules
with theorems.

## 1. Inventory

Three processes serve a user, and one batch program stands apart.

    browser -- HTTP --> Next.js BFF (frontend/) -- HTTP --> Go API -- HTTP --> TronGrid
                                                              |  \-- HTTP --> Python sidecar (agent/)
                                                              \--- SQL ---> PostgreSQL or SQLite

### 1.1 Analysis Run manager and workers (`analysis/analysis.go`)

*State.* In memory: `RunManager.runs` (run id to status, phase, cancel function,
publication claim), `RunManager.active` (Investigation to its live run), one mutex
and one condition variable. In the database: `investigations`, `analysis_datasets`.
*Operations.* `Start`, `Get`, `RecoverLost`, `Cancel`, `DeleteInvestigation`, and the
steps of the worker goroutine: `execute`, `progress`, `publish`, `fail`.
*Hard.* The manager has two sources of truth, its maps and the rows. A handler reads
the row before it takes the mutex; the worker commits its transaction outside the
mutex, under a claim that cancellations and deletions wait for; every statement can
fail after memory has changed; the process can die anywhere; a run has a deadline.
*Correct when.* One live run per Investigation; one winner between publication and
cancellation; a Dataset and its row change together; a deletion leaves nothing
behind; a terminal status is final; a published target never changes; nothing is
stuck: every run ends, every waiting call returns.

### 1.2 Investigation store and start-up (`model/investigation.go`, `controller/investigation.go`, `model/init.go`)

*State.* Table `investigations`: owner, title, target, `lifecycle_status`,
`target_locked`, `active_analysis_run_id`, `current_analysis_run_id`.
*Operations.* Create, list, get, guarded UPDATE of title and target, delete;
`reconcileLostAnalysisRuns` once at start-up; `nextInvestigationCreatedAt`, a
compare-and-swap loop that keeps creation times distinct.
*Correct when.* The target changes only while the row is pending, unlocked and
without a run; after a crash no row stays `analyzing`.

### 1.3 Collector, provider and rules (`analysis/collector.go`, `analysis/trongrid.go`, `analysis/learned_score.go`, `analysis/rules_v1.go`)

*State.* Local to a run: queue and visited addresses, the transfers admitted so far,
their budget, the provider's page cursors and its call counter.
*Operations.* A bounded breadth-first traversal of confirmed transfers; pagination;
retries with capped delays; five rules and a score.
*Hard.* Several limits can be reached by one transfer; a provider may fail in
mid-traversal or repeat a cursor; a retry must not outlive its run.
*Correct when.* No transfer is counted twice, no limit is exceeded, the stop reason
and the confidence say what really happened, and the traversal ends.

### 1.4 Result and graph reads (`controller/analysis.go`, `analysis/graph.go`)

*State.* None; keyset pages over one immutable Dataset, with an opaque cursor.
*Hard.* A cursor of one Dataset used after a newer one became current.
*Correct when.* The pages of one Dataset concatenate to the whole, without a gap or a
duplicate, and a stale cursor is refused.

### 1.5 Conversation (`model/conversation.go`, `controller/conversation.go`)

*State.* Table of messages in groups: (conversation, idempotency key), ordinal, role.
*Operations.* Submit (plain and streamed), persist a turn, an Agent message or an
*unavailable* notice, load the recent history, read in pages.
*Hard.* The Agent answers between a read and a write; a client that lost the answer
retries under the same key; two writers compute the next ordinal.
*Correct when.* Ordinals are unique and contiguous, a question is never stored
without its outcome, a key names one group for ever, pages neither skip nor repeat.

### 1.6 Agent turns and the sidecar (`agentclient/`, `controller/agent.go`, `agent/session.py`, `agent/turn.py`, `agent/app.py`)

*State.* In Go: an LRU cache of evidence by Dataset. In Python: sessions by
conversation, with pending tool calls, a time to live and a limit.
*Operations.* A turn is a loop between the two: the model asks for tools, Go executes
them (they may read a Dataset, set the target, start a run), and answers.
*Hard.* Two turns on one Investigation share one session; a session is evicted in the
middle of a turn; a summary is keyed by the Dataset read before the turn.
*Correct when.* A turn ends within its ceiling, a tool result answers the call that
asked for it, a summary describes the Dataset it is stored under.

### 1.7 Login and limits (`controller/user.go`, `auth/`, `middleware/`)

*State.* In memory: e-mail challenges, revoked tokens, request counters.
*Hard.* A challenge used twice, two logins racing for one challenge, revocations forgotten by a restart, the edge of a rate window.

### 1.8 Frontend (`frontend/src/hooks/useChainTrace.ts`, `frontend/src/middle/`, `frontend/src/services/`)

*State.* The selected Investigation, its run and result; the pending idempotency key.
*Hard.* An answer that arrives after the user has selected something else; a poll
racing a cancellation; a message whose outcome is unknown.

### 1.9 Left aside

Model-vendor adapters, prompts, the trained scorer (`agent/llm`, `agent/scoring`),
claim extraction (`agent/claims`, `claimclient`, `scoreclient`), styling and layout:
data and I/O with next to no control state. The crawler runs by hand and shares
nothing with the service.

## 2. Plan

Most important first.

| # | module | about | runs | theorems |
|---|---|---|---|---|
| 1 | `RunLifecycle`, `InvestigationPromise` | 1.1, 1.2 and the run handlers | `lifecycle_*` | done: inductive invariant, safety, two action properties, the refinement, four properties that one failure breaks |
| 2 | `Conversation`, `ConversationLog` | 1.5: the store, the handlers, retries under one key, summaries | `conversation*` | done: inductive invariant, safety, the refinement, what a reply says |
| 3 | `Collector` | 1.3: the traversal, the provider under it, the learned score | `collector` | done: the call budget, the honest stop reason, completeness, the depth, the scored history, the types |
| 4 | `Rules`, `Reading` | the evaluation of 1.3, 1.4 and the pages of 1.5 | `reading` | done: whole pages, one Dataset per result, the cycles, parts against the whole |
| 5 | `AgentTurn` | 1.6: a turn between Go and the sidecar, over a Dataset that changes | `agent_turn` | done: one Dataset per turn, the bounds, the conversation of a turn on its own |
| 6 | `Login` | 1.7 over a discrete clock | `login` | done: budget, revocation, one session per link |

The modules meet in the database rows. `Collector` is what happens inside the
`Advance` steps of a worker of `RunLifecycle`, and its outcomes (a collection, a failure)
are the choices of that worker. `Reading`, `Conversation` and `AgentTurn` see of the
life cycle that a Dataset becomes current, each with an action of its own for it, and
that an Investigation is deleted; the effects of the tools that start a run or set a
target are handlers of `RunLifecycle`. `AgentTurn` is what a turn of `Conversation`
(`Delta`, `Answer`, `TurnFails`) does in between. `Reading` extends `Rules`, whose
result is published with a Dataset and read back.

Every module takes its parameters as CONSTANTS with a named assumption, one action per
block of code that runs without interruption, and no RECURSIVE operator if it is to
be proved about.

## 3. RunLifecycle: model and code

**Granularity.** A block under `RunManager.mu` is one action, a database statement or
transaction is one action, and what a handler read before is kept in `request[q]`
until it resumes. `Start` is a single action although it holds the mutex over an
UPDATE: every other writer of the columns that UPDATE tests is either under the same
mutex, or changes them in one statement, which serialises before or after it.

| variable | code |
|---|---|
| `row[i]` | a row of `investigations`; `status` absent and deleted stand for no row, `locked` for `target_locked`, `active` and `current` for the two run columns |
| `dataset[r]` | the Dataset published by run `r`, reduced to the address it describes |
| `run[r]` | `managedRun`: `claimed` is its publication claim, `expired` says its 30-minute context is over; "lost" is a run of a process that has died |
| `active[i]` | `RunManager.active` |
| `worker[r]` | where the goroutine of the run is |
| `request[q]` | a handler in progress |
| `up` | whether the process runs |

| action | code |
|---|---|
| `CreateInvestigation`, `UpdateTarget` | POST and PATCH `/investigations`, tool `set_investigation_target` |
| `ReadForStart`, then `Start` or `StartRefused` | `StartRun` and tool `start_analysis`: the row is read, then `RunManager.Start` |
| `PollMisses`, then `RecoverLost` | `GetRun` of a run the process does not know |
| `ArriveCancel`, then `Cancel` | `CancelRun`; `Cancel` is enabled once no publication is in progress |
| `ArriveDelete`, `AwaitPublication`, `Delete` | `RunManager.DeleteInvestigation` and its wait |
| `Begin`, `Advance`, `StepFails` | `execute` |
| `ClaimPublication`, `Commit`/`RollBack`, `RecordPublication` | `(*RunManager).publish`, the transaction `publish`, the last block |
| `Panic`, `Deadline` | the deferred `recover`, the context of the run |
| `Crash`, `Restart` | the process, `InitDb` with `reconcileLostAnalysisRuns` |

**Failures.** `CONSTANT Faults` says which failures an instance admits: `crash`,
`db_error` (a statement fails without effect), `commit_lost` (the publication commits and
its caller is told otherwise), `panic`, `publish_panic` (under the publication
claim), `deadline`. The theorems hold for every set of failures.

**Two choices in the worker.** `RollBack` is always possible, because `publish` validates what it is given before the
transaction and compares the row with it inside (`analysis/analysis.go:657-788`), besides its statements. And a run
whose context has expired may still leave the phase `evaluating`: the evaluator looks at the context
only if there are transfers to evaluate (`analysis/rules_v1.go:58-67`), so that the code can do either, `Advance` or
`StepFails`.

**Left out.** Owners other than the one of the Investigation (they get 404 and change
nothing); titles and listing; the rows of evidence in a Dataset; the claim UPDATE of
`Start` that commits although its answer is lost (only the publication has that
failure here); the snapshot `start_analysis` falls back to for its answer when a
re-read fails, which changes no state. The phases of a run are the places of its
worker. Panics are put where the code calls out (provider, evaluator, scorer), and
separately (`publish_panic`) in the publication, where no known call panics.

## 4. Conversation: model and code

**Granularity.** A handler is a *call* in a slot of `Calls`; a slot is used again when
its client has the answer or has gone. A database statement that stands alone is one
action. The transaction of `persistConversationGroup` is two: `OpenTransaction` takes
`conversationWriteMu`, locks the row, looks for the group of the key and computes the
next ordinal; `StoreGroup` inserts and commits. In between other calls go on up to
the mutex, and whoever needs the row (`PublishResult`, `DeleteInvestigation`) waits for
it. PostgreSQL has the row lock; SQLite has none, but refuses the write of one of
two such transactions, which is a failing statement here.

| variable | code |
|---|---|
| `present[i]`, `current[i]` | the row of the Investigation; its current Dataset, 0 for none |
| `messages[i]` | `ConversationMessage` rows by ordinal: key, role, and what the content is about |
| `call[c]`, `rows[c]` | a handler in progress, and the rows it writes or replies with |
| `writer` | the holder of `conversationWriteMu`, and with it of the lock on its row |
| `agent` | whether the process was given an Agent provider |

| action | code |
|---|---|
| `Ask` | `SubmitConversation`, `SubmitConversationStream` up to the turn |
| `AskSummary`, `FindSummary` | `GenerateSummary`: the current result gives the key, a stored summary is returned |
| `ResolveScope` | `resolveScope`: the Investigation is read again, with its current Dataset |
| `Delta`, `Answer`, `TurnFails` | the turn: the first frame of a stream, its end, its failure or timeout |
| `OpenTransaction`, `StoreGroup`, `StatementFails` | `persistConversationGroup` |
| `Return` | the reply has left |
| `PublishResult`, `DeleteInvestigation`, `Crash` | the rest of the system, as far as it touches these rows |

**Abstractions.** The content of a message is the number of the Dataset it is about
(0 for a question or a notice). Chunks of a message are not told apart, since they
are written and deleted with it. A reply `db_error` stands for the internal errors that
a failing statement causes, so that the properties can tell them from the internal errors the
program decides on; a client sees one status. The frontend draws question keys at
random, hence the assumption that no question is asked under a summary's key. Requests that are refused before they read anything they could lose,
and a failing first read, change no state and are left out.

## 5. Collector: model and code

**Granularity.** A run collects on one goroutine, so the interleaving is with the
provider. One action is one HTTP attempt and all that the code does with its outcome
up to the next attempt (`ListAnswered`, `ReceiptAnswered`, `RetryCall`, `CallFails`), or
all that `Collect` does with one complete page (`StopAtLimit`, `FollowCursor`, `NextAddress`,
`SourceExhausted`, `DepthReached`, `NextDepth`). Transfers of a page are admitted one by one in
the code; the action takes the prefix up to the limit at once (`FirstByKey`).

| variable | code |
|---|---|
| `ledger` | the chain up to the cutoff block: every transfer event, in the order a history lists them |
| `walk`, `pc` | `Collect` or `fetchTargetOwnTransfers`, and where it is |
| `address`, `page`, `frontier`, `depth`, `next` | the loops of `Collect`: the current address and its cursor, the sorted rest of this depth, the next depth |
| `unverified`, `verified`, `more`, `attempt` | `FetchAddressTransfers` in progress: transactions without a receipt yet, confirmed events, `NextCursor`, the retry |
| `remaining`, `called` | the call budget in the context, and the calls actually sent |
| `admitted`, `visited`, `reached` | the collection, the addresses seen, `reachedDepth` |
| `own`, `score`, `outcome` | what the learned scorer is given, and what `Collect` returned |

**The provider.** A history record does not carry the index of its log. `Confirmed`
does what `verifiedReceiptTransfers` does about that: the logs of the receipt are given
to the records *of this page* in turn. Two events of one transaction with equal
parties and amount (*twins*) are therefore told apart on one page, but if a page
boundary falls between them, each page takes the first log, and the second record
is dropped as a duplicate. `CompleteUnlessTold` and `ScoredHistoryIsWhole` are stated up to twins for this reason; the
requirement (`.scratch/frontend-to-backend-mvp/issues/06-production-trongrid-trc20-usdt.md:11`) asks for
every event. The same fetch feeds the learned score, which then sees the history without that transfer. The code sorts the transfers of a page by
transaction and then by the *name* of the log, as a string: `log:10` comes before `log:2`. `LogKey` is that order. The answers of the provider are those of a ledger that does not change
below the cutoff block; `ghost_page` is a cursor behind which nothing is left.

**What the model says about three limits.** A cursor that was seen before ends the walk in
the code; with `TronGridProvider` it cannot occur, because the cursor carries the page
number, so the page cap and the budget are what ends a walk. An interruption by the
deadline fails the run with no collection, whatever was collected, though
`.scratch/frontend-to-backend-mvp/spec.md:189` counts a time budget among the reasons for a
partial result. And the flag `truncated` that the scorer is given is false when the cap falls
inside the last page: more history exists, but no cursor does
(`docs/learned-risk-scoring-plan.md:54` calls the flag "whether the transfer cap was reached"). `ScoredHistoryIsWhole`
therefore asks only that a truncated history has reached the cap, not the converse.

**Left out.** Amounts and times; the field checks of a malformed record (a refused record is of
the kind `foreign`); the lengths of delays; the capture of the cutoff, which is one call before the walk.

## 6. Rules and Reading: model and code

`Rules` holds `RulesV1Evaluator` and `calculateMetrics` as functions of a set of transfers.
The code sorts before it evaluates; no rule depends on the order, which the sets make plain.
Thresholds are constants so that four addresses can reach them; weights and
levels are those of the code.

`Reading` takes one action per SQL statement: on PostgreSQL's default isolation
each statement sees its own snapshot, inside a transaction as well, so a publication
or a deletion may fall between any two. The reader is one client that follows a
result, a graph or a transcript to its end.

| action | code |
|---|---|
| `Publish`, `StoreGroup`, `Delete` | the transaction `publish`, `persistConversationGroup`, `DeleteInvestigation` |
| `Ask` | `GetCurrentResult`, `GetGraph`, `GetConversation`: the query, the first page |
| `ReadRow` | the row of the Investigation, by Owner; `stale` is the refusal of a Dataset that is not current |
| `ReadRanked`, `ReadEdges`, `CountCounterparties` | `LoadGraphPage`: the counterparties of a rank, the rows, their degrees; then the next cursor |
| `ReadDataset`, `ReadMetrics`, `ReadAssessment` | `LoadCurrentResult` |
| `ReadMessages`, `ReadChunks` | `LoadConversationPage`, `assembleConversationMessages` |

**Abstractions.** An opaque cursor is what it encodes: Dataset, anchor and the key of the
last row. The transcript is read from its beginning by increasing ordinal, one message
per number. A window of ranked counterparties has no end of its own on the server; the
loop that asks for the next one is the client's (`frontend/src/services/transactionGraphBrowser.ts:253-268`).
Malformed queries are refused before anything is read, and left out.

## 7. AgentTurn: model and code

**Granularity.** The backend and the sidecar each run a request without giving way to another turn
in the middle of what is one action here: the backend between two requests of a turn
(`Begin`, `RunTools`, `LeaveLoop`), the sidecar between taking a session and calling the model
(`ReceiveOpening`, `Resume`, `SessionExpired`), and after the model's answer (`ModelCalls`, `ModelAnswers`,
`ModelFails`). Between them the model thinks, and anything else may happen.

| variable | code |
|---|---|
| `current[i]` | the current Dataset of an Investigation |
| `held` | `SessionStore._sessions`, in the order of use |
| `session[s]` | a `Session` object: its Dataset and its pending messages. It lives as long as the store or a request refers to it, as a Python object does |
| `wire[t]` | the request of turn `t` on its way to the sidecar, waited for or not |
| `leg[t]` | the request the sidecar works on: the session object it holds and the messages the model is given |
| `turn[t]` | `turnScope` and the loop of `runTurn`: the Dataset, the rounds used, whether other turns were at work on the Investigation (`alone`, an observation) |

**Failures.** A request may be lost or arrive late (`TimeOut`, `Lose`), the sidecar may evict, expire or restart
(`Evicted`, `Expire`, `Restart`), the model may fail. A turn that is no longer waited for goes on in
the sidecar to its end.

**Why "alone".** Two turns on one Investigation share a session: the second opening replaces it,
and the first then continues the conversation of the second. The code accepts that, and the model
shows it; `AloneTurnIsCoherent` says what holds of a turn that had its Investigation to itself, and
`ModelSeesOneDataset` what holds of every turn.

**Abstractions.** A message is whose it is, its round and the Datasets it shows. The answers of
one round are one message, for all calls of a round are executed before the next request. The ceiling
`AGENT_MAX_TOOL_CALLS` is one on rounds, as in the loop of `runTurn`, although `agentclient/options.go:31` says it "caps how many
Tier 1 tools one turn may run": a reply may ask for several, and all are executed. No property counts them. The
caches of Dataset views and evidence hold immutable values by identity and are left out. What a tool
does to a run or a target belongs to `RunLifecycle`.

## 8. Login: model and code

One account, because every map of the store and of the limiter is keyed by it. A block
under `EmailChallengeStore.Mu` is one action, so that requests overlap between `getEmail`, `valid` and
`setVerifyToken` (`Follow`, `Confirm`, `Redirect`), and between the exchange of a code and the token
(`Exchange`, `Enter`), and a logout between `ValidateJWT` and its handler (`Logout`, `Revoke`); so is `RateLimiter.Request` with the comparison of the password that follows it
(`TryPassword`). `Forget` is `clearExpiredItems`, at any time its condition holds.

| variable | code |
|---|---|
| `attempts` | the limiter's queue of the account |
| `challenge`, `exchange` | the entries of `cache` and `tokenCache` |
| `mailed`, `given` | links and codes that have left the server; a code is known by the link it was given for |
| `sessions`, `revoked` | tokens issued, and `RevokedTokenRegistry` with the time until which each is kept |
| `leaving` | the tokens that logouts in progress were let through with, any number of them |
| `guesses`, `loggedOut` | observations: attempts and logouts since the last start |

Everything but the issued tokens is in memory. `Restart` forgets it, and the two observations with it, so that
the properties promise what the code can promise: after a restart the budget begins anew, and a token that was
logged out is accepted again until it expires. The life that a mail states is that of a new link, although a
link that is sent again may have less left (`controller/user.go:66-69` calls the stated expiry true by
construction); no property depends on it. Registration, the FGF sign-in, profiles, and the limiters by
address and Owner, which are the same class under other keys, are left out.

## 9. What the runs show

| run | question | bounds |
|---|---|---|
| `lifecycle_faults` | Is the life cycle safe whatever fails, and does it implement `InvestigationPromise`? | 2 Investigations, 2 runs, 1 address, 2 requests, every failure; 607 114 states up to symmetry |
| `lifecycle_progress` | With crashes, panics and failed publications, but no other failing statement and no deadline, does everything end, and a failed publication leave nothing? | 1 Investigation, 2 runs, 2 requests; 21 305 states |
| `lifecycle_stale_target` | violation of `DatasetMatchesTarget` | 1 Investigation, 2 addresses, no failure |
| `lifecycle_abandoned_run` | violation of `NoAbandonedRun` | deadlines only |
| `lifecycle_stuck_row` | violation of `EndedRunReleasesRow` | failing statements only |
| `conversation` | Is the transcript a log of whole groups whatever overlaps or fails, do replies tell what is stored, does every call return? | 1 Investigation, 1 key, 1 Dataset, 2 calls, every failure; 39 814 states |
| `conversation_replay` | violation of `ReplayReturnsGroup` | 2 calls, no failing statement |
| `conversation_summary` | violation of `SummaryDescribesItsDataset` | 2 Datasets, no failure |
| `collector` | Does the walk respect every limit, say truly how it ended, and end? | every ledger of 4 events (the last of any kind) in 3 transactions over 5 edges among 4 addresses; limit 3, depth 2, pages of 2, 2 pages, 1 retry, 9 calls; every failure; 943 264 states |
| `reading` | Are pages concatenated the whole, is a result of one Dataset, do the rules only grow with the evidence? | every subset of 8 transfers as the first Dataset, then a second of two; pages, windows and ranks of 2; 3 messages; 1 055 308 states |
| `agent_turn` | Does the model see one Dataset, and does every turn end, over a forgetful sidecar and a lossy network? | 2 turns, 2 Investigations, 2 Datasets, 1 session, 2 rounds; 334 378 states |
| `login` | Is a link used once, is a logout final, does the budget hold in every window? | 2 requests at a time, 2 links, 2 attempts per 3 units of time, 6 units; 5 284 568 states up to symmetry |

*Why these bounds.* A run identifier is never reused, so two runs are a run and its
successor on one row: every race in section 1.1 (an old worker against a new run, a
poll of a lost run against its successor, a re-run over a published result) needs no
third. Two requests are two handlers racing; a worker and a restart come on top.
Two Investigations show that nothing leaks from one to the other, and one address
(plus the unset target) is enough wherever the address itself is not compared; the
one run that compares addresses has two. Instances with symmetry check only safety.

For the conversation, two calls at once give every overlap the mutex must resolve, and
since slots are used again, any number of calls one after the other. Retries need one
key only, asked in every way; with the summary key of the one Dataset a conversation
still has two groups, of two rows and of one, in either order. Conversations never
share a row, so a second Investigation would only add a holder of the mutex.

*Safety* (`lifecycle_faults`): `OneLiveRun`, `OneTerminalWinner`, `RowConsistent`,
`NoOrphanDataset`, the action properties `TerminalIsFinal` and `TargetImmutable`, and the
refinement `ImplementsPromise`: under the mapping `Outcome`, every step of the code is
a step of the abstract specification or a stutter, so a run is opened once and then
either publishes together with its row or is withdrawn and never publishes.

*Progress* (`lifecycle_progress`): `AnalyzingRowHasLiveRun`, `NoAbandonedRun`,
`ClaimHasWorker`, `FailedPublishesNothing`, and the liveness properties `EveryRunEnds` and
`EveryCallReturns`. *Fairness*: weak fairness of each worker and of each handler that
has begun, which is what the Go scheduler gives a goroutine that can run, given that
calls to the database and to the provider return (they have timeouts). A waiting
handler is disabled while the claim is held, as one parked on the condition variable
is; it becomes and stays enabled when the claim is gone, for a run is claimed once.
Owners, failures and restarts are not fair: nobody has to call, and a process that
died need not come back. `EveryRunEnds` holds then too, because the run died with it. A publication
may fail in this run, by validation, by a statement of its transaction or by the comparison of the row (`RollBack`): that is
what `FailedPublishesNothing` is about. A COMMIT whose answer is lost is excluded, because then the run is failed and its
Dataset current; `lifecycle_faults` admits that. The theorem
`FailedRunPublishedNothing` has the same for every other failure.

*The conversation* (`conversation`): `NoGapInTranscript`, `GroupsAreWhole`,
`NoOrphanMessages`, `ReplyTellsStored` (an answer or notice a client is shown is the
stored one), `InternalErrorHasCause` (an internal error that is no failing statement comes from an Investigation that is
gone, or from a group of other roles under the key, which is finding 4; a second write of the same group is never
refused), the refinement `ImplementsLog`, and
`EveryCallReturns`. *Fairness*: weak fairness of a call that has begun, without its
failures, as turns have a timeout and statements return; strong fairness of
`OpenTransaction`, because `sync.Mutex` in its starvation mode hands itself to whoever
has waited for a millisecond.

*The bounds of the other four.* Four events are enough to reach the transfer limit of 3 on any page, before or after
its end and at any depth, with one event left over; four addresses in a chain around the target reach past the
traversal depth, and pages of two put twins on one page or across two. Nine calls run out before,
during and after the retries. Eight transfers with equal times, equal transactions, self-transfers and cycles of
2, 3 and 4 hops (one above the maximum) give three to four pages of two. Two turns and one
session make every opening evict, replace or find the session of the other. Six units of time hold two
windows of three, and every life span ends within it at another point.

*Collecting* (`collector`): `CallsWithinBudget`, `StopReasonHonest`, `CompleteUnlessTold`, `DepthIsDistance`,
`ScoredHistoryIsWhole` and `EveryWalkEnds`. The references are not the traversal: distance is the radius of a ball
around the target, completeness is about the confirmed events of the ledger. *Fairness*: weak fairness of the
walk, since a provider call has a timeout of its own; the deadline of the run is never relied on.

*Reading* (`reading`): `PagesAreWhole`, `ResultIsOfOneDataset`, and about the rules `PartialNeverOverstates` (adding a
transfer never withdraws a reason or lowers a score, so a partial collection understates at worst) and `CyclesAreReal`
(the bounded search against the definition of a cycle). The two are evaluated in the states in which a Dataset
has just been published and nobody reads. A reader need not go on, so there is no liveness.

*Turns* (`agent_turn`): `TypeOK`, `ModelSeesOneDataset`, `AloneTurnIsCoherent`, `EveryTurnEnds`. *Fairness*: weak fairness of
each turn's requests, replies and tool rounds: the transport delivers or fails, the adapters have timeouts. Deadlines,
evictions and restarts are not fair, and a turn ends without them.

*Login* (`login`): `OneSessionPerLink`, `LoggedOutStaysOut`, `GuessesWithinBudget`. No fairness: nobody has to log in.

*Findings.* Five properties that a document states and the code does not keep; each
is the only property of its run, with the failures it needs and no other.
1. A start uses the Investigation it read before the row was claimed. An edit of the
   target in between succeeds, and the run publishes a Dataset about the other
   address (`docs/adr/0004`).
2. A run whose context expires after the evaluator has looked at it (or whenever, if there is nothing to evaluate)
   is left running by a worker that
   returned silently from `publish`; its Investigation accepts no start until the Owner
   cancels or the process restarts.
3. A cancellation or failure whose restoring statement fails ends the run and leaves
   the row analyzing with an ended run: neither a poll nor a second cancellation
   repairs it while the process lives.
4. A question stored as unavailable cannot be retried: under its key the Agent is asked
   again and its answer refused, for the stored roles differ
   (`model/conversation.go:82-84` promises the stored group instead).
5. A result published between the key of a summary and its turn stores a summary of
   the new Dataset under the key of the old one (`controller/agent.go:15-17`).

## 10. What is proved

`RunLifecycleProofs` proves, for any sets of Investigations, runs, addresses and
requests and any failures, from the single assumption `LifecycleAssumption` (`Faults` is
a set of the failures above; `None` is no identifier):

| theorem | property |
|---|---|
| `Invariance` | `[]IInv` |
| `TypeCorrect` | `TypeOK` |
| `AtMostOneLiveRun` | `OneLiveRun` |
| `SingleTerminalWinner` | `OneTerminalWinner` |
| `RowsAreConsistent` | `RowConsistent` |
| `DeletionLeavesNoOrphan` | `NoOrphanDataset` |
| `TerminalStatusIsFinal` | `TerminalIsFinal` |
| `PublishedTargetIsImmutable` | `TargetImmutable` |

*The argument.* None of the safety properties is inductive alone. `IInv` adds:

- `ActiveAgrees`: the registry of active runs and the live runs are the same. It gives
  `OneLiveRun` at once: two live runs of one Investigation are both its active run.
- `PublisherHoldsClaim`: a worker inside the publication holds the claim of a live run.
  A cancellation needs the claim to be free, so the run cannot end under the feet of
  its worker; this is what makes the terminal winner unique.
- `DatasetAgrees`: a live run has a Dataset only between its commit and its record,
  and a worker that has committed finds its row locked with a current result. It
  carries `OneTerminalWinner` over the gap between the transaction and the mutex.
- `SubjectExists`: a run is of a row that was created, so that creating a row never
  touches one.
- `RequestsWellFormed`, `RunsWellFormed`: what a handler holds when it resumes.

Deletion is the delicate step: it removes Datasets of runs that ended long ago, and
must not meet one that a worker has just committed; `PublisherHoldsClaim` with
`ActiveAgrees` says that such a worker's run is the active one, whose claim the
deletion waits for. `TLC` checked `IInv` as an invariant of the `lifecycle_faults` instance
before the proof was begun.

`RunLifecycleProofs` also proves, from the same assumption and for any failures:

| theorem | property |
|---|---|
| `Refinement` | `ImplementsPromise` |

*The argument.* `Outcome(r)` is read off the row and the Dataset of a run, so a step is judged by
what it writes to them. Whatever gives a row back to its Owner (a cancellation, a failure, a recovery,
a restart) is a `Withdraw` or, if the row was not of that run, nothing (`ReleaseWithdraws`); only `Commit`
is a `Publish`, and it finds the run open because its worker holds the claim (`PublisherHoldsClaim`) of a run whose
row it has just compared; a deletion takes the Datasets and the runs of one Investigation with
its row, and all else leaves every outcome as it is (`UnseenStutters`).

`RunFailureProofs` proves what holds as long as one kind of failure does not happen, whichever
of the others do. The excluded failure is the one that breaks the property, and nothing more is assumed:

| theorem | property | without | invariant |
|---|---|---|---|
| `ClaimIsReleased` | `ClaimHasWorker` | `publish_panic` | itself |
| `ReturnedWorkerEndedItsRun` | `NoAbandonedRun` | `deadline` | `UnexpiredRun`: no context expires, and a worker that is done has a run that has ended |
| `FailedRunPublishedNothing` | `FailedPublishesNothing` | `commit_lost` | `EmptyFailure`: a failed run, or one whose worker rolled back, has no Dataset |
| `AnalyzingRowsMoveOn` | `AnalyzingRowHasLiveRun` | `db_error` | `RegistryNamesRun`, `CommittedRowSettled` |
| `EndedRunsReleaseRows` | `EndedRunReleasesRow` | `db_error` | `DownKnowsNoRun`, with the above |

*The argument.* `EveryRunSteps` sums up `Next` as one run and its worker see it (it is started, cancelled, begins,
advances, fails, claims, transacts, reports, expires or dies), `EveryRowSteps` as one row sees it (it starts a
run, drops its run, or keeps it). Each property is then an induction over a
handful of cases. The last one is the property that `lifecycle_stuck_row` finds violated: the theorem says that the failing
statement of that counterexample is the only way there.

`ConversationProofs` proves, for any sets of Investigations, keys and calls, any number
of Datasets and any failures, from `ConversationAssumption` (`LastDataset` is a natural
number, `Faults` a set of the failures above, `None` no identifier, question keys no
summary keys):

| theorem | property |
|---|---|
| `Invariance` | `[]IInv` |
| `TypeCorrect` | `TypeOK` |
| `TranscriptHasNoGap` | `NoGapInTranscript` |
| `QuestionsHaveOutcomes` | `GroupsAreWhole` |
| `DeletionLeavesNoMessages` | `NoOrphanMessages` |
| `Refinement` | `ImplementsLog` |
| `RepliesTellTheTruth` | `ReplyTellsStored` |
| `InternalErrorsAreExplained` | `InternalErrorHasCause` |

*The argument.* What a call computed under the mutex must still be true when it
commits. `IInv` says so: `WriterIsInside` (the one call between `OpenTransaction` and
`StoreGroup` is the holder of the mutex) and `WriterIsCurrent` (its Investigation
exists, its key is unused and its rows start at the current length of the
transcript). `CallsWellFormed` ties summaries to summary keys and questions to their
own, so that a group of two rows never shares a key with a group of one. That the
MAX of the ordinals plus one is the length of the transcript is the lemma
`NextIsLength`; it holds because there is no gap, and keeps it so. The refinement maps a
commit to an append (`StoreGroupAppends`), a deletion to a deletion, and everything
else to a stutter. The replies need one more invariant, `RepliesHold`: what a call that is done says of the
transcript stays true, because a group that is stored never changes and goes only with its Investigation. An
internal error has its cause because a group like the one to be stored is never refused: a writer's key is unused and its
ordinals are free (`WriterIsCurrent`), so what is refused met a group of other roles, which stays (`AnotherOutcomeKept`).

`LoginProofs` proves, for any sets of requests and links, any budget, window and life
spans, from `LoginAssumption` (the budget is positive, times are natural numbers, `"none"` is no
link):

| theorem | property |
|---|---|
| `TypeCorrect` | `TypeOK` |
| `BudgetHolds` | `GuessesWithinBudget` |
| `RevocationHolds` | `LoggedOutStaysOut` |
| `LinkIsUsedOnce` | `OneSessionPerLink` |

*The argument.* The limiter sees only its queue, and the property speaks of all attempts. `QueueIsRecent`
joins the two: attempts are in the order of time, the queue is their end, and whatever the limiter
has forgotten while its queue is not full lies a window back, because it forgets a queue only when its *newest* entry
is older than that. `AttemptKeepsBudget` is the step that matters. `KeptLongEnough` says that a
revoked token is registered until it expires, since it is kept for a whole token life from the logout on and cannot
have been issued later; pruning then only drops tokens the signature check refuses. `OnePlace` says that a link is either
pending, or with one request, or behind the pending code, or in one session: the deletions under the mutex
(`Confirm`, `Exchange`) move it from one place to the next, and nothing copies it.

`CollectorProofs` proves, for every ledger, all limits and budgets and any failures, from
`CollectorAssumption` (limits are positive, budgets natural numbers, the events of a ledger numbered from 1 on) and
`LogKeyAssumption` (the names of logs have an order, and no two events the same name):

| theorem | property |
|---|---|
| `CallsAreBudgeted` | `CallsWithinBudget` |
| `StopTellsTheTruth` | `StopReasonHonest` |

*The argument.* `Charged`: the calls sent and the budget that remains add up to the budget of the walk in
progress, whichever action spends one. `Honest`: a walk that goes on is below the transfer limit (`Going`), and
one that has collected nothing has found nobody, so every way to stop finds what it is about to
say true. The step that matters takes the first transfers of a page up to the limit: `FirstByKeyBound` counts
them by their ranks in the order of the keys, which are distinct numbers.

Of what a collection is when its walk has ended, `CollectorProofs` proves under the same assumption:

| theorem | property |
|---|---|
| `CollectionIsComplete` | `CompleteUnlessTold` |
| `ReachedDepthIsADistance` | `DepthIsDistance` |
| `ScoreSeesTheHistory` | `ScoredHistoryIsWhole` |
| `CollectionsAreTyped` | `TypeOK` |

*The argument.* `CollectionHolds` is a conjunction. `Turning` follows the pages of one address: what they have given so
far, page in hand included, is the history up to the page, up to twins; so it is the whole history when no
page is left. `Layered` follows the search: the addresses within the current depth are the ball of that radius around the target,
all of their transfers are held unless they are still to be fetched, and `next` is what one more transfer reaches.
When the search ends, the balls of what is held are the balls of the ledger (`SameBall`: events that touch nobody
nearer change no distance), which is completeness; that the deepest layer is not empty is the distance. `Told` keeps this
for the outcome, `WholeScore` is the same, up to twins as well, about the target's own history and its cap, and `Rest` are
the types that are left. Distances are a recursive function, and their facts are inductions over the radius. The
induction theorems of the library take an operator as a parameter, which the provers cannot instantiate; `Induction`
in `FiniteFacts` speaks of a set of naturals instead, and rests on `Least`, the well-foundedness of the finite sets under
inclusion.

`ReadingProofs` proves, for all Datasets, anchors, sizes of pages, windows and ranks, and for any target, from
`ReadingAssumption` (sizes are positive; a Dataset is a finite set of transfers, no two with the same transaction and log,
which is the unique index `idx_dataset_transfer_event`, and each with a positive block time) and
`RulesAssumption` (thresholds and the maximum of hops are positive, time windows natural numbers):

| theorem | property |
|---|---|
| `PagesMakeTheWhole` | `PagesAreWhole` |
| `ResultsAreConsistent` | `ResultIsOfOneDataset` |
| `SearchFindsTheCycles` | `CyclesAreReal` |
| `PartsNeverOverstate` | `PartialNeverOverstates` |

*The argument.* `Consistent` says that a Dataset keeps its content and its assessment once it is published, that the next
statement fits the question, and what of a result was read. `PagesSoFar` says that the first n rows of the whole
have left and that the next page begins behind the n-th, be it by its number or by its key. The two agree because a
sort here *chooses*, for every place, the row with so many rows before it (`Lists`): there is always one
(`RanksAreTaken`), there is only one list (`OneList`), and so what lies behind a cursor is, sorted, the tail of the whole
(`RestIsSorted`). Ranked windows (`RanksSoFar`) hold the transfers of the first ranks; those of another rank are others, so
joining two windows repeats nothing (`OnceEachJoined`), and the last rank is the number of the counterparties.
`TranscriptSoFar` is the same about ordinals, of which there may be more at the end than at the beginning. TLC checked
the four invariants on the `reading` instance before the proof.

What is said of the rules is said of any finite set of transfers. After n rounds the search of `CircularFlow` has
exactly the paths of up to n addresses, none twice (`PathsAre`, by induction over the rounds), and an edge
back into a path closes a cycle that is itself a path from its first address (`CircularFlowIsTheCycles`). The
cycles of a part are therefore cycles of the whole, and the other four rules only count, add up or look for transfers, of which
the whole has more (`QualifyingGrows`). A score and an amount are sums over finite sets: `SumsAdd` shows that the fold of
the library does not depend on the order it chooses, `SumsGrow` and `SumsAgree` that more terms give no less.

`AgentTurnProofs` proves, for any sets of Investigations, any numbers of turns, rounds and sessions, from
`AgentTurnAssumption`:

| theorem | property |
|---|---|
| `OneDatasetPerTurn` | `ModelSeesOneDataset` |
| `SessionsAreBounded` | `TypeOK` |
| `AloneTurnsAreCoherent` | `AloneTurnIsCoherent` |

*The argument.* The code compares Datasets once, when it takes a session. `Bound` says why that is enough: a
request carries the Dataset of its turn and results of no other, the messages a session keeps are of its
own Dataset, and a request in progress holds a session of its turn's Dataset although the store may have
replaced or lost it, for a session object never changes its Dataset and a new one is never one that somebody still
holds. `SidecarBound` is this argument for any step of the sidecar that serves one turn. `Stored` adds that the store
is within its limit with one session for each Investigation (`Replaced`, `EvictedOne`), and `WithinRounds` that a turn
opens at most one session for each round. It bounds rounds, not tools (section 7).

`Coherence` is about a turn on its own. Nobody else of its Investigation is at work (`Undisturbed`), so every
session of the Investigation in the store is one it left there, or was left before it and is replaced by its opening. While the
model thinks, the only such session is the one it was taken from, with the messages the model was given (`Thinking`);
while the tools run, and while their results are on the way, any such session has the turn's own conversation up to the
calls that are being answered (`Executing`, `Resuming`); if it is lost meanwhile, the answer is an opening, of which
nothing is required. Steps of other turns drop sessions of this Investigation at most (`ServedStore`,
`ServedSessions`, `LeftAlone`). TLC checked `Coherence` on the `agent_turn` instance, with one session and with two, before
the proof.

## 11. Only model-checked, and not modelled

Liveness (`EveryRunEnds`, `EveryCallReturns`, `EveryWalkEnds`, `EveryTurnEnds`) and everything under
fairness is out of TLAPS's reach and rests on TLC.

`RunLifecycle`'s property `DatasetMatchesTarget` and the other findings are violated, and have no theorem. Every
invariant and action property of a passing run has one.

Not modelled, and why:

- The frontend (1.8): its state lives in React effects whose scheduling the source does not state; only its
  loop over ranked windows appears, in `Reading`.
- In 1.2 titles, listing and the clock of creation times; schema migration, which runs once before anything is concurrent.
- In 1.3 the capture of the cutoff block, the lookup of a claimed transaction, address codecs and the lengths of delays
  (only their number is modelled).
- In 1.5 the validation of requests and the choice of the recent history for a turn.
- In 1.6 the content of evidence, prompts and the caches of immutable values: data without control.
- In 1.7 registration, the FGF sign-in, profiles, and further limiters of the same class.
- All of 1.9, and with it the verification of claims (`controller/claim_verify.go`), a function of one request.
