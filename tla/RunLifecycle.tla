---------------------------- MODULE RunLifecycle ----------------------------
(***************************************************************************)
(* The life of an Analysis Run: the in-memory RunManager of                *)
(* analysis/analysis.go, the Investigation rows and Analysis Datasets of   *)
(* the database, the worker goroutine of each run, the HTTP handlers that  *)
(* call the manager, and the crash and restart of the process.             *)
(*                                                                         *)
(* Every block of code that runs under RunManager.mu, and every database   *)
(* statement or transaction, is one action.  A handler that reads the      *)
(* database first and takes the mutex afterwards is two actions, and what  *)
(* it read is kept in between.  Requests are those of the Owner: a         *)
(* request of anybody else changes nothing.                                *)
(***************************************************************************)
EXTENDS Naturals, FiniteSets

CONSTANTS
  Investigations,  \* Investigation identifiers, never reused
  Runs,            \* Analysis Run identifiers, never reused; their number bounds the model
  Addresses,       \* TRON addresses an Owner may target
  Requests,        \* request slots: how many handlers run at once
  Faults,          \* the environment failures this instance admits
  None             \* SQL NULL, an absent map entry, an unset argument

FaultKinds ==
  {"crash",          \* the process dies between any two steps
   "db_error",       \* a statement fails and has no effect
   "commit_lost",    \* the publication commits but its caller sees an error
   "panic",          \* the provider, the evaluator or the scorer panics
   "publish_panic",  \* the code panics while it holds the publication claim
   "deadline"}       \* the 30-minute context of a run expires

ASSUME LifecycleAssumption ==
  /\ Faults \subseteq FaultKinds
  /\ None \notin Investigations \cup Runs \cup Addresses

VARIABLES
  row,      \* [Investigations -> Row], table investigations
  dataset,  \* [Runs -> address the Dataset this run published describes, or None]
  run,      \* [Runs -> ManagedRun], RunManager.runs
  active,   \* [Investigations -> run identifier or None], RunManager.active
  worker,   \* [Runs -> where the goroutine of the run is]
  request,  \* [Requests -> Request], the handlers in progress
  up        \* whether the process is running

vars == <<row, dataset, run, active, worker, request, up>>

NoRow     == [status |-> "absent", address |-> None, locked |-> FALSE,
              active |-> None, current |-> None]
UnusedRun == [inv |-> None, status |-> "unused", target |-> None,
              claimed |-> FALSE, expired |-> FALSE]
Idle      == [op |-> "idle", inv |-> None, run |-> None, target |-> None]

Init ==
  /\ row     = [i \in Investigations |-> NoRow]
  /\ dataset = [r \in Runs |-> None]
  /\ run     = [r \in Runs |-> UnusedRun]
  /\ active  = [i \in Investigations |-> None]
  /\ worker  = [r \in Runs |-> "none"]
  /\ request = [q \in Requests |-> Idle]
  /\ up      = TRUE

-----------------------------------------------------------------------------
(* Investigation rows *)

Stored(i) == row[i].status \in {"pending", "analyzing", "completed"}

\* The run is queued or running: it has no terminal status yet.
Live(r) == run[r].status \in {"queued", "running"}

\* Every terminal transition cancels the context of its run.
ContextDone(r) == run[r].expired \/ ~Live(r)

\* Mutant: the status is reset whatever the row has published before.
ReleasedAsPending(old) == [old EXCEPT !.status = "pending", !.active = None]

\* A row that no longer names a run shows its previous stable status.
Released(old) ==
  [old EXCEPT !.status = IF old.current = None THEN "pending" ELSE "completed",
              !.active = None]

\* restoreStableStatus: releases the row if it still names this run.
Restored(i, r) ==
  IF row[i].active = r THEN [row EXCEPT ![i] = Released(row[i])] ELSE row

\* The table after a call of restoreStableStatus, whose statement may fail.
RestoreOutcomes(i, r) == {Restored(i, r)} \cup {t \in {row} : "db_error" \in Faults}

\* The run reaches a terminal status and gives up its Investigation.
End(r, status) ==
  /\ run' = [run EXCEPT ![r].status = status]
  /\ active' = [active EXCEPT ![run[r].inv] = None]

\* POST /investigations
CreateInvestigation(i, a) ==
  /\ up /\ row[i].status = "absent"
  /\ row' = [row EXCEPT ![i].status = "pending", ![i].address = a]
  /\ UNCHANGED <<dataset, run, active, worker, request, up>>

\* Mutant: only an active run keeps the target from being edited.
UpdateTargetOfAnyStatus(i, a) ==
  /\ up /\ Stored(i) /\ row[i].active = None
  /\ row' = [row EXCEPT ![i].address = a]
  /\ UNCHANGED <<dataset, run, active, worker, request, up>>

\* PATCH /investigations/:id with an address, and the set_investigation_target tool:
\* one guarded UPDATE.  An empty address clears the target.
UpdateTarget(i, a) ==
  /\ up /\ row[i].status = "pending" /\ ~row[i].locked /\ row[i].active = None
  /\ row' = [row EXCEPT ![i].address = a]
  /\ UNCHANGED <<dataset, run, active, worker, request, up>>

-----------------------------------------------------------------------------
(* POST /analysis-runs and the start_analysis tool *)

\* The handler reads the Investigation, whose target must be set.
ReadForStart(q, i) ==
  /\ up /\ request[q] = Idle
  /\ Stored(i) /\ row[i].address # None
  /\ request' = [request EXCEPT ![q] =
                   [op |-> "start", inv |-> i, run |-> None, target |-> row[i].address]]
  /\ UNCHANGED <<row, dataset, run, active, worker, up>>

\* Mutant: neither the registry nor the UPDATE asks for an active run.
StartUnguarded(q, r) ==
  LET i == request[q].inv IN
  /\ up /\ request[q].op = "start" /\ run[r].status = "unused"
  /\ Stored(i)
  /\ row' = [row EXCEPT ![i].status = "analyzing", ![i].active = r]
  /\ run' = [run EXCEPT ![r] = [@ EXCEPT !.inv = i, !.status = "queued", !.target = request[q].target]]
  /\ active' = [active EXCEPT ![i] = r]
  /\ worker' = [worker EXCEPT ![r] = "launched"]
  /\ request' = [request EXCEPT ![q] = Idle]
  /\ UNCHANGED <<dataset, up>>

\* RunManager.Start with the copy the handler read: the row is claimed by a
\* guarded UPDATE, the run registered and its worker launched.
Start(q, r) ==
  LET i == request[q].inv IN
  /\ up /\ request[q].op = "start" /\ run[r].status = "unused"
  /\ active[i] = None
  /\ Stored(i) /\ row[i].active = None
  /\ row' = [row EXCEPT ![i].status = "analyzing", ![i].active = r]
  /\ run' = [run EXCEPT ![r] = [@ EXCEPT !.inv = i, !.status = "queued", !.target = request[q].target]]
  /\ active' = [active EXCEPT ![i] = r]
  /\ worker' = [worker EXCEPT ![r] = "launched"]
  /\ request' = [request EXCEPT ![q] = Idle]
  /\ UNCHANGED <<dataset, up>>

\* RunManager.Start refuses: a run is active, the row is gone or the statement
\* failed (the last disjunct: the bounded set of identifiers is used up).
StartRefused(q) ==
  LET i == request[q].inv IN
  /\ up /\ request[q].op = "start"
  /\ \/ active[i] # None
     \/ ~Stored(i) \/ row[i].active # None
     \/ "db_error" \in Faults
     \/ \A r \in Runs : run[r].status # "unused"
  /\ request' = [request EXCEPT ![q] = Idle]
  /\ UNCHANGED <<row, dataset, run, active, worker, up>>

-----------------------------------------------------------------------------
(* GET and DELETE /analysis-runs/:runId, DELETE /investigations/:id *)

\* GetRun finds the row but not the run: the process that knew it is gone.
PollMisses(q, r) ==
  /\ up /\ request[q] = Idle
  /\ run[r].status = "lost" /\ Stored(run[r].inv)
  /\ request' = [request EXCEPT ![q] =
                   [op |-> "recover", inv |-> run[r].inv, run |-> r, target |-> None]]
  /\ UNCHANGED <<row, dataset, run, active, worker, up>>

\* RunManager.RecoverLost, for a run the registry still does not know.
RecoverLost(q) ==
  /\ up /\ request[q].op = "recover"
  /\ row' \in RestoreOutcomes(request[q].inv, request[q].run)
  /\ request' = [request EXCEPT ![q] = Idle]
  /\ UNCHANGED <<dataset, run, active, worker, up>>

\* CancelRun has found the row and calls RunManager.Cancel.
ArriveCancel(q, r) ==
  /\ up /\ request[q] = Idle
  /\ run[r].status \notin {"unused", "lost"} /\ Stored(run[r].inv)
  /\ request' = [request EXCEPT ![q] =
                   [op |-> "cancel", inv |-> run[r].inv, run |-> r, target |-> None]]
  /\ UNCHANGED <<row, dataset, run, active, worker, up>>

\* Mutant: cancellation does not wait for a publication in progress.
CancelDuringPublication(q) ==
  LET r == request[q].run IN
  /\ up /\ request[q].op = "cancel"
  /\ IF Live(r)
     THEN End(r, "cancelled") /\ row' \in RestoreOutcomes(run[r].inv, r)
     ELSE UNCHANGED <<run, active, row>>
  /\ request' = [request EXCEPT ![q] = Idle]
  /\ UNCHANGED <<dataset, worker, up>>

\* Under the mutex, once no worker holds the claim of the run.
Cancel(q) ==
  LET r == request[q].run IN
  /\ up /\ request[q].op = "cancel"
  /\ ~run[r].claimed
  /\ IF Live(r)
     THEN End(r, "cancelled") /\ row' \in RestoreOutcomes(run[r].inv, r)
     ELSE UNCHANGED <<run, active, row>>
  /\ request' = [request EXCEPT ![q] = Idle]
  /\ UNCHANGED <<dataset, worker, up>>

ArriveDelete(q, i) ==
  /\ up /\ request[q] = Idle
  /\ request' = [request EXCEPT ![q] =
                   [op |-> "delete", inv |-> i, run |-> None, target |-> None]]
  /\ UNCHANGED <<row, dataset, run, active, worker, up>>

\* DeleteInvestigation may take the mutex: the claim it waits on is released.
DeleteProceeds(q) ==
  /\ up /\ request[q].op = "delete"
  /\ request[q].run # None => ~run[request[q].run].claimed

\* The Investigation has an active run that is publishing: wait for its claim.
AwaitPublication(q) ==
  LET r == active[request[q].inv] IN
  /\ DeleteProceeds(q) /\ r # None /\ run[r].claimed
  /\ request' = [request EXCEPT ![q].run = r]
  /\ UNCHANGED <<row, dataset, run, active, worker, up>>

\* The row goes, and the foreign keys take its Datasets with it.
RowDeleted(i) ==
  /\ row' = [row EXCEPT ![i] = IF @.status = "absent" THEN @
                                 ELSE [NoRow EXCEPT !.status = "deleted"]]
  /\ dataset' = [r \in Runs |-> IF run[r].inv = i THEN None ELSE dataset[r]]

\* Mutant: the row is deleted under the feet of its active run.
DeleteWithoutCancel(q) ==
  LET i == request[q].inv IN
  /\ DeleteProceeds(q)
  /\ active[i] # None => ~run[active[i]].claimed
  /\ RowDeleted(i)
  /\ request' = [request EXCEPT ![q] = Idle]
  /\ UNCHANGED <<run, active, worker, up>>

\* The active run, if there is one, is cancelled; then the row is deleted.
\* Either statement may fail, and the failure of the first ends the call.
Delete(q) ==
  LET i == request[q].inv
      r == active[i]
  IN
  /\ DeleteProceeds(q)
  /\ \/ r = None /\ UNCHANGED <<run, active>>
     \/ r # None /\ ~run[r].claimed /\ End(r, "cancelled")
  /\ \/ RowDeleted(i)
     \/ /\ "db_error" \in Faults
        /\ IF r = None THEN UNCHANGED row ELSE row' \in RestoreOutcomes(i, r)
        /\ UNCHANGED dataset
  /\ request' = [request EXCEPT ![q] = Idle]
  /\ UNCHANGED <<worker, up>>

-----------------------------------------------------------------------------
(* The worker of a run *)

At(r, phase) == up /\ worker[r] = phase
GoTo(r, phase) == worker' = [worker EXCEPT ![r] = phase]

\* Mutant: fail does not look at the status of the run.
FailUnguarded(r) == End(r, "failed") /\ row' \in RestoreOutcomes(run[r].inv, r)

\* fail: a run that is still live becomes failed and its row is released.
Fail(r) ==
  IF Live(r)
  THEN End(r, "failed") /\ row' \in RestoreOutcomes(run[r].inv, r)
  ELSE UNCHANGED <<run, active, row>>

\* Mutant: the phase is written where the status belongs.
BeginWithPhaseAsStatus(r) ==
  /\ At(r, "launched") /\ GoTo(r, "capturing_cutoff")
  /\ run' = [run EXCEPT ![r].status = "capturing_cutoff"]
  /\ UNCHANGED <<row, dataset, active, request, up>>

\* execute: a run cancelled while queued is left alone.
Begin(r) ==
  /\ At(r, "launched")
  /\ IF ContextDone(r)
     THEN GoTo(r, "done") /\ UNCHANGED run
     ELSE GoTo(r, "capturing_cutoff") /\ run' = [run EXCEPT ![r].status = "running"]
  /\ UNCHANGED <<row, dataset, active, request, up>>

\* The cutoff is captured, the collection or the evaluation has returned, or the
\* learned score has been attempted (which never fails the run).  The provider
\* answers only within the context of the run.  The evaluation looks at it once,
\* at its entry, and not at all when nothing was collected: a deadline refuses it
\* (StepFails) or comes too late for it.
Advance(r) ==
  /\ \/ At(r, "capturing_cutoff") /\ ~ContextDone(r) /\ GoTo(r, "collecting")
     \/ At(r, "collecting") /\ ~ContextDone(r) /\ GoTo(r, "evaluating")
     \/ At(r, "evaluating") /\ GoTo(r, "scoring")
     \/ At(r, "scoring") /\ GoTo(r, "publishing")
  /\ UNCHANGED <<row, dataset, run, active, request, up>>

\* Mutant: the worker returns without recording the failure.
StepFailsSilently(r) ==
  /\ \E phase \in {"capturing_cutoff", "collecting", "evaluating"} : At(r, phase)
  /\ GoTo(r, "done")
  /\ UNCHANGED <<row, dataset, run, active, request, up>>

\* The cutoff, the collection or the evaluation has returned an error.
StepFails(r) ==
  /\ \E phase \in {"capturing_cutoff", "collecting", "evaluating"} : At(r, phase)
  /\ GoTo(r, "done") /\ Fail(r)
  /\ UNCHANGED <<dataset, request, up>>

\* (*RunManager).publish, first block under the mutex: claim the terminal transition.
ClaimPublication(r) ==
  /\ At(r, "publishing")
  /\ IF run[r].claimed \/ ContextDone(r)
     THEN GoTo(r, "done") /\ UNCHANGED run
     ELSE GoTo(r, "committing") /\ run' = [run EXCEPT ![r].claimed = TRUE]
  /\ UNCHANGED <<row, dataset, active, request, up>>

\* publish: the Dataset and the row change in one transaction, which only
\* commits while the row still names this run.
Publishable(r) ==
  LET i == run[r].inv IN row[i].status = "analyzing" /\ row[i].active = r

Commit(r) ==
  /\ At(r, "committing") /\ Publishable(r)
  /\ row' = [row EXCEPT ![run[r].inv] =
               [@ EXCEPT !.status = "completed", !.active = None, !.locked = TRUE, !.current = r]]
  /\ dataset' = [dataset EXCEPT ![r] = run[r].target]
  /\ \/ GoTo(r, "committed")
     \/ "commit_lost" \in Faults /\ GoTo(r, "rolled_back")
  /\ UNCHANGED <<run, active, request, up>>

\* Mutant: the Dataset and the row are not written in one transaction.
RollBackKeepingDataset(r) ==
  /\ At(r, "committing")
  /\ GoTo(r, "rolled_back")
  /\ dataset' = [dataset EXCEPT ![r] = run[r].target]
  /\ UNCHANGED <<row, run, active, request, up>>

\* publish returns an error: the evidence or the evaluation is refused before the
\* transaction, a statement of it fails, or the row no longer names this run.
RollBack(r) ==
  /\ At(r, "committing")
  /\ GoTo(r, "rolled_back")
  /\ UNCHANGED <<row, dataset, run, active, request, up>>

\* Mutant: the claim is never released.
RecordPublicationKeepingClaim(r) ==
  LET status == IF worker[r] = "committed" THEN "completed" ELSE "failed" IN
  /\ At(r, "committed") \/ At(r, "rolled_back")
  /\ run' = [run EXCEPT ![r].status = status]
  /\ active' = [active EXCEPT ![run[r].inv] = None]
  /\ IF status = "failed"
     THEN row' \in RestoreOutcomes(run[r].inv, r)
     ELSE UNCHANGED row
  /\ GoTo(r, "done")
  /\ UNCHANGED <<dataset, request, up>>

\* (*RunManager).publish, last block under the mutex: record the terminal status
\* and release the claim.
RecordPublication(r) ==
  LET status == IF worker[r] = "committed" THEN "completed" ELSE "failed" IN
  /\ At(r, "committed") \/ At(r, "rolled_back")
  /\ run' = [run EXCEPT ![r].status = status, ![r].claimed = FALSE]
  /\ active' = [active EXCEPT ![run[r].inv] = None]
  /\ IF status = "failed"
     THEN row' \in RestoreOutcomes(run[r].inv, r)
     ELSE UNCHANGED row
  /\ GoTo(r, "done")
  /\ UNCHANGED <<dataset, request, up>>

\* Mutant: the panic is recovered but the run is not failed.
PanicSwallowed(r) ==
  /\ "panic" \in Faults
  /\ \E phase \in {"capturing_cutoff", "collecting", "evaluating", "scoring"} : At(r, phase)
  /\ GoTo(r, "done")
  /\ UNCHANGED <<row, dataset, run, active, request, up>>

\* The deferred recover of the worker: fail the run and end the goroutine.  A
\* panic during the publication rolls the transaction back.
Panic(r) ==
  /\ \/ /\ "panic" \in Faults
        /\ \E phase \in {"capturing_cutoff", "collecting", "evaluating", "scoring"} : At(r, phase)
     \/ "publish_panic" \in Faults /\ At(r, "committing")
  /\ GoTo(r, "done") /\ Fail(r)
  /\ UNCHANGED <<dataset, request, up>>

\* context.WithTimeout(analysisRunTimeout) fires, long after the goroutine began.
Deadline(r) ==
  /\ "deadline" \in Faults /\ up
  /\ run[r].status = "running" /\ ~run[r].expired
  /\ run' = [run EXCEPT ![r].expired = TRUE]
  /\ UNCHANGED <<row, dataset, active, worker, request, up>>

-----------------------------------------------------------------------------
(* The process *)

Crash ==
  /\ "crash" \in Faults /\ up
  /\ up' = FALSE
  /\ run' = [r \in Runs |-> IF run[r].status = "unused" THEN UnusedRun
                            ELSE [UnusedRun EXCEPT !.inv = run[r].inv, !.status = "lost"]]
  /\ active' = [i \in Investigations |-> None]
  /\ worker' = [r \in Runs |-> "none"]
  /\ request' = [q \in Requests |-> Idle]
  /\ UNCHANGED <<row, dataset>>

\* reconcileLostAnalysisRuns, over every row the last process left analyzing.
Reconciled ==
  [i \in Investigations |->
    IF row[i].status = "analyzing" THEN Released(row[i]) ELSE row[i]]

\* Mutant: the rows the last process left analyzing are not reconciled.
RestartOnly == ~up /\ up' = TRUE /\ UNCHANGED <<row, dataset, run, active, worker, request>>

\* InitDb; a failed reconciliation is only logged.
Restart ==
  /\ ~up /\ up' = TRUE
  /\ row' \in {Reconciled} \cup {t \in {row} : "db_error" \in Faults}
  /\ UNCHANGED <<dataset, run, active, worker, request>>

-----------------------------------------------------------------------------
WorkerStep(r) ==
  \/ Begin(r) \/ Advance(r) \/ StepFails(r) \/ ClaimPublication(r)
  \/ Commit(r) \/ RollBack(r) \/ RecordPublication(r) \/ Panic(r)

HandlerStep(q) ==
  \/ (\E r \in Runs : Start(q, r)) \/ StartRefused(q)
  \/ RecoverLost(q) \/ Cancel(q) \/ AwaitPublication(q) \/ Delete(q)

Arrival(q) ==
  \/ \E i \in Investigations : ReadForStart(q, i) \/ ArriveDelete(q, i)
  \/ \E r \in Runs : ArriveCancel(q, r) \/ PollMisses(q, r)

Next ==
  \/ \E i \in Investigations, a \in Addresses \cup {None} :
       CreateInvestigation(i, a) \/ UpdateTarget(i, a)
  \/ \E q \in Requests : Arrival(q) \/ HandlerStep(q)
  \/ \E r \in Runs : WorkerStep(r) \/ Deadline(r)
  \/ Crash \/ Restart

Spec == Init /\ [][Next]_vars

\* The Go scheduler runs every goroutine that can run: workers and handlers
\* that have begun are fair; Owners, failures and restarts are not.
Fairness ==
  /\ \A r \in Runs : WF_vars(WorkerStep(r))
  /\ \A q \in Requests : WF_vars(HandlerStep(q))

FairSpec == Spec /\ Fairness
-----------------------------------------------------------------------------
(* Correctness *)

Row ==
  [status  : {"absent", "pending", "analyzing", "completed", "deleted"},
   address : Addresses \cup {None}, locked : BOOLEAN,
   active  : Runs \cup {None}, current : Runs \cup {None}]

RunStatus == {"unused", "queued", "running", "completed", "failed", "cancelled", "lost"}

ManagedRun ==
  [inv : Investigations \cup {None}, status : RunStatus,
   target : Addresses \cup {None}, claimed : BOOLEAN, expired : BOOLEAN]

Phase ==
  {"none", "launched", "capturing_cutoff", "collecting", "evaluating", "scoring",
   "publishing", "committing", "committed", "rolled_back", "done"}

Request ==
  [op : {"idle", "start", "recover", "cancel", "delete"}, inv : Investigations \cup {None},
   run : Runs \cup {None}, target : Addresses \cup {None}]

\* The values every variable may take.
TypeOK ==
  /\ row \in [Investigations -> Row]
  /\ dataset \in [Runs -> Addresses \cup {None}]
  /\ run \in [Runs -> ManagedRun]
  /\ active \in [Investigations -> Runs \cup {None}]
  /\ worker \in [Runs -> Phase]
  /\ request \in [Requests -> Request]
  /\ up \in BOOLEAN

\* "An Investigation may have only one queued or running Analysis Run at a time"
\* (CONTEXT.md, Analysis Run): whatever fails, and whichever requests race.
OneLiveRun ==
  \A r, s \in Runs : Live(r) /\ Live(s) /\ run[r].inv = run[s].inv => r = s

\* Publication and cancellation have one winner: a run reported cancelled never
\* has a Dataset, and the row of a run that completed shows one.
OneTerminalWinner ==
  \A r \in Runs :
    /\ run[r].status = "cancelled" => dataset[r] = None
    /\ run[r].status = "completed" /\ Stored(run[r].inv) =>
         /\ dataset[r] # None
         /\ row[run[r].inv].locked /\ row[run[r].inv].current # None

\* What a row says of itself: only an analyzing row names a run, a result locks
\* the target, and the current result is a Dataset of this Investigation.
RowConsistent ==
  \A i \in Investigations :
    /\ row[i].status = "analyzing" <=> row[i].active # None
    /\ row[i].status = "completed" => row[i].current # None
    /\ row[i].status = "pending" => row[i].current = None
    /\ row[i].locked <=> row[i].current # None
    /\ row[i].current # None =>
         run[row[i].current].inv = i /\ dataset[row[i].current] # None

\* A deleted Investigation leaves no Dataset behind and no run that could still
\* publish one, although its worker may not have noticed yet.
NoOrphanDataset ==
  \A r \in Runs :
    run[r].inv # None /\ row[run[r].inv].status = "deleted" =>
      dataset[r] = None /\ ~Live(r)

\* A run that failed published nothing: whatever refuses a publication, before the
\* transaction or inside it, leaves none of its rows, and no failure is recorded for
\* a run whose Dataset was committed, unless the answer to the COMMIT was lost.
FailedPublishesNothing ==
  \A r \in Runs : run[r].status = "failed" => dataset[r] = None

\* While the process is up an analyzing row names a run this process is working
\* on, so that somebody is left to move it on: it cannot be stuck.
AnalyzingRowHasLiveRun ==
  \A i \in Investigations :
    up /\ row[i].status = "analyzing" =>
      /\ active[i] = row[i].active
      /\ Live(active[i]) /\ run[active[i]].inv = i

\* A worker that has returned leaves its run with a terminal status.
NoAbandonedRun ==
  \A r \in Runs : worker[r] = "done" => ~Live(r)

\* The claim of a run is held only while its worker publishes, so whoever waits
\* for it waits for a worker that will release it.
ClaimHasWorker ==
  \A r \in Runs :
    run[r].claimed => Live(r) /\ worker[r] \in {"committing", "committed", "rolled_back"}

\* "... so graph evidence, assessments, and agent conversations cannot silently mix
\* targets" (docs/adr/0004): the current Dataset describes the target of its row.
DatasetMatchesTarget ==
  \A i \in Investigations :
    row[i].current # None => dataset[row[i].current] = row[i].address

\* "A failed, cancelled, or lost run restores [the stable status]" (spec.md): no row
\* still names a run that the manager reports failed or cancelled.
EndedRunReleasesRow ==
  \A r \in Runs : run[r].status \in {"failed", "cancelled"} => row[run[r].inv].active # r

\* A terminal status is final as long as the process knows the run, and the
\* identifier of a run is never used again.
TerminalIsFinal ==
  [][\A r \in Runs :
       /\ run[r].status \in {"completed", "failed", "cancelled"} =>
            run'[r].status \in {run[r].status, "lost"}
       /\ run[r].status = "lost" => run'[r].status = "lost"]_run

\* Once a result is published the target never changes again, and the result is
\* only ever replaced by that of a later run: it is never lost.
TargetImmutable ==
  [][\A i \in Investigations : row[i].locked =>
       \/ row'[i].status = "deleted"
       \/ row'[i].locked /\ row'[i].address = row[i].address /\ row'[i].current # None]_row

\* Every run ends, however its worker, its Owner and the process interleave.
EveryRunEnds == \A r \in Runs : Live(r) ~> ~Live(r)

\* A call that waits for a publication returns, unless the process dies.
EveryCallReturns ==
  \A q \in Requests : (request[q].op # "idle") ~> (request[q].op = "idle")
-----------------------------------------------------------------------------
(* The inductive invariant behind the safety properties *)

\* What a handler holds when it resumes.
RequestsWellFormed ==
  \A q \in Requests :
    /\ request[q].op \in {"start", "recover", "cancel", "delete"} =>
         request[q].inv \in Investigations
    /\ request[q].op = "start" => request[q].target \in Addresses
    /\ request[q].op \in {"recover", "cancel"} => request[q].run \in Runs

\* A run has an Investigation from its start on, and a target while it lives.
RunsWellFormed ==
  \A r \in Runs :
    /\ run[r].status = "unused" <=> run[r].inv = None
    /\ Live(r) => run[r].target \in Addresses

\* A run is of an Investigation that was created.
SubjectExists ==
  \A r \in Runs : run[r].inv # None => row[run[r].inv].status # "absent"

\* The registry of active runs and the runs that are live are the same runs.
ActiveAgrees ==
  /\ \A i \in Investigations :
       active[i] # None => Live(active[i]) /\ run[active[i]].inv = i
  /\ \A r \in Runs : Live(r) => active[run[r].inv] = r

\* A worker that publishes holds the claim of a live run.
PublisherHoldsClaim ==
  \A r \in Runs :
    worker[r] \in {"committing", "committed", "rolled_back"} => run[r].claimed /\ Live(r)

\* The Dataset of a live run is one its worker has committed and not yet reported.
DatasetAgrees ==
  \A r \in Runs :
    /\ run[r].status = "unused" => dataset[r] = None
    /\ Live(r) /\ dataset[r] # None => worker[r] \in {"committed", "rolled_back"}
    /\ worker[r] = "committed" =>
         /\ dataset[r] # None /\ Stored(run[r].inv)
         /\ row[run[r].inv].locked /\ row[run[r].inv].current # None

IInv ==
  /\ TypeOK /\ RequestsWellFormed /\ RunsWellFormed /\ SubjectExists /\ ActiveAgrees
  /\ PublisherHoldsClaim /\ DatasetAgrees
  /\ OneTerminalWinner /\ RowConsistent /\ NoOrphanDataset

-----------------------------------------------------------------------------
(* The abstract specification this one implements *)

\* What has become of a run, as the database shows it.
Outcome(r) ==
  LET i == run[r].inv IN
  IF i = None THEN "unknown"
  ELSE IF row[i].status = "deleted" THEN "gone"
  ELSE IF dataset[r] # None THEN "published"
  ELSE IF row[i].active = r THEN "open" ELSE "withdrawn"

Promise == INSTANCE InvestigationPromise WITH
  status  <- [i \in Investigations |-> row[i].status],
  result  <- [i \in Investigations |-> row[i].current],
  subject <- [r \in Runs |-> run[r].inv],
  outcome <- [r \in Runs |-> Outcome(r)]

\* Each run resolves once: it publishes together with its row, or its row is
\* released and the run never publishes, through every failure and restart.
ImplementsPromise == Promise!Spec
=============================================================================
