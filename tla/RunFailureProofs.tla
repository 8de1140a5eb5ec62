-------------------------- MODULE RunFailureProofs --------------------------
(***************************************************************************)
(* What a run promises as long as one kind of failure does not happen.     *)
(* Four properties of RunLifecycle do not survive every failure of         *)
(* FaultKinds: each is proved here from the absence of the one failure     *)
(* that breaks it, whichever of the others happen.                         *)
(***************************************************************************)
EXTENDS RunLifecycleProofs

-----------------------------------------------------------------------------
(* What a step does to one run and its worker *)

\* s keeps everything that is not said to change.
Keeps(s) == run'[s].claimed = run[s].claimed /\ run'[s].expired = run[s].expired

Working == {"capturing_cutoff", "collecting", "evaluating", "scoring"}

IsStarted(s) ==
  run[s].status = "unused" /\ run'[s].status = "queued" /\ worker'[s] = "launched" /\ Keeps(s)

IsCancelled(s) ==
  /\ Live(s) /\ ~run[s].claimed
  /\ run'[s].status = "cancelled" /\ worker'[s] = worker[s] /\ Keeps(s)

Begins(s) ==
  /\ worker[s] = "launched" /\ Keeps(s)
  /\ \/ ContextDone(s) /\ run'[s].status = run[s].status /\ worker'[s] = "done"
     \/ ~ContextDone(s) /\ run'[s].status = "running" /\ worker'[s] = "capturing_cutoff"

Advances(s) ==
  run'[s] = run[s] /\ worker[s] \in Working /\ worker'[s] \in Working \cup {"publishing"}

Fails(s) ==
  /\ worker[s] \in Working \/ (worker[s] = "committing" /\ "publish_panic" \in Faults)
  /\ worker'[s] = "done" /\ Keeps(s)
  /\ \/ ~Live(s) /\ run'[s].status = run[s].status
     \/ Live(s) /\ run'[s].status = "failed"

Claims(s) ==
  /\ worker[s] = "publishing"
  /\ \/ (run[s].claimed \/ ContextDone(s)) /\ run'[s] = run[s] /\ worker'[s] = "done"
     \/ /\ ~run[s].claimed /\ ~ContextDone(s) /\ worker'[s] = "committing"
        /\ run'[s].status = run[s].status /\ run'[s].claimed /\ run'[s].expired = run[s].expired

Transacts(s) ==
  run'[s] = run[s] /\ worker[s] = "committing" /\ worker'[s] \in {"committed", "rolled_back"}

Reports(s) ==
  /\ worker[s] \in {"committed", "rolled_back"} /\ worker'[s] = "done"
  /\ run'[s].status = (IF worker[s] = "committed" THEN "completed" ELSE "failed")
  /\ ~run'[s].claimed /\ run'[s].expired = run[s].expired

Expires(s) ==
  /\ "deadline" \in Faults /\ worker'[s] = worker[s]
  /\ run'[s].status = run[s].status /\ run'[s].claimed = run[s].claimed

Dies(s) ==
  /\ worker'[s] = "none" /\ ~run'[s].claimed /\ ~run'[s].expired
  /\ run'[s].status = IF run[s].status = "unused" THEN "unused" ELSE "lost"

RunStep(s) ==
  \/ run'[s] = run[s] /\ worker'[s] = worker[s]
  \/ IsStarted(s) \/ IsCancelled(s) \/ Begins(s) \/ Advances(s) \/ Fails(s) \/ Claims(s)
  \/ Transacts(s) \/ Reports(s) \/ Expires(s) \/ Dies(s)

\* A terminal transition, and what it leaves alone.
LEMMA EndOfRun ==
  ASSUME IInv, NEW r \in Runs, NEW status, End(r, status)
  PROVE  /\ run'[r].status = status /\ Keeps(r)
         /\ \A s \in Runs : s # r => run'[s] = run[s]
BY DEF End, Keeps, IInv, TypeOK, ManagedRun

\* What becomes of the runs when the worker of r moves.
LEMMA WorkerOfOther ==
  ASSUME IInv, NEW r \in Runs, WorkerStep(r), NEW s \in Runs, s # r
  PROVE  run'[s] = run[s] /\ worker'[s] = worker[s]
<1>1. CASE StepFails(r) \/ Panic(r)
  <2>1. Fail(r) /\ GoTo(r, "done")
    BY <1>1 DEF StepFails, Panic
  <2> QED
    BY <2>1, EndOfRun DEF Fail, GoTo, IInv, TypeOK
<1>2. CASE RecordPublication(r)
  BY <1>2 DEF RecordPublication, GoTo, IInv, TypeOK
<1>3. CASE Begin(r) \/ Advance(r) \/ ClaimPublication(r) \/ Commit(r) \/ RollBack(r)
  BY <1>3 DEF Begin, Advance, ClaimPublication, Commit, RollBack, GoTo, IInv, TypeOK
<1> QED
  BY <1>1, <1>2, <1>3 DEF WorkerStep

LEMMA WorkerMoves ==
  ASSUME IInv, NEW r \in Runs, WorkerStep(r)
  PROVE  RunStep(r)
<1> USE DEF IInv, TypeOK
<1>1. CASE Begin(r)
  <2>1. CASE ContextDone(r)
    BY <1>1, <2>1 DEF Begin, At, GoTo, RunStep, Begins, Keeps
  <2>2. CASE ~ContextDone(r)
    <3>1. run'[r].status = "running" /\ Keeps(r) /\ worker'[r] = "capturing_cutoff" /\ worker[r] = "launched"
      BY <1>1, <2>2 DEF Begin, At, GoTo, ManagedRun, Keeps
    <3> QED
      BY <2>2, <3>1 DEF RunStep, Begins
  <2> QED
    BY <2>1, <2>2
<1>2. CASE Advance(r)
  BY <1>2 DEF Advance, At, GoTo, RunStep, Advances, Working
<1>3. CASE StepFails(r) \/ Panic(r)
  <2>1. /\ Fail(r) /\ worker'[r] = "done"
        /\ worker[r] \in Working \/ (worker[r] = "committing" /\ "publish_panic" \in Faults)
    BY <1>3 DEF StepFails, Panic, At, GoTo, Working
  <2>2. CASE Live(r)
    BY <2>1, <2>2, EndOfRun DEF Fail, RunStep, Fails
  <2>3. CASE ~Live(r)
    BY <2>1, <2>3 DEF Fail, RunStep, Fails, Keeps
  <2> QED
    BY <2>2, <2>3
<1>4. CASE ClaimPublication(r)
  <2>1. CASE run[r].claimed \/ ContextDone(r)
    BY <1>4, <2>1 DEF ClaimPublication, At, GoTo, RunStep, Claims
  <2>2. CASE ~run[r].claimed /\ ~ContextDone(r)
    <3>1. /\ run'[r].status = run[r].status /\ run'[r].claimed /\ run'[r].expired = run[r].expired
          /\ worker'[r] = "committing" /\ worker[r] = "publishing"
      BY <1>4, <2>2 DEF ClaimPublication, At, GoTo, ManagedRun
    <3> QED
      BY <2>2, <3>1 DEF RunStep, Claims
  <2> QED
    BY <2>1, <2>2
<1>5. CASE Commit(r) \/ RollBack(r)
  BY <1>5 DEF Commit, RollBack, At, GoTo, RunStep, Transacts
<1>6. CASE RecordPublication(r)
  <2>1. /\ run'[r].status = (IF worker[r] = "committed" THEN "completed" ELSE "failed")
        /\ ~run'[r].claimed /\ run'[r].expired = run[r].expired
    BY <1>6 DEF RecordPublication, ManagedRun
  <2>2. worker'[r] = "done" /\ worker[r] \in {"committed", "rolled_back"}
    BY <1>6 DEF RecordPublication, At, GoTo
  <2> QED
    BY <2>1, <2>2 DEF RunStep, Reports
<1> QED
  BY <1>1, <1>2, <1>3, <1>4, <1>5, <1>6 DEF WorkerStep

LEMMA EveryRunSteps ==
  ASSUME IInv, [Next]_vars, NEW s \in Runs
  PROVE  RunStep(s)
<1>1. ASSUME run' = run, worker' = worker PROVE RunStep(s)
  BY <1>1 DEF RunStep
<1>2. ASSUME NEW q \in Requests, NEW r \in Runs, Start(q, r) PROVE RunStep(s)
  <2>1. CASE s = r
    <3>1. /\ run[s].status = "unused" /\ run'[s].status = "queued" /\ worker'[s] = "launched"
          /\ Keeps(s)
      BY <1>2, <2>1 DEF Start, IInv, TypeOK, ManagedRun, Keeps
    <3> QED
      BY <3>1 DEF RunStep, IsStarted
  <2>2. CASE s # r
    BY <1>2, <2>2 DEF Start, IInv, TypeOK, RunStep
  <2> QED
    BY <2>1, <2>2
<1>3. ASSUME NEW r \in Runs, Live(r), ~run[r].claimed, End(r, "cancelled"), worker' = worker
      PROVE  RunStep(s)
  BY <1>3, EndOfRun DEF RunStep, IsCancelled
<1>4. ASSUME NEW q \in Requests, Cancel(q) PROVE RunStep(s)
  <2>1. request[q].run \in Runs
    BY <1>4 DEF Cancel, IInv, RequestsWellFormed
  <2> QED
    BY <1>1, <1>3, <1>4, <2>1 DEF Cancel
<1>5. ASSUME NEW q \in Requests, Delete(q) PROVE RunStep(s)
  <2>1. request[q].inv \in Investigations
    BY <1>5 DEF Delete, DeleteProceeds, IInv, RequestsWellFormed
  <2>2. PICK r \in Runs \cup {None} : r = active[request[q].inv]
    BY <2>1 DEF IInv, TypeOK
  <2>3. worker' = worker
    BY <1>5 DEF Delete
  <2>4. CASE r = None
    <3>1. run' = run
      BY <1>5, <2>2, <2>4 DEF Delete
    <3> QED
      BY <1>1, <2>3, <3>1
  <2>5. CASE r # None
    <3>1. ~run[r].claimed /\ End(r, "cancelled")
      BY <1>5, <2>2, <2>5 DEF Delete
    <3>2. r \in Runs /\ Live(r)
      BY <2>1, <2>2, <2>5 DEF IInv, TypeOK, ActiveAgrees
    <3> QED
      BY <1>3, <2>3, <3>1, <3>2
  <2> QED
    BY <2>4, <2>5
<1>6. ASSUME NEW r \in Runs, WorkerStep(r) PROVE RunStep(s)
  BY <1>6, WorkerMoves, WorkerOfOther DEF RunStep
<1>7. ASSUME NEW r \in Runs, Deadline(r) PROVE RunStep(s)
  <2>1. /\ "deadline" \in Faults /\ worker' = worker
        /\ run'[s].status = run[s].status /\ run'[s].claimed = run[s].claimed
    BY <1>7 DEF Deadline, IInv, TypeOK, ManagedRun
  <2> QED
    BY <2>1 DEF RunStep, Expires
<1>8. CASE Crash
  <2>1. worker'[s] = "none" /\ run'[s] = IF run[s].status = "unused" THEN UnusedRun
                                         ELSE [UnusedRun EXCEPT !.inv = run[s].inv, !.status = "lost"]
    BY <1>8 DEF Crash
  <2>2. Dies(s)
    BY <2>1 DEF Dies, UnusedRun
  <2> QED
    BY <2>2 DEF RunStep
<1> QED
  BY <1>1, <1>2, <1>4, <1>5, <1>6, <1>7, <1>8
  DEF Next, HandlerStep, Arrival, CreateInvestigation, UpdateTarget, ReadForStart, ArriveDelete,
      ArriveCancel, PollMisses, StartRefused, RecoverLost, AwaitPublication, Restart, vars

-----------------------------------------------------------------------------
(* Without a panic inside the publication *)

\* The claim of a run is held only while its worker publishes ((*RunManager).publish
\* releases it), so a cancellation or deletion that waits for it waits for a
\* worker.  A panic while the claim is held skips that release.
THEOREM ClaimIsReleased ==
  ASSUME "publish_panic" \notin Faults
  PROVE  Spec => []ClaimHasWorker
<1>1. Init => ClaimHasWorker
  BY DEF Init, ClaimHasWorker, UnusedRun
<1>2. IInv /\ ClaimHasWorker /\ [Next]_vars => ClaimHasWorker'
  <2> SUFFICES ASSUME IInv, ClaimHasWorker, [Next]_vars, NEW s \in Runs, run'[s].claimed
               PROVE  Live(s)' /\ worker'[s] \in {"committing", "committed", "rolled_back"}
    BY DEF ClaimHasWorker
  <2>1. run[s].claimed => Live(s) /\ worker[s] \in {"committing", "committed", "rolled_back"}
    BY DEF ClaimHasWorker
  <2>2. RunStep(s)
    BY EveryRunSteps
  <2>3. CASE \/ run'[s] = run[s] /\ worker'[s] = worker[s]
             \/ IsStarted(s) \/ IsCancelled(s) \/ Begins(s) \/ Advances(s)
    BY <2>1, <2>3 DEF IsStarted, IsCancelled, Begins, Advances, Keeps, Live, Working
  <2>4. CASE Fails(s) \/ Claims(s)
    BY <2>1, <2>4 DEF Fails, Claims, Keeps, Live, ContextDone, Working
  <2>5. CASE Transacts(s) \/ Reports(s) \/ Expires(s) \/ Dies(s)
    BY <2>1, <2>5 DEF Transacts, Reports, Expires, Dies, Live
  <2> QED
    BY <2>2, <2>3, <2>4, <2>5 DEF RunStep
<1> QED
  BY Invariance, <1>1, <1>2, PTL DEF Spec

-----------------------------------------------------------------------------
(* Without the expiry of a context *)

\* A worker that finds its context done has a run that was ended by somebody else.
UnexpiredRun(s) ==
  /\ ~run[s].expired
  /\ run[s].claimed =>
       run[s].status # "unused" /\ worker[s] \in {"committing", "committed", "rolled_back", "done"}
  /\ worker[s] = "done" => ~Live(s)

\* A worker that has returned leaves a terminal status behind (execute, fail and
\* publish).  A context that expires between two phases breaks it: the worker
\* returns and nobody ends the run.
THEOREM ReturnedWorkerEndedItsRun ==
  ASSUME "deadline" \notin Faults
  PROVE  Spec => []NoAbandonedRun
<1> DEFINE Unexpired == \A s \in Runs : UnexpiredRun(s)
<1>1. Init => Unexpired
  BY DEF Init, UnexpiredRun, UnusedRun
<1>2. IInv /\ Unexpired /\ [Next]_vars => Unexpired'
  <2> SUFFICES ASSUME IInv, Unexpired, [Next]_vars, NEW s \in Runs
               PROVE  UnexpiredRun(s)'
    OBVIOUS
  <2>1. UnexpiredRun(s)
    OBVIOUS
  <2>2. RunStep(s)
    BY EveryRunSteps
  <2>3. CASE \/ run'[s] = run[s] /\ worker'[s] = worker[s]
             \/ IsStarted(s) \/ IsCancelled(s) \/ Advances(s)
    BY <2>1, <2>3 DEF UnexpiredRun, IsStarted, IsCancelled, Advances, Keeps, Live, Working
  <2>4. CASE Begins(s) \/ Fails(s)
    BY <2>1, <2>4 DEF UnexpiredRun, Begins, Fails, Keeps, Live, ContextDone, Working
  <2>5. CASE Claims(s)
    BY <2>1, <2>5 DEF UnexpiredRun, Claims, Live, ContextDone
  <2>6. CASE Transacts(s) \/ Reports(s) \/ Expires(s) \/ Dies(s)
    BY <2>1, <2>6 DEF UnexpiredRun, Transacts, Reports, Expires, Dies, Live
  <2> QED
    BY <2>2, <2>3, <2>4, <2>5, <2>6 DEF RunStep
<1>3. Unexpired => NoAbandonedRun
  BY DEF UnexpiredRun, NoAbandonedRun
<1> QED
  BY Invariance, <1>1, <1>2, <1>3, PTL DEF Spec

-----------------------------------------------------------------------------
(* Without a lost answer to a commit *)

\* Only the commit of a run gives it a Dataset.
LEMMA DatasetWrites ==
  ASSUME IInv, [Next]_vars, NEW s \in Runs
  PROVE  dataset'[s] \in {dataset[s], None} \/ Commit(s)
<1>1. CASE dataset' = dataset
  BY <1>1
<1>2. ASSUME NEW q \in Requests, Delete(q) PROVE dataset'[s] \in {dataset[s], None}
  <2>1. dataset' = dataset \/ RowDeleted(request[q].inv)
    BY <1>2 DEF Delete
  <2> QED
    BY <2>1 DEF RowDeleted
<1>3. ASSUME NEW r \in Runs, Commit(r), r # s PROVE dataset'[s] = dataset[s]
  BY <1>3 DEF Commit, IInv, TypeOK
<1>4. ASSUME NEW r \in Runs, WorkerStep(r) PROVE dataset' = dataset \/ Commit(r)
  BY <1>4 DEF WorkerStep, Begin, Advance, StepFails, ClaimPublication, RollBack,
              RecordPublication, Panic
<1> QED
  BY <1>1, <1>2, <1>3, <1>4
  DEF Next, HandlerStep, Arrival, CreateInvestigation, UpdateTarget, ReadForStart, ArriveDelete,
      ArriveCancel, PollMisses, Start, StartRefused, RecoverLost, Cancel, AwaitPublication,
      Deadline, Crash, Restart, vars

\* A publication that is reported failed wrote nothing.
EmptyFailure(s) ==
  run[s].status = "failed" \/ worker[s] = "rolled_back" => dataset[s] = None

\* A run that failed has published nothing: the Dataset and the row change in one
\* transaction (publish).  A commit whose answer is lost breaks it.
THEOREM FailedRunPublishedNothing ==
  ASSUME "commit_lost" \notin Faults
  PROVE  Spec => []FailedPublishesNothing
<1> DEFINE Empty == \A s \in Runs : EmptyFailure(s)
<1>1. Init => Empty
  BY DEF Init, EmptyFailure
<1>2. IInv /\ Empty /\ [Next]_vars => Empty'
  <2> SUFFICES ASSUME IInv, Empty, [Next]_vars, NEW s \in Runs
               PROVE  EmptyFailure(s)'
    OBVIOUS
  <2>1. /\ EmptyFailure(s)
        /\ Live(s) /\ dataset[s] # None => worker[s] \in {"committed", "rolled_back"}
        /\ worker[s] = "committing" => Live(s)
    BY DEF IInv, DatasetAgrees, PublisherHoldsClaim
  <2>2. CASE Commit(s)
    <3>1. worker[s] = "committing" /\ worker'[s] = "committed" /\ run' = run
      BY <2>2 DEF Commit, At, GoTo, IInv, TypeOK
    <3> QED
      BY <2>1, <3>1 DEF EmptyFailure, Live
  <2>3. CASE dataset'[s] = None
    BY <2>3 DEF EmptyFailure
  <2>4. CASE dataset'[s] = dataset[s]
    <3>1. RunStep(s)
      BY EveryRunSteps
    <3>2. CASE \/ run'[s] = run[s] /\ worker'[s] = worker[s]
               \/ IsStarted(s) \/ IsCancelled(s) \/ Begins(s) \/ Advances(s)
      BY <2>1, <2>4, <3>2
      DEF EmptyFailure, IsStarted, IsCancelled, Begins, Advances, Keeps, Working
    <3>3. CASE Fails(s)
      BY <2>1, <2>4, <3>3 DEF EmptyFailure, Fails, Keeps, Working
    <3>4. CASE Claims(s) \/ Transacts(s)
      BY <2>1, <2>4, <3>4 DEF EmptyFailure, Claims, Transacts
    <3>5. CASE Reports(s) \/ Expires(s) \/ Dies(s)
      BY <2>1, <2>4, <3>5 DEF EmptyFailure, Reports, Expires, Dies
    <3> QED
      BY <3>1, <3>2, <3>3, <3>4, <3>5 DEF RunStep
  <2> QED
    BY <2>2, <2>3, <2>4, DatasetWrites
<1>3. Empty => FailedPublishesNothing
  BY DEF EmptyFailure, FailedPublishesNothing
<1> QED
  BY Invariance, <1>1, <1>2, <1>3, PTL DEF Spec

-----------------------------------------------------------------------------
(* Without a failed statement *)

\* What a step leaves of the row of i when the row is analyzing afterwards.
Kept(i) == row'[i] = row[i] /\ active'[i] = active[i] /\ up' = up

StartsRun(i) == active[i] = None /\ active'[i] = row'[i].active

\* The registry drops a run that the row does not name any more.
DropsRun(i) ==
  \E r \in Runs :
    /\ run[r].inv = i /\ Live(r) /\ row'[i] = row[i] /\ up' = up
    /\ worker[r] = "committed" \/ row[i].active # r

RowStep(i) ==
  \/ row'[i].status # "analyzing"
  \/ Kept(i) \/ StartsRun(i) \/ DropsRun(i)
  \/ row'[i] = row[i] /\ ~up' /\ up

\* restoreStableStatus, when its statement does not fail.
LEMMA RestoreReleases ==
  ASSUME IInv, NEW i \in Investigations, NEW r \in Runs, NEW j \in Investigations,
         "db_error" \notin Faults, row' \in RestoreOutcomes(i, r)
  PROVE  /\ row'[j] = row[j] \/ row'[j].status # "analyzing"
         /\ row'[i].status # "analyzing" \/ (row'[i] = row[i] /\ row[i].active # r)
<1>1. row' = Restored(i, r)
  BY DEF RestoreOutcomes
<1>2. row[i] \in Row /\ row[j] \in Row
  BY DEF IInv, TypeOK
<1>3. Released(row[i]).status # "analyzing"
  BY <1>2, ReleasedFields
<1> QED
  BY <1>1, <1>3 DEF Restored, IInv, TypeOK

\* A run that ends and whose row is released.
LEMMA EndedRowStep ==
  ASSUME IInv, NEW i \in Investigations, NEW r \in Runs, "db_error" \notin Faults,
         Live(r), active' = [active EXCEPT ![run[r].inv] = None],
         row' \in RestoreOutcomes(run[r].inv, r), up' = up
  PROVE  RowStep(i)
<1>1. run[r].inv \in Investigations
  BY LiveRunHasSubject DEF IInv, WellFormed
<1>2. /\ row'[i] = row[i] \/ row'[i].status # "analyzing"
      /\ \/ row'[run[r].inv].status # "analyzing"
         \/ row'[run[r].inv] = row[run[r].inv] /\ row[run[r].inv].active # r
  BY <1>1, RestoreReleases
<1>3. CASE i = run[r].inv
  BY <1>2, <1>3 DEF RowStep, DropsRun
<1>4. CASE i # run[r].inv
  <2>1. active'[i] = active[i]
    BY <1>4 DEF IInv, TypeOK
  <2> QED
    BY <1>2, <2>1 DEF RowStep, Kept
<1> QED
  BY <1>3, <1>4

LEMMA WorkerRowStep ==
  ASSUME IInv, NEW i \in Investigations, NEW r \in Runs, "db_error" \notin Faults, WorkerStep(r)
  PROVE  RowStep(i)
<1>1. CASE UNCHANGED <<row, active, up>>
  BY <1>1 DEF RowStep, Kept
<1>2. CASE Commit(r)
  <2>1. /\ row'[i] = row[i] \/ row'[i].status = "completed"
        /\ active' = active /\ up' = up
    BY <1>2 DEF Commit, IInv, TypeOK, Row
  <2> QED
    BY <2>1 DEF RowStep, Kept
<1>3. CASE StepFails(r) \/ Panic(r)
  <2>1. Fail(r) /\ up' = up
    BY <1>3 DEF StepFails, Panic
  <2>2. CASE Live(r)
    BY <2>1, <2>2, EndedRowStep DEF Fail, End
  <2>3. CASE ~Live(r)
    BY <2>1, <2>3 DEF Fail, RowStep, Kept
  <2> QED
    BY <2>2, <2>3
<1>4. CASE RecordPublication(r)
  <2>1. /\ Live(r) /\ up' = up /\ active' = [active EXCEPT ![run[r].inv] = None]
        /\ IF worker[r] = "committed" THEN row' = row
           ELSE row' \in RestoreOutcomes(run[r].inv, r)
    BY <1>4 DEF RecordPublication, At, IInv, PublisherHoldsClaim
  <2>2. CASE worker[r] = "committed" /\ i = run[r].inv
    BY <2>1, <2>2 DEF RowStep, DropsRun
  <2>3. CASE worker[r] = "committed" /\ i # run[r].inv
    <3>1. row'[i] = row[i] /\ active'[i] = active[i]
      BY <2>1, <2>3 DEF IInv, TypeOK
    <3> QED
      BY <2>1, <3>1 DEF RowStep, Kept
  <2>4. CASE worker[r] # "committed"
    BY <2>1, <2>4, EndedRowStep
  <2> QED
    BY <2>2, <2>3, <2>4
<1> QED
  BY <1>1, <1>2, <1>3, <1>4 DEF WorkerStep, Begin, Advance, ClaimPublication, RollBack

LEMMA EveryRowSteps ==
  ASSUME IInv, [Next]_vars, NEW i \in Investigations, "db_error" \notin Faults
  PROVE  RowStep(i)
<1>1. CASE UNCHANGED <<row, active, up>>
  BY <1>1 DEF RowStep, Kept
<1>2. ASSUME NEW j \in Investigations, NEW a \in Addresses \cup {None},
             CreateInvestigation(j, a) \/ UpdateTarget(j, a)
      PROVE  RowStep(i)
  <2>1. /\ row'[i] = row[i] \/ row'[i].status = "pending"
        /\ active' = active /\ up' = up
    BY <1>2 DEF CreateInvestigation, UpdateTarget, IInv, TypeOK, Row
  <2> QED
    BY <2>1 DEF RowStep, Kept
<1>3. ASSUME NEW q \in Requests, NEW r \in Runs, Start(q, r) PROVE RowStep(i)
  <2>1. PICK j \in Investigations : j = request[q].inv
    BY <1>3 DEF Start, IInv, RequestsWellFormed
  <2>2. /\ active[j] = None /\ up' = up /\ row[j] \in Row
        /\ row' = [row EXCEPT ![j] = [row[j] EXCEPT !.status = "analyzing", !.active = r]]
        /\ active' = [active EXCEPT ![j] = r]
    BY <1>3, <2>1 DEF Start, IInv, TypeOK
  <2>3. CASE i = j
    <3>1. active'[i] = r /\ row'[i].active = r
      BY <2>2, <2>3 DEF IInv, TypeOK, Row
    <3> QED
      BY <2>2, <2>3, <3>1 DEF RowStep, StartsRun
  <2>4. CASE i # j
    <3>1. active'[i] = active[i] /\ row'[i] = row[i]
      BY <2>2, <2>4 DEF IInv, TypeOK
    <3> QED
      BY <2>2, <3>1 DEF RowStep, Kept
  <2> QED
    BY <2>3, <2>4
<1>4. ASSUME NEW q \in Requests, RecoverLost(q) PROVE RowStep(i)
  <2>1. request[q].inv \in Investigations /\ request[q].run \in Runs
    BY <1>4 DEF RecoverLost, IInv, RequestsWellFormed
  <2>2. row'[i] = row[i] \/ row'[i].status # "analyzing"
    BY <1>4, <2>1, RestoreReleases DEF RecoverLost
  <2> QED
    BY <1>4, <2>2 DEF RecoverLost, RowStep, Kept
<1>5. ASSUME NEW q \in Requests, Cancel(q) PROVE RowStep(i)
  <2>1. request[q].run \in Runs
    BY <1>5 DEF Cancel, IInv, RequestsWellFormed
  <2>2. CASE Live(request[q].run)
    BY <1>5, <2>1, <2>2, EndedRowStep DEF Cancel, End
  <2>3. CASE ~Live(request[q].run)
    BY <1>1, <1>5, <2>3 DEF Cancel
  <2> QED
    BY <2>2, <2>3
<1>6. ASSUME NEW q \in Requests, Delete(q) PROVE RowStep(i)
  <2>1. PICK j \in Investigations : j = request[q].inv
    BY <1>6 DEF Delete, DeleteProceeds, IInv, RequestsWellFormed
  <2>2. RowDeleted(j) /\ up' = up
    BY <1>6, <2>1 DEF Delete
  <2>3. CASE i = j
    BY <2>2, <2>3 DEF RowDeleted, RowStep, NoRow, IInv, TypeOK
  <2>4. CASE i # j
    <3>1. row'[i] = row[i]
      BY <2>2, <2>4 DEF RowDeleted, IInv, TypeOK
    <3>2. active' = active \/ (active[j] # None /\ End(active[j], "cancelled"))
      BY <1>6, <2>1 DEF Delete
    <3>3. active[j] # None => run[active[j]].inv = j
      BY DEF IInv, ActiveAgrees
    <3>4. active'[i] = active[i]
      BY <2>4, <3>2, <3>3 DEF End, IInv, TypeOK
    <3> QED
      BY <2>2, <3>1, <3>4 DEF RowStep, Kept
  <2> QED
    BY <2>3, <2>4
<1>7. CASE Crash
  BY <1>7 DEF Crash, RowStep
<1>8. CASE Restart
  <2>1. row' = Reconciled
    BY <1>8 DEF Restart
  <2>2. row[i] \in Row
    BY DEF IInv, TypeOK
  <2>3. row'[i].status # "analyzing"
    BY <2>1, <2>2, ReleasedFields DEF Reconciled
  <2> QED
    BY <2>3 DEF RowStep
<1>9. ASSUME NEW r \in Runs, Deadline(r) PROVE RowStep(i)
  BY <1>1, <1>9 DEF Deadline
<1> QED
  BY <1>1, <1>2, <1>3, <1>4, <1>5, <1>6, <1>7, <1>8, <1>9, WorkerRowStep
  DEF Next, HandlerStep, Arrival, ReadForStart, ArriveDelete, ArriveCancel, PollMisses,
      StartRefused, AwaitPublication, vars

\* The subject of a run that has begun never changes.
LEMMA SubjectKept ==
  ASSUME IInv, [Next]_vars, NEW s \in Runs, run[s].status # "unused"
  PROVE  run'[s].inv = run[s].inv
<1>1. CASE run' = run
  BY <1>1
<1>2. ASSUME NEW r \in Runs, NEW status \in RunStatus, End(r, status)
      PROVE  run'[s].inv = run[s].inv
  BY <1>2, EndEffect DEF IInv, WellFormed, Ended, Moved
<1>3. ASSUME NEW q \in Requests, NEW r \in Runs, Start(q, r) PROVE run'[s].inv = run[s].inv
  BY <1>3 DEF Start, IInv, TypeOK
<1>4. ASSUME NEW q \in Requests, Cancel(q) PROVE run'[s].inv = run[s].inv
  BY <1>4, CancelEffect DEF Ended, Moved
<1>5. ASSUME NEW q \in Requests, Delete(q) PROVE run'[s].inv = run[s].inv
  BY <1>5, DeleteEffect DEF Ended, Moved
<1>6. ASSUME NEW r \in Runs, StepFails(r) \/ Panic(r) PROVE run'[s].inv = run[s].inv
  BY <1>6, FailEffect DEF Ended, Moved
<1>7. ASSUME NEW r \in Runs, RecordPublication(r) PROVE run'[s].inv = run[s].inv
  BY <1>7, RecordEffect DEF Ended, Moved
<1>8. ASSUME NEW r \in Runs, Begin(r) \/ ClaimPublication(r) \/ Deadline(r)
      PROVE  run'[s].inv = run[s].inv
  BY <1>8 DEF Begin, ClaimPublication, Deadline, IInv, TypeOK, ManagedRun
<1>9. ASSUME Crash PROVE run'[s].inv = run[s].inv
  BY <1>9 DEF Crash, UnusedRun
<1> QED
  BY <1>1, <1>3, <1>4, <1>5, <1>6, <1>7, <1>8, <1>9
  DEF Next, HandlerStep, WorkerStep, Arrival, CreateInvestigation, UpdateTarget, ReadForStart,
      ArriveDelete, ArriveCancel, PollMisses, StartRefused, RecoverLost, AwaitPublication,
      Advance, Commit, RollBack, Restart, vars

\* Only the commit of a worker makes it committed.
LEMMA CommittedByCommit ==
  ASSUME IInv, [Next]_vars, NEW s \in Runs, worker[s] = "committing", worker'[s] = "committed"
  PROVE  Commit(s)
<1>1. worker' # worker
  OBVIOUS
<1>2. ASSUME NEW r \in Runs, WorkerStep(r), ~Commit(r) PROVE FALSE
  <2>1. \/ worker' = worker
        \/ worker' = [worker EXCEPT ![r] = worker'[r]] /\ worker'[r] # "committed"
    BY <1>2 DEF WorkerStep, Begin, Advance, StepFails, ClaimPublication, RollBack,
                RecordPublication, Panic, GoTo, IInv, TypeOK
  <2> QED
    BY <1>1, <2>1 DEF IInv, TypeOK
<1>3. ASSUME NEW r \in Runs, Commit(r), r # s PROVE FALSE
  BY <1>3 DEF Commit, GoTo, IInv, TypeOK
<1>4. ASSUME NEW q \in Requests, NEW r \in Runs, Start(q, r) PROVE FALSE
  BY <1>4 DEF Start, IInv, TypeOK
<1>5. ASSUME Crash PROVE FALSE
  BY <1>5 DEF Crash
<1> QED
  BY <1>1, <1>2, <1>3, <1>4, <1>5
  DEF Next, HandlerStep, Arrival, CreateInvestigation, UpdateTarget, ReadForStart, ArriveDelete,
      ArriveCancel, PollMisses, StartRefused, RecoverLost, Cancel, AwaitPublication, Delete,
      Deadline, Restart, vars

\* The row of a run that has committed is not analyzing, and while the process is
\* up an analyzing row and the registry name the same run.
RegistryNamesRun(i) == up /\ row[i].status = "analyzing" => active[i] = row[i].active

CommittedRowSettled(s) == worker[s] = "committed" => row[run[s].inv].status # "analyzing"

LEMMA CommittedRowSettledNext ==
  ASSUME IInv, [Next]_vars, NEW s \in Runs, CommittedRowSettled(s), "db_error" \notin Faults
  PROVE  CommittedRowSettled(s)'
<1> SUFFICES ASSUME worker'[s] = "committed" PROVE row'[run'[s].inv].status # "analyzing"
  BY DEF CommittedRowSettled
<1>1. CASE Commit(s)
  <2>1. run[s].inv \in Investigations /\ run'[s].inv = run[s].inv
    BY <1>1, LiveRunHasSubject
    DEF Commit, At, IInv, WellFormed, PublisherHoldsClaim
  <2> QED
    BY <1>1, <2>1 DEF Commit, IInv, TypeOK, Row
<1>2. CASE worker[s] = "committed"
  <2>1. Live(s) /\ run[s].status # "unused"
    BY <1>2 DEF IInv, PublisherHoldsClaim, Live
  <2>2. PICK i \in Investigations : i = run[s].inv
    BY <2>1, LiveRunHasSubject DEF IInv, WellFormed
  <2>3. run'[s].inv = i /\ active[i] = s /\ s # None /\ row[i].status # "analyzing"
    BY <1>2, <2>1, <2>2, SubjectKept, LifecycleAssumption
    DEF CommittedRowSettled, IInv, ActiveAgrees
  <2> QED
    BY <2>3, EveryRowSteps DEF RowStep, Kept, StartsRun, DropsRun
<1>3. CASE ~Commit(s) /\ worker[s] # "committed"
  <2>1. RunStep(s)
    BY EveryRunSteps
  <2>2. Transacts(s)
    BY <1>3, <2>1
    DEF RunStep, IsStarted, IsCancelled, Begins, Advances, Fails, Claims, Reports, Expires,
        Dies, Working
  <2> QED
    BY <1>3, <2>2, CommittedByCommit DEF Transacts
<1> QED
  BY <1>1, <1>2, <1>3

\* While the process is up an analyzing row names a run that is queued or running
\* (Start, restoreStableStatus, publish and reconcileLostAnalysisRuns).  A release
\* whose statement fails breaks it: nobody is left to release the row.
THEOREM AnalyzingRowsMoveOn ==
  ASSUME "db_error" \notin Faults
  PROVE  Spec => []AnalyzingRowHasLiveRun
<1> DEFINE Named == /\ \A i \in Investigations : RegistryNamesRun(i)
                    /\ \A s \in Runs : CommittedRowSettled(s)
<1>1. Init => Named
  BY DEF Init, RegistryNamesRun, CommittedRowSettled, NoRow
<1>2. IInv /\ Named /\ [Next]_vars => Named'
  <2> SUFFICES ASSUME IInv, Named, [Next]_vars PROVE Named'
    OBVIOUS
  <2>1. ASSUME NEW i \in Investigations PROVE RegistryNamesRun(i)'
    <3>1. RowStep(i) /\ RegistryNamesRun(i)
      BY EveryRowSteps
    <3>2. ASSUME DropsRun(i), up', row'[i].status = "analyzing" PROVE FALSE
      <4>1. PICK r \in Runs : /\ run[r].inv = i /\ Live(r) /\ row'[i] = row[i] /\ up
                              /\ worker[r] = "committed" \/ row[i].active # r
        BY <3>2 DEF DropsRun
      <4>2. active[i] = r /\ row[i].status = "analyzing"
        BY <3>2, <4>1 DEF IInv, ActiveAgrees
      <4>3. row[i].active = r /\ worker[r] # "committed"
        BY <3>1, <4>1, <4>2 DEF RegistryNamesRun, CommittedRowSettled
      <4> QED
        BY <4>1, <4>3
    <3> QED
      BY <3>1, <3>2 DEF RegistryNamesRun, RowStep, Kept, StartsRun
  <2>2. ASSUME NEW s \in Runs PROVE CommittedRowSettled(s)'
    BY CommittedRowSettledNext
  <2> QED
    BY <2>1, <2>2
<1>3. IInv /\ Named => AnalyzingRowHasLiveRun
  BY DEF IInv, RowConsistent, ActiveAgrees, RegistryNamesRun, AnalyzingRowHasLiveRun
<1> QED
  BY Invariance, <1>1, <1>2, <1>3, PTL DEF Spec

\* A process that is down remembers no run.
DownKnowsNoRun == ~up => \A r \in Runs : run[r].status \in {"unused", "lost"}

LEMMA DownKnowsNoRunNext == DownKnowsNoRun /\ [Next]_vars => DownKnowsNoRun'
<1> SUFFICES ASSUME DownKnowsNoRun, [Next]_vars, ~up' PROVE DownKnowsNoRun'
  BY DEF DownKnowsNoRun
<1>1. CASE Crash
  BY <1>1 DEF Crash, UnusedRun, DownKnowsNoRun
<1>2. CASE UNCHANGED vars
  BY <1>2 DEF vars, DownKnowsNoRun
<1>3. ASSUME NEW r \in Runs, WorkerStep(r) \/ Deadline(r) PROVE FALSE
  BY <1>3 DEF WorkerStep, Begin, Advance, StepFails, ClaimPublication, Commit, RollBack,
              RecordPublication, Panic, At, Deadline
<1>4. ASSUME NEW q \in Requests, Arrival(q) PROVE up' = up /\ up
  BY <1>4 DEF Arrival, ReadForStart, ArriveDelete, ArriveCancel, PollMisses
<1>5. ASSUME NEW q \in Requests, HandlerStep(q) PROVE up' = up /\ up
  <2>1. ASSUME NEW r \in Runs, Start(q, r) PROVE up' = up /\ up
    BY <2>1 DEF Start
  <2>2. CASE StartRefused(q) \/ RecoverLost(q) \/ Cancel(q)
    BY <2>2 DEF StartRefused, RecoverLost, Cancel
  <2>3. CASE AwaitPublication(q) \/ Delete(q)
    BY <2>3 DEF AwaitPublication, Delete, DeleteProceeds
  <2> QED
    BY <1>5, <2>1, <2>2, <2>3 DEF HandlerStep
<1>6. ASSUME NEW i \in Investigations, NEW a \in Addresses \cup {None},
             CreateInvestigation(i, a) \/ UpdateTarget(i, a)
      PROVE  up' = up /\ up
  BY <1>6 DEF CreateInvestigation, UpdateTarget
<1>7. CASE Restart
  BY <1>7 DEF Restart
<1> QED
  BY <1>1, <1>2, <1>3, <1>4, <1>5, <1>6, <1>7 DEF Next

\* No row still names a run that failed or was cancelled (spec.md).  The statement
\* of a release that fails is the only thing that breaks it.
THEOREM EndedRunsReleaseRows ==
  ASSUME "db_error" \notin Faults
  PROVE  Spec => []EndedRunReleasesRow
<1>1. Init => DownKnowsNoRun
  BY DEF Init, DownKnowsNoRun
<1>2. IInv /\ DownKnowsNoRun /\ AnalyzingRowHasLiveRun => EndedRunReleasesRow
  <2> SUFFICES ASSUME IInv, DownKnowsNoRun, AnalyzingRowHasLiveRun, NEW r \in Runs,
                      run[r].status \in {"failed", "cancelled"}, row[run[r].inv].active = r
               PROVE  FALSE
    BY DEF EndedRunReleasesRow
  <2>1. up /\ run[r].inv \in Investigations /\ r # None
    BY LifecycleAssumption DEF DownKnowsNoRun, IInv, TypeOK, ManagedRun, RunsWellFormed
  <2>2. row[run[r].inv].status = "analyzing"
    BY <2>1 DEF IInv, RowConsistent
  <2> QED
    BY <2>1, <2>2 DEF AnalyzingRowHasLiveRun, Live
<1> QED
  BY Invariance, AnalyzingRowsMoveOn, DownKnowsNoRunNext, <1>1, <1>2, PTL DEF Spec
=============================================================================
