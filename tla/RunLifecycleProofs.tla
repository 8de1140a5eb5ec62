------------------------- MODULE RunLifecycleProofs -------------------------
(***************************************************************************)
(* What RunLifecycle promises whatever fails, for every value of its       *)
(* constants: its safety, from the inductive invariant IInv, and that it   *)
(* implements InvestigationPromise.                                        *)
(***************************************************************************)
EXTENDS RunLifecycle, TLAPS

-----------------------------------------------------------------------------
(* Helpers of the actions *)

\* A released row is a row.
LEMMA ReleasedTyped ==
  ASSUME NEW old \in Row
  PROVE  Released(old) \in Row
BY DEF Released, Row

\* The table after restoreStableStatus is a table again.
LEMMA RestoreTyped ==
  ASSUME TypeOK, NEW i \in Investigations, NEW r, NEW t \in RestoreOutcomes(i, r)
  PROVE  t \in [Investigations -> Row]
<1>1. Released(row[i]) \in Row
  BY ReleasedTyped DEF TypeOK
<1>2. Restored(i, r) \in [Investigations -> Row]
  BY <1>1 DEF Restored, TypeOK
<1> QED
  BY <1>2 DEF RestoreOutcomes, TypeOK

\* A terminal transition keeps the registry and the runs in their types.
LEMMA EndTyped ==
  ASSUME TypeOK, NEW r, NEW status \in {"completed", "failed", "cancelled"},
         End(r, status)
  PROVE  active' \in [Investigations -> Runs \cup {None}] /\ run' \in [Runs -> ManagedRun]
<1>1. active' \in [Investigations -> Runs \cup {None}]
  BY DEF End, TypeOK
<1>2. run' \in [Runs -> ManagedRun]
  BY DEF End, TypeOK, ManagedRun, RunStatus
<1> QED
  BY <1>1, <1>2

\* The row a publication writes is a row.
LEMMA PublishedTyped ==
  ASSUME NEW old \in Row, NEW r \in Runs
  PROVE  [old EXCEPT !.status = "completed", !.active = None,
                     !.locked = TRUE, !.current = r] \in Row
BY DEF Row

\* The run a worker reports is a run.
LEMMA ReportedTyped ==
  ASSUME NEW old \in ManagedRun, NEW status \in {"completed", "failed"}
  PROVE  [old EXCEPT !.status = status, !.claimed = FALSE] \in ManagedRun
BY DEF ManagedRun, RunStatus

-----------------------------------------------------------------------------
(* Types, and what a handler or a run holds *)

WellFormed == TypeOK /\ RequestsWellFormed /\ RunsWellFormed

LEMMA WellFormedInit == Init => WellFormed
BY LifecycleAssumption
DEF Init, WellFormed, TypeOK, RequestsWellFormed, RunsWellFormed, Live,
    NoRow, UnusedRun, Idle, Row, ManagedRun, RunStatus, Phase, Request

\* A terminal transition of a live run, whatever else the step does.
LEMMA EndedWellFormed ==
  ASSUME WellFormed, NEW r \in Runs, Live(r),
         NEW status \in {"completed", "failed", "cancelled"}, End(r, status),
         row' \in [Investigations -> Row], dataset' \in [Runs -> Addresses \cup {None}],
         worker' \in [Runs -> Phase], up' = up,
         \/ request' = request
         \/ \E q \in Requests : request' = [request EXCEPT ![q] = Idle]
  PROVE  WellFormed'
<1>1. TypeOK'
  <2>1. request' \in [Requests -> Request]
    BY DEF WellFormed, TypeOK, Idle, Request
  <2> QED
    BY <2>1, EndTyped DEF WellFormed, TypeOK
<1>2. RequestsWellFormed'
  BY DEF WellFormed, TypeOK, Idle, Request, RequestsWellFormed
<1>3. RunsWellFormed'
  BY DEF WellFormed, TypeOK, ManagedRun, RunsWellFormed, End, Live
<1> QED
  BY <1>1, <1>2, <1>3 DEF WellFormed

LEMMA WellFormedNext == IInv /\ [Next]_vars => WellFormed'
<1> SUFFICES ASSUME IInv, [Next]_vars PROVE WellFormed'
  OBVIOUS
<1> USE LifecycleAssumption DEF WellFormed
<1>0. WellFormed
  BY DEF IInv
<1> USE <1>0
<1>1. ASSUME NEW i \in Investigations, NEW a \in Addresses \cup {None},
             CreateInvestigation(i, a) \/ UpdateTarget(i, a)
      PROVE  WellFormed'
  <2>1. row' \in [Investigations -> Row]
    BY <1>1 DEF CreateInvestigation, UpdateTarget, TypeOK, Row
  <2> QED
    BY <1>1, <2>1 DEF CreateInvestigation, UpdateTarget, TypeOK, RequestsWellFormed,
              RunsWellFormed, Live
<1>2. ASSUME NEW q \in Requests, Arrival(q)
      PROVE  WellFormed'
  <2>1. \A r \in Runs : run[r].status # "unused" => run[r].inv \in Investigations
    BY DEF TypeOK, ManagedRun, RunsWellFormed
  <2> QED
    BY <1>2, <2>1 DEF Arrival, ReadForStart, ArriveDelete, ArriveCancel, PollMisses, Stored,
              TypeOK, Row, Request, RequestsWellFormed, RunsWellFormed, Live
<1>3. ASSUME NEW q \in Requests, NEW r \in Runs, Start(q, r)
      PROVE  WellFormed'
  <2>1. request[q].inv \in Investigations /\ request[q].target \in Addresses
    BY <1>3 DEF Start, RequestsWellFormed
  <2>2. row' \in [Investigations -> Row]
    BY <1>3, <2>1 DEF Start, TypeOK, Row
  <2>3. run' \in [Runs -> ManagedRun]
    BY <1>3, <2>1 DEF Start, TypeOK, ManagedRun, RunStatus
  <2>4. TypeOK'
    BY <1>3, <2>1, <2>2, <2>3 DEF Start, Idle, TypeOK, Phase, Request
  <2>5. RequestsWellFormed'
    BY <1>3 DEF Start, Idle, TypeOK, Request, RequestsWellFormed
  <2>6. RunsWellFormed'
    BY <1>3, <2>1 DEF Start, TypeOK, ManagedRun, RunsWellFormed, Live
  <2> QED
    BY <2>4, <2>5, <2>6
<1>4. ASSUME NEW q \in Requests, StartRefused(q)
      PROVE  WellFormed'
  BY <1>4 DEF StartRefused, Idle, TypeOK, Request, RequestsWellFormed, RunsWellFormed, Live
<1>5. ASSUME NEW q \in Requests, RecoverLost(q)
      PROVE  WellFormed'
  <2>1. row' \in [Investigations -> Row]
    BY <1>5, RestoreTyped DEF RecoverLost, RequestsWellFormed
  <2> QED
    BY <1>5, <2>1 DEF RecoverLost, Idle, TypeOK, Request, RequestsWellFormed,
                      RunsWellFormed, Live
<1>6. ASSUME NEW q \in Requests, Cancel(q)
      PROVE  WellFormed'
  <2> DEFINE r == request[q].run
  <2>1. r \in Runs
    BY <1>6 DEF Cancel, RequestsWellFormed
  <2>2. request' = [request EXCEPT ![q] = Idle]
    BY <1>6 DEF Cancel
  <2>3. CASE Live(r)
    <3>1. End(r, "cancelled") /\ row' \in RestoreOutcomes(run[r].inv, r)
      BY <1>6, <2>3 DEF Cancel
    <3>2. row' \in [Investigations -> Row]
      BY <2>1, <2>3, <3>1, RestoreTyped DEF RunsWellFormed, TypeOK, ManagedRun, Live
    <3> QED
      BY <1>6, <2>1, <2>2, <2>3, <3>1, <3>2, EndedWellFormed DEF Cancel, TypeOK
  <2>4. CASE ~Live(r)
    BY <1>6, <2>2, <2>4 DEF Cancel, Idle, TypeOK, Request, RequestsWellFormed, RunsWellFormed, Live
  <2> QED
    BY <2>3, <2>4
<1>7. ASSUME NEW q \in Requests, AwaitPublication(q)
      PROVE  WellFormed'
  <2>1. request[q].inv \in Investigations
    BY <1>7 DEF AwaitPublication, DeleteProceeds, RequestsWellFormed
  <2>2. active[request[q].inv] \in Runs
    BY <1>7, <2>1 DEF AwaitPublication, TypeOK
  <2> QED
    BY <1>7, <2>1, <2>2 DEF AwaitPublication, TypeOK, Request, RequestsWellFormed,
                            RunsWellFormed, Live
<1>8. ASSUME NEW q \in Requests, Delete(q)
      PROVE  WellFormed'
  <2> DEFINE i == request[q].inv
             r == active[i]
  <2>1. i \in Investigations
    BY <1>8 DEF Delete, DeleteProceeds, RequestsWellFormed
  <2>2. r \in Runs \cup {None}
    BY <2>1 DEF TypeOK
  <2>3. row' \in [Investigations -> Row]
    <3>1. CASE RowDeleted(i)
      <4>1. [NoRow EXCEPT !.status = "deleted"] \in Row
        BY DEF NoRow, Row
      <4> QED
        BY <2>1, <3>1, <4>1 DEF RowDeleted, TypeOK
    <3>2. CASE row' = row \/ row' \in RestoreOutcomes(i, r)
      BY <2>1, <3>2, RestoreTyped DEF TypeOK
    <3> QED
      BY <1>8, <3>1, <3>2 DEF Delete
  <2>4. dataset' \in [Runs -> Addresses \cup {None}]
    BY <1>8 DEF Delete, RowDeleted, TypeOK
  <2>5. request' = [request EXCEPT ![q] = Idle] /\ UNCHANGED <<worker, up>>
    BY <1>8 DEF Delete, DeleteProceeds
  <2>6. CASE r = None /\ UNCHANGED <<run, active>>
    BY <2>3, <2>4, <2>5, <2>6 DEF Idle, TypeOK, Request, RequestsWellFormed, RunsWellFormed, Live
  <2>7. CASE r # None /\ End(r, "cancelled")
    <3>1. r \in Runs /\ Live(r)
      BY <2>1, <2>2, <2>7 DEF IInv, ActiveAgrees
    <3> QED
      BY <2>3, <2>4, <2>5, <2>7, <3>1, EndedWellFormed DEF TypeOK
  <2> QED
    BY <1>8, <2>6, <2>7 DEF Delete
<1>9. ASSUME NEW r \in Runs, Begin(r) \/ ClaimPublication(r)
      PROVE  WellFormed'
  <2>1. \/ run' = run
        \/ Live(r) /\ run' = [run EXCEPT ![r].status = "running"]
        \/ Live(r) /\ run' = [run EXCEPT ![r].claimed = TRUE]
    BY <1>9 DEF Begin, ClaimPublication, ContextDone
  <2>2. run' \in [Runs -> ManagedRun] /\ RunsWellFormed'
    <3>1. CASE run' = run
      BY <3>1 DEF TypeOK, RunsWellFormed, Live
    <3>2. CASE Live(r) /\ run' = [run EXCEPT ![r].status = "running"]
      BY <3>2 DEF TypeOK, ManagedRun, RunStatus, RunsWellFormed, Live
    <3>3. CASE Live(r) /\ run' = [run EXCEPT ![r].claimed = TRUE]
      <4>1. run' \in [Runs -> ManagedRun]
        BY <3>3 DEF TypeOK, ManagedRun
      <4>2. \A s \in Runs : /\ run'[s].status = run[s].status
                            /\ run'[s].inv = run[s].inv /\ run'[s].target = run[s].target
        BY <3>3 DEF TypeOK, ManagedRun
      <4> QED
        BY <4>1, <4>2 DEF RunsWellFormed, Live
    <3> QED
      BY <2>1, <3>1, <3>2, <3>3
  <2>3. worker' \in [Runs -> Phase]
    BY <1>9 DEF Begin, ClaimPublication, GoTo, TypeOK, Phase
  <2> QED
    BY <1>9, <2>2, <2>3 DEF Begin, ClaimPublication, TypeOK, RequestsWellFormed
<1>10. ASSUME NEW r \in Runs, Advance(r) \/ RollBack(r)
       PROVE  WellFormed'
  <2>1. worker' \in [Runs -> Phase]
    BY <1>10 DEF Advance, RollBack, GoTo, TypeOK, Phase
  <2> QED
    BY <1>10, <2>1 DEF Advance, RollBack, TypeOK, RequestsWellFormed, RunsWellFormed, Live
<1>11. ASSUME NEW r \in Runs, StepFails(r) \/ Panic(r)
       PROVE  WellFormed'
  <2>1. Fail(r) /\ UNCHANGED <<dataset, request, up>> /\ worker' \in [Runs -> Phase]
    BY <1>11 DEF StepFails, Panic, GoTo, TypeOK, Phase
  <2>2. CASE Live(r)
    <3>1. End(r, "failed") /\ row' \in RestoreOutcomes(run[r].inv, r)
      BY <2>1, <2>2 DEF Fail
    <3>2. run[r].inv \in Investigations
      BY <2>2 DEF RunsWellFormed, TypeOK, ManagedRun, Live
    <3>3. row' \in [Investigations -> Row]
      BY <3>1, <3>2, RestoreTyped
    <3> QED
      BY <2>1, <2>2, <3>1, <3>3, EndedWellFormed DEF TypeOK
  <2>3. CASE ~Live(r)
    BY <2>1, <2>3 DEF Fail, TypeOK, RequestsWellFormed, RunsWellFormed, Live
  <2> QED
    BY <2>2, <2>3
<1>12. ASSUME NEW r \in Runs, Commit(r)
       PROVE  WellFormed'
  <2>1. run[r].status # "unused"
    BY <1>12 DEF Commit, At, IInv, PublisherHoldsClaim, Live
  <2>2. run[r].inv \in Investigations
    BY <2>1 DEF RunsWellFormed, TypeOK, ManagedRun
  <2>3. row' \in [Investigations -> Row]
    <3> DEFINE new == [row[run[r].inv] EXCEPT !.status = "completed", !.active = None,
                                              !.locked = TRUE, !.current = r]
    <3>1. new \in Row
      BY <2>2, PublishedTyped DEF TypeOK
    <3>2. row' = [row EXCEPT ![run[r].inv] = new]
      BY <1>12 DEF Commit
    <3> QED
      BY <2>2, <3>1, <3>2 DEF TypeOK
  <2>4. dataset' \in [Runs -> Addresses \cup {None}]
    BY <1>12 DEF Commit, TypeOK, ManagedRun
  <2>5. worker' \in [Runs -> Phase]
    BY <1>12 DEF Commit, GoTo, TypeOK, Phase
  <2> QED
    BY <1>12, <2>3, <2>4, <2>5 DEF Commit, TypeOK, RequestsWellFormed, RunsWellFormed, Live
<1>13. ASSUME NEW r \in Runs, RecordPublication(r)
       PROVE  WellFormed'
  <2>1. Live(r)
    BY <1>13 DEF RecordPublication, At, IInv, PublisherHoldsClaim
  <2>2. run[r].inv \in Investigations
    BY <2>1 DEF RunsWellFormed, TypeOK, ManagedRun, Live
  <2>3. row' \in [Investigations -> Row]
    BY <1>13, <2>2, RestoreTyped DEF RecordPublication, TypeOK
  <2>4. run' \in [Runs -> ManagedRun] /\ worker' \in [Runs -> Phase]
    <3>1. PICK status \in {"completed", "failed"} :
            run' = [run EXCEPT ![r].status = status, ![r].claimed = FALSE]
      BY <1>13 DEF RecordPublication
    <3> DEFINE new == [run[r] EXCEPT !.status = status, !.claimed = FALSE]
    <3>2. new \in ManagedRun
      BY ReportedTyped DEF TypeOK
    <3>3. run' = [run EXCEPT ![r] = new]
      BY <3>1
    <3>4. run' \in [Runs -> ManagedRun]
      BY <3>2, <3>3 DEF TypeOK
    <3> QED
      BY <1>13, <3>4 DEF RecordPublication, GoTo, TypeOK, Phase
  <2>5. active' \in [Investigations -> Runs \cup {None}]
    BY <1>13 DEF RecordPublication, TypeOK
  <2>6. RunsWellFormed'
    BY <1>13, <2>1 DEF RecordPublication, TypeOK, ManagedRun, RunsWellFormed, Live
  <2> QED
    BY <1>13, <2>3, <2>4, <2>5, <2>6 DEF RecordPublication, TypeOK, RequestsWellFormed
<1>14. ASSUME NEW r \in Runs, Deadline(r)
       PROVE  WellFormed'
  <2>1. run' \in [Runs -> ManagedRun]
    BY <1>14 DEF Deadline, TypeOK, ManagedRun
  <2>2. RunsWellFormed'
    BY <1>14 DEF Deadline, TypeOK, ManagedRun, RunsWellFormed, Live
  <2> QED
    BY <1>14, <2>1, <2>2 DEF Deadline, TypeOK, RequestsWellFormed
<1>15. CASE Crash
  <2>1. run' \in [Runs -> ManagedRun]
    BY <1>15 DEF Crash, UnusedRun, TypeOK, ManagedRun, RunStatus
  <2>2. worker' \in [Runs -> Phase] /\ request' \in [Requests -> Request]
    BY <1>15 DEF Crash, Idle, Phase, Request
  <2>3. RequestsWellFormed' /\ RunsWellFormed'
    BY <1>15 DEF Crash, Idle, UnusedRun, TypeOK, ManagedRun, RequestsWellFormed, RunsWellFormed, Live
  <2> QED
    BY <1>15, <2>1, <2>2, <2>3 DEF Crash, TypeOK
<1>16. CASE Restart
  <2>1. row' \in [Investigations -> Row]
    BY <1>16, ReleasedTyped DEF Restart, Reconciled, TypeOK
  <2> QED
    BY <1>16, <2>1 DEF Restart, TypeOK, RequestsWellFormed, RunsWellFormed, Live
<1>17. CASE UNCHANGED vars
  BY <1>17 DEF vars, TypeOK, RequestsWellFormed, RunsWellFormed, Live
<1> QED
  BY <1>1, <1>2, <1>3, <1>4, <1>5, <1>6, <1>7, <1>8, <1>9, <1>10, <1>11, <1>12,
     <1>13, <1>14, <1>15, <1>16, <1>17
  DEF Next, WorkerStep, HandlerStep

-----------------------------------------------------------------------------
(* What the actions do to the registry and to the rows *)

\* Every run keeps its Investigation, and only the status of r changes.
Moved(r, status) ==
  \A s \in Runs : /\ run'[s].inv = run[s].inv
                  /\ run'[s].status = IF s = r THEN status ELSE run[s].status

\* A terminal transition of r: it leaves the registry of active runs.
Ended(r, status) ==
  /\ Moved(r, status)
  /\ \A s \in Runs : s # r => run'[s].claimed = run[s].claimed
  /\ \A i \in Investigations : active'[i] = IF i = run[r].inv THEN None ELSE active[i]

\* At most the row that names r changes: it is released.
Withdrawn(r) ==
  \A i \in Investigations :
    row'[i] = row[i] \/ (row[i].active = r /\ row'[i] = Released(row[i]))

\* A run that is live knows its Investigation.
LEMMA LiveRunHasSubject ==
  ASSUME WellFormed, NEW r \in Runs, Live(r)
  PROVE  run[r].inv \in Investigations /\ run[r].inv # None
BY LifecycleAssumption DEF WellFormed, TypeOK, ManagedRun, RunsWellFormed, Live

LEMMA EndEffect ==
  ASSUME WellFormed, NEW r \in Runs, NEW status \in RunStatus, End(r, status)
  PROVE  Ended(r, status)
BY DEF WellFormed, TypeOK, ManagedRun, End, Ended, Moved

LEMMA RestoreEffect ==
  ASSUME WellFormed, NEW i, NEW r, row' \in RestoreOutcomes(i, r)
  PROVE  Withdrawn(r)
<1>1. \/ row' = row
      \/ row[i].active = r /\ row' = [row EXCEPT ![i] = Released(row[i])]
  BY DEF RestoreOutcomes, Restored
<1>2. row \in [Investigations -> Row]
  BY DEF WellFormed, TypeOK
<1>3. ASSUME NEW j \in Investigations
      PROVE  row'[j] = row[j] \/ (row[j].active = r /\ row'[j] = Released(row[j]))
  <2>1. CASE j = i
    BY <1>1, <1>2, <2>1
  <2>2. CASE j # i
    BY <1>1, <1>2, <2>2
  <2> QED
    BY <2>1, <2>2
<1> QED
  BY <1>3 DEF Withdrawn

\* What a release keeps and what it resets.
LEMMA ReleasedFields ==
  ASSUME NEW old \in Row
  PROVE  /\ Released(old).address = old.address /\ Released(old).locked = old.locked
         /\ Released(old).current = old.current /\ Released(old).active = None
         /\ Released(old).status = IF old.current = None THEN "pending" ELSE "completed"
BY DEF Released, Row

\* Cancel ends a live run that does not publish, or does nothing.
LEMMA CancelEffect ==
  ASSUME IInv, NEW q \in Requests, Cancel(q)
  PROVE  /\ UNCHANGED <<dataset, worker>>
         /\ \/ UNCHANGED <<run, active, row>>
            \/ \E r \in Runs : /\ Live(r) /\ ~run[r].claimed
                               /\ Ended(r, "cancelled") /\ Withdrawn(r)
<1> DEFINE r == request[q].run
<1>1. r \in Runs
  BY DEF Cancel, IInv, RequestsWellFormed
<1>2. CASE Live(r)
  <2>1. ~run[r].claimed /\ End(r, "cancelled") /\ row' \in RestoreOutcomes(run[r].inv, r)
    BY <1>2 DEF Cancel
  <2>2. Ended(r, "cancelled")
    BY <1>1, <2>1, EndEffect DEF IInv, WellFormed, RunStatus
  <2>3. Withdrawn(r)
    BY <2>1, RestoreEffect DEF IInv, WellFormed
  <2> QED
    BY <1>1, <1>2, <2>1, <2>2, <2>3 DEF Cancel
<1>3. CASE ~Live(r)
  BY <1>3 DEF Cancel
<1> QED
  BY <1>2, <1>3

\* A failure ends a run that is still live, and its worker returns.
LEMMA FailEffect ==
  ASSUME IInv, NEW r \in Runs, StepFails(r) \/ Panic(r)
  PROVE  /\ UNCHANGED <<dataset, request, up>> /\ worker' = [worker EXCEPT ![r] = "done"]
         /\ worker[r] \in {"capturing_cutoff", "collecting", "evaluating", "scoring", "committing"}
         /\ \/ ~Live(r) /\ UNCHANGED <<run, active, row>>
            \/ Live(r) /\ Ended(r, "failed") /\ Withdrawn(r)
<1>1. /\ Fail(r) /\ UNCHANGED <<dataset, request, up>>
      /\ worker' = [worker EXCEPT ![r] = "done"]
      /\ worker[r] \in {"capturing_cutoff", "collecting", "evaluating", "scoring", "committing"}
  BY DEF StepFails, Panic, GoTo, At
<1>2. CASE Live(r)
  <2>1. End(r, "failed") /\ row' \in RestoreOutcomes(run[r].inv, r)
    BY <1>1, <1>2 DEF Fail
  <2>2. Ended(r, "failed")
    BY <2>1, EndEffect DEF IInv, WellFormed, RunStatus
  <2>3. Withdrawn(r)
    BY <2>1, RestoreEffect DEF IInv, WellFormed
  <2> QED
    BY <1>1, <1>2, <2>2, <2>3
<1>3. CASE ~Live(r)
  BY <1>1, <1>3 DEF Fail
<1> QED
  BY <1>2, <1>3

\* The report of a publication ends a live run: completed after the transaction
\* committed, and failed, its row released, after an error.
LEMMA RecordEffect ==
  ASSUME IInv, NEW r \in Runs, RecordPublication(r)
  PROVE  /\ Live(r) /\ UNCHANGED <<dataset, request, up>>
         /\ worker' = [worker EXCEPT ![r] = "done"]
         /\ \/ worker[r] = "committed" /\ Ended(r, "completed") /\ row' = row
            \/ Ended(r, "failed") /\ Withdrawn(r)
<1>1. Live(r)
  BY DEF RecordPublication, At, IInv, PublisherHoldsClaim
<1>2. /\ UNCHANGED <<dataset, request, up>>
      /\ worker' = [worker EXCEPT ![r] = "done"]
  BY DEF RecordPublication, GoTo
<1>3. ASSUME NEW status \in RunStatus,
             run' = [run EXCEPT ![r].status = status, ![r].claimed = FALSE],
             active' = [active EXCEPT ![run[r].inv] = None]
      PROVE  Ended(r, status)
  <2>1. Moved(r, status)
    BY <1>3 DEF IInv, TypeOK, ManagedRun, Moved
  <2>2. \A s \in Runs : s # r => run'[s].claimed = run[s].claimed
    BY <1>3 DEF IInv, TypeOK
  <2> QED
    BY <1>3, <2>1, <2>2 DEF IInv, TypeOK, Ended
<1>4. CASE worker[r] = "committed"
  <2>1. Ended(r, "completed") /\ row' = row
    BY <1>3, <1>4 DEF RecordPublication, RunStatus
  <2> QED
    BY <1>1, <1>2, <1>4, <2>1
<1>5. CASE worker[r] # "committed"
  <2>1. Ended(r, "failed") /\ row' \in RestoreOutcomes(run[r].inv, r)
    BY <1>3, <1>5 DEF RecordPublication, RunStatus
  <2> QED
    BY <1>1, <1>2, <2>1, RestoreEffect DEF IInv, WellFormed
<1> QED
  BY <1>4, <1>5

\* The cancellation inside a deletion, and the two ways the deletion goes on.
LEMMA DeleteEffect ==
  ASSUME IInv, NEW q \in Requests, Delete(q)
  PROVE  /\ UNCHANGED <<worker, up>>
         /\ \E i \in Investigations :
              /\ \/ active[i] = None /\ UNCHANGED <<run, active>>
                 \/ /\ active[i] \in Runs /\ Live(active[i]) /\ ~run[active[i]].claimed
                    /\ Ended(active[i], "cancelled") /\ run[active[i]].inv = i
              /\ \/ RowDeleted(i)
                 \/ UNCHANGED dataset /\ row' = row
                 \/ UNCHANGED dataset /\ active[i] # None /\ Withdrawn(active[i])
<1> DEFINE i == request[q].inv
           r == active[i]
<1>1. i \in Investigations
  BY DEF Delete, DeleteProceeds, IInv, RequestsWellFormed
<1>2. UNCHANGED <<worker, up>>
  BY DEF Delete
<1>3. \/ r = None /\ UNCHANGED <<run, active>>
      \/ /\ r \in Runs /\ Live(r) /\ ~run[r].claimed
         /\ Ended(r, "cancelled") /\ run[r].inv = i
  <2>1. CASE r = None /\ UNCHANGED <<run, active>>
    BY <2>1
  <2>2. CASE r # None /\ ~run[r].claimed /\ End(r, "cancelled")
    <3>1. r \in Runs /\ Live(r) /\ run[r].inv = i
      BY <1>1, <2>2 DEF IInv, ActiveAgrees, TypeOK
    <3> QED
      BY <2>2, <3>1, EndEffect DEF IInv, WellFormed, RunStatus
  <2> QED
    BY <2>1, <2>2 DEF Delete
<1>4. \/ RowDeleted(i)
      \/ UNCHANGED dataset /\ row' = row
      \/ UNCHANGED dataset /\ r # None /\ Withdrawn(r)
  <2>1. \/ RowDeleted(i)
        \/ UNCHANGED dataset /\ row' = row
        \/ UNCHANGED dataset /\ r # None /\ row' \in RestoreOutcomes(i, r)
    BY DEF Delete
  <2> QED
    BY <2>1, RestoreEffect DEF IInv, WellFormed
<1> QED
  BY <1>1, <1>2, <1>3, <1>4

-----------------------------------------------------------------------------
(* The registry of active runs *)

LEMMA EndedActiveAgrees ==
  ASSUME IInv, NEW r \in Runs, Live(r), NEW status \in {"completed", "failed", "cancelled"},
         Ended(r, status)
  PROVE  ActiveAgrees'
<1>1. \A s \in Runs : Live(s)' <=> Live(s) /\ s # r
  BY DEF Ended, Moved, Live
<1>2. ASSUME NEW i \in Investigations, active'[i] # None
      PROVE  (Live(active[i]) /\ run[active[i]].inv = i)'
  <2>1. active'[i] = active[i] /\ i # run[r].inv
    BY <1>2 DEF Ended
  <2>2. active[i] \in Runs /\ Live(active[i]) /\ run[active[i]].inv = i
    BY <1>2, <2>1 DEF IInv, TypeOK, ActiveAgrees
  <2> QED
    BY <1>1, <2>1, <2>2 DEF Ended, Moved
<1>3. ASSUME NEW s \in Runs, Live(s)'
      PROVE  active'[run'[s].inv] = s
  <2>1. Live(s) /\ s # r /\ run'[s].inv = run[s].inv
    BY <1>1, <1>3 DEF Ended, Moved
  <2>2. active[run[s].inv] = s /\ active[run[r].inv] = r /\ run[s].inv \in Investigations
    BY <2>1, LiveRunHasSubject DEF IInv, WellFormed, ActiveAgrees
  <2> QED
    BY <2>1, <2>2 DEF Ended
<1> QED
  BY <1>2, <1>3 DEF ActiveAgrees, Live

\* A step after which the same runs are live in the same Investigations.
LEMMA KeptActiveAgrees ==
  ASSUME IInv, active' = active,
         \A s \in Runs : run'[s].inv = run[s].inv /\ (Live(s)' <=> Live(s))
  PROVE  ActiveAgrees'
BY DEF IInv, TypeOK, ActiveAgrees, Live

LEMMA ActiveAgreesNext == IInv /\ [Next]_vars => ActiveAgrees'
<1> SUFFICES ASSUME IInv, [Next]_vars PROVE ActiveAgrees'
  OBVIOUS
<1>1. CASE UNCHANGED <<run, active>>
  BY <1>1, KeptActiveAgrees DEF Live
<1>2. ASSUME NEW q \in Requests, NEW r \in Runs, Start(q, r)
      PROVE  ActiveAgrees'
  <2> DEFINE i == request[q].inv
  <2>1. i \in Investigations /\ active[i] = None /\ active' = [active EXCEPT ![i] = r]
    BY <1>2 DEF Start, IInv, RequestsWellFormed
  <2>2. ~Live(r) /\ run'[r].inv = i /\ run'[r].status = "queued"
    BY <1>2, <2>1 DEF Start, IInv, TypeOK, ManagedRun, Live
  <2>3. \A s \in Runs : s # r => run'[s] = run[s]
    BY <1>2 DEF Start, IInv, TypeOK
  <2>4. ASSUME NEW j \in Investigations, active'[j] # None
        PROVE  (Live(active[j]) /\ run[active[j]].inv = j)'
    <3>1. CASE j = i
      BY <2>1, <2>2, <3>1 DEF IInv, TypeOK, Live
    <3>2. CASE j # i
      <4>1. active'[j] = active[j] /\ active[j] \in Runs
        BY <2>1, <2>4, <3>2 DEF IInv, TypeOK
      <4>2. Live(active[j]) /\ run[active[j]].inv = j
        BY <2>4, <4>1 DEF IInv, ActiveAgrees
      <4> QED
        BY <2>2, <2>3, <4>1, <4>2 DEF Live
    <3> QED
      BY <3>1, <3>2
  <2>5. ASSUME NEW s \in Runs, Live(s)'
        PROVE  active'[run'[s].inv] = s
    <3>1. CASE s = r
      BY <2>1, <2>2, <3>1 DEF IInv, TypeOK
    <3>2. CASE s # r
      <4>1. Live(s) /\ run'[s].inv = run[s].inv
        BY <2>3, <2>5, <3>2 DEF Live
      <4>2. active[run[s].inv] = s /\ run[s].inv \in Investigations
        BY <4>1, LiveRunHasSubject DEF IInv, WellFormed, ActiveAgrees
      <4>3. run[s].inv # i
        BY <2>1, <4>2, LifecycleAssumption
      <4> QED
        BY <2>1, <4>1, <4>2, <4>3 DEF IInv, TypeOK
    <3> QED
      BY <3>1, <3>2
  <2> QED
    BY <2>4, <2>5 DEF ActiveAgrees, Live
<1>3. ASSUME NEW q \in Requests, Cancel(q)
      PROVE  ActiveAgrees'
  BY <1>1, <1>3, CancelEffect, EndedActiveAgrees
<1>4. ASSUME NEW q \in Requests, Delete(q)
      PROVE  ActiveAgrees'
  BY <1>1, <1>4, DeleteEffect, EndedActiveAgrees
<1>5. ASSUME NEW r \in Runs, Begin(r) \/ ClaimPublication(r) \/ Deadline(r)
      PROVE  ActiveAgrees'
  <2>1. active' = active
    BY <1>5 DEF Begin, ClaimPublication, Deadline
  <2>2. CASE Begin(r)
    <3>1. run' = run \/ (Live(r) /\ run' = [run EXCEPT ![r].status = "running"])
      BY <2>2 DEF Begin, ContextDone
    <3>2. \A s \in Runs : run'[s].inv = run[s].inv /\ (Live(s)' <=> Live(s))
      BY <3>1 DEF IInv, TypeOK, ManagedRun, Live
    <3> QED
      BY <2>1, <3>2, KeptActiveAgrees
  <2>3. CASE ClaimPublication(r)
    <3>1. \A s \in Runs : run'[s].inv = run[s].inv /\ run'[s].status = run[s].status
      BY <2>3 DEF ClaimPublication, IInv, TypeOK, ManagedRun
    <3> QED
      BY <2>1, <3>1, KeptActiveAgrees DEF Live
  <2>4. CASE Deadline(r)
    <3>1. \A s \in Runs : run'[s].inv = run[s].inv /\ run'[s].status = run[s].status
      BY <2>4 DEF Deadline, IInv, TypeOK, ManagedRun
    <3> QED
      BY <2>1, <3>1, KeptActiveAgrees DEF Live
  <2> QED
    BY <1>5, <2>2, <2>3, <2>4
<1>6. ASSUME NEW r \in Runs, StepFails(r) \/ Panic(r)
      PROVE  ActiveAgrees'
  BY <1>1, <1>6, FailEffect, EndedActiveAgrees
<1>7. ASSUME NEW r \in Runs, RecordPublication(r)
      PROVE  ActiveAgrees'
  BY <1>7, RecordEffect, EndedActiveAgrees
<1>8. CASE Crash
  BY <1>8 DEF Crash, UnusedRun, IInv, TypeOK, ManagedRun, ActiveAgrees, Live
<1> QED
  BY <1>1, <1>2, <1>3, <1>4, <1>5, <1>6, <1>7, <1>8
  DEF Next, WorkerStep, HandlerStep, Arrival, CreateInvestigation, UpdateTarget, ReadForStart,
      ArriveDelete, ArriveCancel, PollMisses, StartRefused, RecoverLost, AwaitPublication,
      Advance, Commit, RollBack, Restart, vars

-----------------------------------------------------------------------------
(* The claim of a publication, and the Datasets of live runs *)

Publishing(r) == worker[r] \in {"committing", "committed", "rolled_back"}

\* When a run that does not publish ends, the other runs keep their claims.
LEMMA EndedKeepsClaims ==
  ASSUME IInv, NEW r \in Runs, ~Publishing(r)', NEW status, Ended(r, status),
         \A s \in Runs : s # r => worker'[s] = worker[s]
  PROVE  PublisherHoldsClaim'
<1> SUFFICES ASSUME NEW s \in Runs, Publishing(s)'
             PROVE  (run[s].claimed /\ Live(s))'
  BY DEF PublisherHoldsClaim, Publishing
<1>1. s # r /\ Publishing(s)
  BY DEF Publishing
<1>2. run[s].claimed /\ Live(s)
  BY <1>1 DEF IInv, PublisherHoldsClaim, Publishing
<1> QED
  BY <1>1, <1>2 DEF Ended, Moved, Live

LEMMA PublisherHoldsClaimNext == IInv /\ [Next]_vars => PublisherHoldsClaim'
<1> SUFFICES ASSUME IInv, [Next]_vars PROVE PublisherHoldsClaim'
  OBVIOUS
<1>0. \A s \in Runs : Publishing(s) => run[s].claimed /\ Live(s)
  BY DEF IInv, PublisherHoldsClaim, Publishing
<1>1. CASE UNCHANGED <<run, worker>>
  BY <1>1, <1>0 DEF PublisherHoldsClaim, Publishing, Live
<1>2. ASSUME NEW q \in Requests, NEW r \in Runs, Start(q, r)
      PROVE  PublisherHoldsClaim'
  <2>1. \A s \in Runs : s # r => run'[s] = run[s] /\ worker'[s] = worker[s]
    BY <1>2 DEF Start, IInv, TypeOK
  <2>2. worker'[r] = "launched"
    BY <1>2 DEF Start, IInv, TypeOK
  <2> QED
    BY <1>0, <2>1, <2>2 DEF PublisherHoldsClaim, Publishing, Live
<1>3. ASSUME NEW q \in Requests, Cancel(q)
      PROVE  PublisherHoldsClaim'
  <2>1. ASSUME NEW r \in Runs, ~run[r].claimed, Ended(r, "cancelled"), worker' = worker
        PROVE  PublisherHoldsClaim'
    BY <1>0, <2>1, EndedKeepsClaims DEF Publishing
  <2> QED
    BY <1>1, <1>3, <2>1, CancelEffect
<1>4. ASSUME NEW q \in Requests, Delete(q)
      PROVE  PublisherHoldsClaim'
  <2>1. ASSUME NEW r \in Runs, ~run[r].claimed, Ended(r, "cancelled"), worker' = worker
        PROVE  PublisherHoldsClaim'
    BY <1>0, <2>1, EndedKeepsClaims DEF Publishing
  <2> QED
    BY <1>1, <1>4, <2>1, DeleteEffect
<1>5. ASSUME NEW r \in Runs, Begin(r)
      PROVE  PublisherHoldsClaim'
  <2>1. worker'[r] \in {"done", "capturing_cutoff"}
    BY <1>5 DEF Begin, GoTo, IInv, TypeOK
  <2>2. \A s \in Runs : s # r => run'[s] = run[s] /\ worker'[s] = worker[s]
    BY <1>5 DEF Begin, GoTo, IInv, TypeOK
  <2> QED
    BY <1>0, <2>1, <2>2 DEF PublisherHoldsClaim, Publishing, Live
<1>6. ASSUME NEW r \in Runs, Advance(r)
      PROVE  PublisherHoldsClaim'
  <2>1. worker'[r] \in {"collecting", "evaluating", "scoring", "publishing"}
    BY <1>6 DEF Advance, GoTo, IInv, TypeOK
  <2>2. run' = run /\ \A s \in Runs : s # r => worker'[s] = worker[s]
    BY <1>6 DEF Advance, GoTo, IInv, TypeOK
  <2> QED
    BY <1>0, <2>1, <2>2 DEF PublisherHoldsClaim, Publishing, Live
<1>7. ASSUME NEW r \in Runs, StepFails(r) \/ Panic(r)
      PROVE  PublisherHoldsClaim'
  <2>1. worker' = [worker EXCEPT ![r] = "done"]
    BY <1>7, FailEffect
  <2>2. ~Publishing(r)' /\ \A s \in Runs : s # r => worker'[s] = worker[s]
    BY <2>1 DEF IInv, TypeOK, Publishing
  <2>3. CASE run' = run
    BY <1>0, <2>2, <2>3 DEF PublisherHoldsClaim, Publishing, Live
  <2>4. CASE Ended(r, "failed")
    BY <2>2, <2>4, EndedKeepsClaims
  <2> QED
    BY <1>7, <2>3, <2>4, FailEffect
<1>8. ASSUME NEW r \in Runs, ClaimPublication(r)
      PROVE  PublisherHoldsClaim'
  <2>1. \A s \in Runs : s # r => run'[s] = run[s] /\ worker'[s] = worker[s]
    BY <1>8 DEF ClaimPublication, GoTo, IInv, TypeOK
  <2>2. \/ worker'[r] = "done"
        \/ Live(r) /\ run'[r].claimed /\ run'[r].status = run[r].status
    BY <1>8 DEF ClaimPublication, ContextDone, GoTo, IInv, TypeOK, ManagedRun
  <2> QED
    BY <1>0, <2>1, <2>2 DEF PublisherHoldsClaim, Publishing, Live
<1>9. ASSUME NEW r \in Runs, Commit(r) \/ RollBack(r)
      PROVE  PublisherHoldsClaim'
  <2>1. Publishing(r) /\ run' = run /\ \A s \in Runs : s # r => worker'[s] = worker[s]
    BY <1>9 DEF Commit, RollBack, At, GoTo, IInv, TypeOK, Publishing
  <2> QED
    BY <1>0, <2>1 DEF PublisherHoldsClaim, Publishing, Live
<1>10. ASSUME NEW r \in Runs, RecordPublication(r)
       PROVE  PublisherHoldsClaim'
  <2>1. worker' = [worker EXCEPT ![r] = "done"]
    BY <1>10, RecordEffect
  <2>2. ~Publishing(r)' /\ \A s \in Runs : s # r => worker'[s] = worker[s]
    BY <2>1 DEF IInv, TypeOK, Publishing
  <2> QED
    BY <1>10, <2>2, RecordEffect, EndedKeepsClaims
<1>11. ASSUME NEW r \in Runs, Deadline(r)
       PROVE  PublisherHoldsClaim'
  <2>1. /\ worker' = worker
        /\ \A s \in Runs : run'[s].claimed = run[s].claimed /\ run'[s].status = run[s].status
    BY <1>11 DEF Deadline, IInv, TypeOK, ManagedRun
  <2> QED
    BY <1>0, <2>1 DEF PublisherHoldsClaim, Publishing, Live
<1>12. CASE Crash
  BY <1>12 DEF Crash, PublisherHoldsClaim
<1> QED
  BY <1>1, <1>2, <1>3, <1>4, <1>5, <1>6, <1>7, <1>8, <1>9, <1>10, <1>11, <1>12
  DEF Next, WorkerStep, HandlerStep, Arrival, CreateInvestigation, UpdateTarget, ReadForStart,
      ArriveDelete, ArriveCancel, PollMisses, StartRefused, RecoverLost, AwaitPublication,
      Restart, vars

\* A stored row that shows a result.
Published(i) == Stored(i) /\ row[i].locked /\ row[i].current # None

\* A release changes no more of a row than its status and the run it names.
LEMMA WithdrawnKeeps ==
  ASSUME IInv, NEW r \in Runs, Withdrawn(r), NEW i \in Investigations
  PROVE  /\ row'[i].locked = row[i].locked /\ row'[i].current = row[i].current
         /\ row'[i].address = row[i].address
         /\ Stored(i)' <=> Stored(i)
         /\ row'[i].status = row[i].status \/ row[i].status = "analyzing"
         /\ row'[i].status = "deleted" <=> row[i].status = "deleted"
<1>1. CASE row'[i] = row[i]
  BY <1>1 DEF Stored
<1>2. CASE row[i].active = r /\ row'[i] = Released(row[i])
  <2>1. row[i].status = "analyzing"
    BY <1>2, LifecycleAssumption DEF IInv, RowConsistent
  <2>2. row[i] \in Row
    BY DEF IInv, TypeOK
  <2> QED
    BY <1>2, <2>1, <2>2, ReleasedFields DEF Stored
<1> QED
  BY <1>1, <1>2 DEF Withdrawn

\* When a run whose worker is not "committed" any more ends, the others keep theirs.
LEMMA EndedDatasetAgrees ==
  ASSUME IInv, NEW r \in Runs, NEW status \in {"completed", "failed", "cancelled"},
         Ended(r, status), Withdrawn(r) \/ row' = row, dataset' = dataset,
         worker'[r] # "committed", \A s \in Runs : s # r => worker'[s] = worker[s]
  PROVE  DatasetAgrees'
<1> SUFFICES ASSUME NEW s \in Runs
             PROVE  /\ run'[s].status = "unused" => dataset'[s] = None
                    /\ Live(s)' /\ dataset'[s] # None => worker'[s] \in {"committed", "rolled_back"}
                    /\ worker'[s] = "committed" =>
                         dataset'[s] # None /\ Published(run[s].inv)'
  BY DEF DatasetAgrees, Published, Live, Stored
<1>1. CASE s = r
  BY <1>1 DEF Ended, Moved, Live
<1>2. CASE s # r
  <2>1. /\ run'[s].status = run[s].status /\ run'[s].inv = run[s].inv
        /\ worker'[s] = worker[s] /\ dataset'[s] = dataset[s]
    BY <1>2 DEF Ended, Moved
  <2>2. ASSUME worker[s] = "committed" PROVE Published(run[s].inv)'
    <3>1. Published(run[s].inv) /\ run[s].inv \in Investigations
      BY <2>2, LiveRunHasSubject
      DEF IInv, WellFormed, DatasetAgrees, PublisherHoldsClaim, Published
    <3> QED
      BY <2>1, <3>1, WithdrawnKeeps DEF Published, Stored
  <2> QED
    BY <2>1, <2>2 DEF IInv, DatasetAgrees, Live
<1> QED
  BY <1>1, <1>2

\* A step that keeps the status of every run, and the result of every row.
LEMMA KeptDatasetAgrees ==
  ASSUME IInv, dataset' = dataset, worker' = worker,
         \A s \in Runs : run'[s].status = run[s].status /\ run'[s].inv = run[s].inv,
         \A i \in Investigations : Published(i) => Published(i)'
  PROVE  DatasetAgrees'
<1>1. ASSUME NEW s \in Runs, worker[s] = "committed"
      PROVE  dataset[s] # None /\ Published(run[s].inv)'
  <2>1. dataset[s] # None /\ Published(run[s].inv) /\ run[s].inv \in Investigations
    BY <1>1, LiveRunHasSubject
    DEF IInv, WellFormed, DatasetAgrees, PublisherHoldsClaim, Published
  <2>2. run'[s].inv = run[s].inv
    OBVIOUS
  <2> QED
    BY <2>1, <2>2 DEF Published
<1> QED
  BY <1>1 DEF IInv, DatasetAgrees, Live, Published, Stored

LEMMA DatasetAgreesNext == IInv /\ [Next]_vars => DatasetAgrees'
<1> SUFFICES ASSUME IInv, [Next]_vars PROVE DatasetAgrees'
  OBVIOUS
<1>1. CASE UNCHANGED <<row, run, dataset, worker>>
  BY <1>1, KeptDatasetAgrees DEF Published, Stored
<1>2. ASSUME NEW i \in Investigations, NEW a \in Addresses \cup {None},
             CreateInvestigation(i, a) \/ UpdateTarget(i, a)
      PROVE  DatasetAgrees'
  <2>1. \A j \in Investigations : Published(j) => Published(j)'
    BY <1>2 DEF CreateInvestigation, UpdateTarget, IInv, TypeOK, Row, Published, Stored
  <2> QED
    BY <1>2, <2>1, KeptDatasetAgrees DEF CreateInvestigation, UpdateTarget
<1>3. ASSUME NEW q \in Requests, NEW r \in Runs, Start(q, r)
      PROVE  DatasetAgrees'
  <2>1. /\ \A s \in Runs : s # r => run'[s] = run[s] /\ worker'[s] = worker[s]
        /\ worker'[r] = "launched" /\ dataset' = dataset /\ dataset[r] = None
    BY <1>3 DEF Start, IInv, TypeOK, DatasetAgrees
  <2>2. \A j \in Investigations : Published(j) => Published(j)'
    BY <1>3 DEF Start, IInv, TypeOK, Row, Published, Stored
  <2>3. ASSUME NEW s \in Runs, worker'[s] = "committed"
        PROVE  dataset[s] # None /\ Published(run[s].inv)'
    <3>1. s # r /\ worker[s] = "committed"
      BY <2>1, <2>3
    <3>2. dataset[s] # None /\ Published(run[s].inv) /\ run[s].inv \in Investigations
      BY <3>1, LiveRunHasSubject
      DEF IInv, WellFormed, DatasetAgrees, PublisherHoldsClaim, Published
    <3>3. run'[s].inv = run[s].inv
      BY <2>1, <3>1
    <3> QED
      BY <2>2, <3>2, <3>3 DEF Published
  <2> QED
    BY <2>1, <2>3 DEF IInv, DatasetAgrees, Live, Published, Stored
<1>4. ASSUME NEW q \in Requests, RecoverLost(q)
      PROVE  DatasetAgrees'
  <2>1. PICK r \in Runs : Withdrawn(r)
    BY <1>4, RestoreEffect DEF RecoverLost, IInv, WellFormed, RequestsWellFormed
  <2>2. \A j \in Investigations : Published(j) => Published(j)'
    BY <2>1, WithdrawnKeeps DEF Published
  <2> QED
    BY <1>4, <2>2, KeptDatasetAgrees DEF RecoverLost
<1>5. ASSUME NEW q \in Requests, Cancel(q)
      PROVE  DatasetAgrees'
  <2>1. dataset' = dataset /\ worker' = worker
    BY <1>5, CancelEffect
  <2>2. ASSUME NEW r \in Runs, ~run[r].claimed, Ended(r, "cancelled"), Withdrawn(r)
        PROVE  DatasetAgrees'
    <3>1. worker[r] # "committed"
      BY <2>2 DEF IInv, PublisherHoldsClaim
    <3> QED
      BY <2>1, <2>2, <3>1, EndedDatasetAgrees
  <2> QED
    BY <1>1, <1>5, <2>1, <2>2, CancelEffect
<1>6. ASSUME NEW q \in Requests, Delete(q)
      PROVE  DatasetAgrees'
  <2>1. PICK i \in Investigations :
          /\ \/ active[i] = None /\ UNCHANGED <<run, active>>
             \/ /\ active[i] \in Runs /\ Live(active[i]) /\ ~run[active[i]].claimed
                /\ Ended(active[i], "cancelled") /\ run[active[i]].inv = i
          /\ \/ RowDeleted(i)
             \/ UNCHANGED dataset /\ row' = row
             \/ UNCHANGED dataset /\ active[i] # None /\ Withdrawn(active[i])
    BY <1>6, DeleteEffect
  <2>2. worker' = worker
    BY <1>6, DeleteEffect
  <2>3. active[i] \in Runs => worker[active[i]] # "committed" \/ active[i] = None
    BY <2>1 DEF IInv, PublisherHoldsClaim
  <2>4. CASE ~RowDeleted(i)
    <3>1. CASE active[i] = None
      BY <1>1, <2>1, <2>2, <2>4, <3>1, LifecycleAssumption
    <3>2. CASE active[i] # None
      BY <2>1, <2>2, <2>3, <2>4, <3>2, EndedDatasetAgrees DEF IInv, TypeOK
    <3> QED
      BY <3>1, <3>2
  <2>5. CASE RowDeleted(i)
    <3>1. \A s \in Runs : dataset'[s] = IF run[s].inv = i THEN None ELSE dataset[s]
      BY <2>5 DEF RowDeleted
    <3>2. \A s \in Runs : /\ run'[s].inv = run[s].inv
                          /\ \/ run'[s].status = run[s].status
                             \/ ~Live(s)' /\ run'[s].status # "unused"
      BY <2>1 DEF Ended, Moved, Live
    <3>3. ASSUME NEW s \in Runs, worker[s] = "committed"
          PROVE  dataset'[s] # None /\ Published(run[s].inv)'
      <4>1. /\ dataset[s] # None /\ Published(run[s].inv) /\ run[s].inv \in Investigations
            /\ Live(s) /\ run[s].claimed /\ active[run[s].inv] = s
        BY <3>3, LiveRunHasSubject
        DEF IInv, WellFormed, DatasetAgrees, PublisherHoldsClaim, Published, ActiveAgrees
      <4>2. run[s].inv # i
        BY <2>1, <4>1, LifecycleAssumption
      <4>3. row'[run[s].inv] = row[run[s].inv]
        BY <2>5, <4>1, <4>2 DEF RowDeleted, IInv, TypeOK
      <4> QED
        BY <3>1, <3>2, <4>1, <4>2, <4>3 DEF Published, Stored
    <3> QED
      BY <2>2, <3>1, <3>2, <3>3 DEF IInv, DatasetAgrees, Published, Stored, Live
  <2> QED
    BY <2>4, <2>5
<1>7. ASSUME NEW r \in Runs, Begin(r) \/ ClaimPublication(r) \/ Deadline(r)
      PROVE  DatasetAgrees'
  <2>1. /\ dataset' = dataset /\ row' = row
        /\ \A s \in Runs : s # r => run'[s] = run[s] /\ worker'[s] = worker[s]
        /\ run'[r].inv = run[r].inv
    BY <1>7 DEF Begin, ClaimPublication, Deadline, GoTo, IInv, TypeOK, ManagedRun
  <2>2. /\ (run'[r].status = "unused") => run[r].status = "unused"
        /\ Live(r)' => Live(r)
    BY <1>7 DEF Begin, ClaimPublication, Deadline, ContextDone, IInv, TypeOK, ManagedRun, Live
  <2>3. \/ worker' = worker
        \/ worker[r] \in {"launched", "publishing"} /\ worker'[r] # "committed"
    BY <1>7 DEF Begin, ClaimPublication, Deadline, At, GoTo, IInv, TypeOK
  <2>4. \A s \in Runs : worker'[s] = "committed" => Published(run[s].inv)'
    BY <2>1, <2>3 DEF IInv, DatasetAgrees, Published, Stored
  <2> QED
    BY <2>1, <2>2, <2>3, <2>4 DEF IInv, DatasetAgrees, Live, Published, Stored
<1>8. ASSUME NEW r \in Runs, Advance(r) \/ RollBack(r)
      PROVE  DatasetAgrees'
  <2>1. UNCHANGED <<row, dataset, run>> /\ \A s \in Runs : s # r => worker'[s] = worker[s]
    BY <1>8 DEF Advance, RollBack, GoTo, IInv, TypeOK
  <2>2. worker[r] \notin {"committed", "rolled_back"} /\ worker'[r] # "committed"
    BY <1>8 DEF Advance, RollBack, At, GoTo, IInv, TypeOK
  <2> QED
    BY <2>1, <2>2 DEF IInv, DatasetAgrees, Live, Stored
<1>9. ASSUME NEW r \in Runs, StepFails(r) \/ Panic(r)
      PROVE  DatasetAgrees'
  <2>1. /\ dataset' = dataset /\ worker' = [worker EXCEPT ![r] = "done"]
        /\ worker[r] \in {"capturing_cutoff", "collecting", "evaluating", "scoring", "committing"}
    BY <1>9, FailEffect
  <2>2. worker'[r] = "done" /\ \A s \in Runs : s # r => worker'[s] = worker[s]
    BY <2>1 DEF IInv, TypeOK
  <2>3. CASE Ended(r, "failed") /\ Withdrawn(r)
    BY <2>1, <2>2, <2>3, EndedDatasetAgrees
  <2>4. CASE UNCHANGED <<run, row>>
    BY <2>1, <2>2, <2>4 DEF IInv, DatasetAgrees, Live, Stored
  <2> QED
    BY <1>9, <2>3, <2>4, FailEffect
<1>10. ASSUME NEW r \in Runs, Commit(r)
       PROVE  DatasetAgrees'
  <2> DEFINE i == run[r].inv
  <2>1. Live(r) /\ i \in Investigations /\ run' = run
    BY <1>10, LiveRunHasSubject DEF Commit, At, IInv, WellFormed, PublisherHoldsClaim
  <2>2. /\ \A s \in Runs : s # r => worker'[s] = worker[s] /\ dataset'[s] = dataset[s]
        /\ worker'[r] \in {"committed", "rolled_back"} /\ dataset'[r] = run[r].target
    BY <1>10 DEF Commit, GoTo, IInv, TypeOK
  <2>3. dataset'[r] # None
    BY <2>1, <2>2, LifecycleAssumption DEF IInv, RunsWellFormed
  <2>4. Published(i)' /\ \A j \in Investigations : Published(j) => Published(j)'
    <3>1. \A j \in Investigations : j # i => row'[j] = row[j]
      BY <1>10 DEF Commit, IInv, TypeOK
    <3>2. row'[i].status = "completed" /\ row'[i].locked /\ row'[i].current = r
      BY <1>10, <2>1 DEF Commit, IInv, TypeOK, Row
    <3> QED
      BY <2>1, <3>1, <3>2, LifecycleAssumption DEF Published, Stored
  <2>5. ASSUME NEW s \in Runs, worker'[s] = "committed"
        PROVE  dataset'[s] # None /\ Published(run[s].inv)'
    <3>1. CASE s = r
      BY <2>1, <2>3, <2>4, <3>1 DEF Published
    <3>2. CASE s # r
      <4>1. dataset[s] # None /\ Published(run[s].inv) /\ run[s].inv \in Investigations
        BY <2>2, <2>5, <3>2, LiveRunHasSubject
        DEF IInv, WellFormed, DatasetAgrees, PublisherHoldsClaim, Published
      <4>2. run'[s].inv = run[s].inv
        BY <2>1
      <4> QED
        BY <2>2, <2>4, <3>2, <4>1, <4>2 DEF Published
    <3> QED
      BY <3>1, <3>2
  <2> QED
    BY <2>1, <2>2, <2>5 DEF IInv, DatasetAgrees, Live, Published, Stored
<1>11. ASSUME NEW r \in Runs, RecordPublication(r)
       PROVE  DatasetAgrees'
  <2>1. dataset' = dataset /\ worker' = [worker EXCEPT ![r] = "done"]
    BY <1>11, RecordEffect
  <2>2. worker'[r] = "done" /\ \A s \in Runs : s # r => worker'[s] = worker[s]
    BY <2>1 DEF IInv, TypeOK
  <2> QED
    BY <1>11, <2>1, <2>2, RecordEffect, EndedDatasetAgrees
<1>12. CASE Crash
  <2>1. /\ \A s \in Runs : worker'[s] = "none" /\ ~Live(s)'
        /\ \A s \in Runs : run'[s].status = "unused" => run[s].status = "unused"
        /\ dataset' = dataset
    BY <1>12 DEF Crash, UnusedRun, Live
  <2> QED
    BY <2>1 DEF IInv, DatasetAgrees, Live
<1>13. CASE Restart
  <2>1. \A j \in Investigations : Published(j) => Published(j)'
    BY <1>13, ReleasedFields DEF Restart, Reconciled, IInv, TypeOK, Published, Stored
  <2> QED
    BY <1>13, <2>1, KeptDatasetAgrees DEF Restart
<1> QED
  BY <1>1, <1>2, <1>3, <1>4, <1>5, <1>6, <1>7, <1>8, <1>9, <1>10, <1>11, <1>12, <1>13
  DEF Next, WorkerStep, HandlerStep, Arrival, ReadForStart,
      ArriveDelete, ArriveCancel, PollMisses, StartRefused, AwaitPublication, vars

-----------------------------------------------------------------------------
(* Runs, rows and Datasets *)

\* A step of the manager or of a worker keeps the Investigation of every run, and
\* a row that exists goes on existing.
LEMMA SubjectExistsNext == IInv /\ [Next]_vars => SubjectExists'
<1> SUFFICES ASSUME IInv, [Next]_vars PROVE SubjectExists'
  OBVIOUS
<1>0. /\ \A s \in Runs : run[s].inv # None =>
           run[s].inv \in Investigations /\ row[run[s].inv].status # "absent"
  BY DEF IInv, TypeOK, ManagedRun, SubjectExists
<1>1. ASSUME \A s \in Runs : run'[s].inv = run[s].inv,
             \A i \in Investigations : row[i].status # "absent" => row'[i].status # "absent"
      PROVE  SubjectExists'
  BY <1>0, <1>1 DEF SubjectExists
<1>2. ASSUME NEW r \in Runs, Withdrawn(r), NEW i \in Investigations
      PROVE  row[i].status # "absent" => row'[i].status # "absent"
  BY <1>2, WithdrawnKeeps DEF Stored, IInv, TypeOK, Row
<1>3. ASSUME NEW i \in Investigations, NEW a \in Addresses \cup {None},
             CreateInvestigation(i, a) \/ UpdateTarget(i, a)
      PROVE  SubjectExists'
  BY <1>1, <1>3 DEF CreateInvestigation, UpdateTarget, IInv, TypeOK, Row
<1>4. ASSUME NEW q \in Requests, NEW r \in Runs, Start(q, r)
      PROVE  SubjectExists'
  <2> DEFINE i == request[q].inv
  <2>1. i \in Investigations /\ run'[r].inv = i /\ \A s \in Runs : s # r => run'[s] = run[s]
    BY <1>4 DEF Start, IInv, TypeOK, ManagedRun, RequestsWellFormed
  <2>2. /\ row'[i].status = "analyzing"
        /\ \A j \in Investigations : j # i => row'[j] = row[j]
    BY <1>4, <2>1 DEF Start, IInv, TypeOK, Row
  <2> QED
    BY <1>0, <2>1, <2>2 DEF SubjectExists
<1>5. ASSUME NEW q \in Requests, RecoverLost(q)
      PROVE  SubjectExists'
  <2>1. PICK r \in Runs : Withdrawn(r)
    BY <1>5, RestoreEffect DEF RecoverLost, IInv, WellFormed, RequestsWellFormed
  <2> QED
    BY <1>1, <1>2, <1>5, <2>1 DEF RecoverLost
<1>6. ASSUME NEW q \in Requests, Cancel(q)
      PROVE  SubjectExists'
  BY <1>1, <1>2, <1>6, CancelEffect DEF Ended, Moved
<1>7. ASSUME NEW q \in Requests, Delete(q)
      PROVE  SubjectExists'
  <2>1. \A s \in Runs : run'[s].inv = run[s].inv
    BY <1>7, DeleteEffect DEF Ended, Moved
  <2>2. ASSUME NEW j \in Investigations, RowDeleted(j), NEW i \in Investigations
        PROVE  row[i].status # "absent" => row'[i].status # "absent"
    BY <2>2 DEF RowDeleted, NoRow, IInv, TypeOK
  <2>3. ASSUME NEW i \in Investigations, row[i].status # "absent"
        PROVE  row'[i].status # "absent"
    BY <1>2, <1>7, <2>2, <2>3, DeleteEffect DEF IInv, TypeOK
  <2> QED
    BY <1>1, <2>1, <2>3
<1>8. ASSUME NEW r \in Runs, Begin(r) \/ ClaimPublication(r) \/ Deadline(r)
      PROVE  SubjectExists'
  <2>1. row' = row /\ \A s \in Runs : run'[s].inv = run[s].inv
    BY <1>8 DEF Begin, ClaimPublication, Deadline, IInv, TypeOK, ManagedRun
  <2> QED
    BY <1>1, <2>1
<1>9. ASSUME NEW r \in Runs, Advance(r) \/ RollBack(r)
      PROVE  SubjectExists'
  BY <1>1, <1>9 DEF Advance, RollBack
<1>10. ASSUME NEW r \in Runs, StepFails(r) \/ Panic(r)
       PROVE  SubjectExists'
  BY <1>1, <1>2, <1>10, FailEffect DEF Ended, Moved
<1>11. ASSUME NEW r \in Runs, Commit(r)
       PROVE  SubjectExists'
  BY <1>1, <1>11 DEF Commit, IInv, TypeOK, Row
<1>12. ASSUME NEW r \in Runs, RecordPublication(r)
       PROVE  SubjectExists'
  BY <1>1, <1>2, <1>12, RecordEffect DEF Ended, Moved
<1>13. CASE Crash
  BY <1>0, <1>13 DEF Crash, UnusedRun, SubjectExists
<1>14. CASE Restart
  BY <1>1, <1>14, ReleasedFields DEF Restart, Reconciled, IInv, TypeOK
<1>15. CASE UNCHANGED <<row, run>>
  BY <1>1, <1>15
<1> QED
  BY <1>3, <1>4, <1>5, <1>6, <1>7, <1>8, <1>9, <1>10, <1>11, <1>12, <1>13, <1>14, <1>15
  DEF Next, WorkerStep, HandlerStep, Arrival, ReadForStart,
      ArriveDelete, ArriveCancel, PollMisses, StartRefused, AwaitPublication, vars

\* What a step may do to a run: leave its outcome alone, or settle it.
Settled(s) ==
  \/ run'[s].status \notin {"cancelled", "completed"}
  \/ run'[s].status = run[s].status /\ run'[s].inv = run[s].inv /\ dataset'[s] = dataset[s]
  \/ run'[s].status = "cancelled" /\ dataset'[s] = None
  \/ /\ run'[s].status = "completed"
     /\ Stored(run[s].inv)' => dataset'[s] # None /\ Published(run[s].inv)'

\* What a step may do to a row that exists: keep its result, or remove the row.
ResultKept(i) ==
  row[i].status # "absent" /\ Stored(i)' => Stored(i) /\ (Published(i) => Published(i)')

LEMMA SettledOneTerminalWinner ==
  ASSUME IInv, \A s \in Runs : Settled(s), \A i \in Investigations : ResultKept(i)
  PROVE  OneTerminalWinner'
<1> SUFFICES ASSUME NEW s \in Runs
             PROVE  /\ run'[s].status = "cancelled" => dataset'[s] = None
                    /\ run'[s].status = "completed" /\ Stored(run[s].inv)' =>
                         dataset'[s] # None /\ Published(run[s].inv)'
  BY DEF OneTerminalWinner, Published, Stored
<1>1. CASE /\ run'[s].status = run[s].status /\ run'[s].inv = run[s].inv
           /\ dataset'[s] = dataset[s]
  <2>1. CASE run'[s].status = "cancelled"
    BY <1>1, <2>1 DEF IInv, OneTerminalWinner
  <2>2. CASE run'[s].status = "completed" /\ Stored(run[s].inv)'
    <3>1. run[s].inv \in Investigations /\ row[run[s].inv].status # "absent"
      BY <1>1, <2>2 DEF IInv, TypeOK, ManagedRun, RunsWellFormed, SubjectExists
    <3>2. Stored(run[s].inv) /\ (Published(run[s].inv) => Published(run[s].inv)')
      BY <1>1, <2>2, <3>1 DEF ResultKept, Published, Stored
    <3> QED
      BY <1>1, <2>2, <3>2 DEF IInv, OneTerminalWinner, Published, Stored
  <2> QED
    BY <2>1, <2>2
<1>2. CASE ~(/\ run'[s].status = run[s].status /\ run'[s].inv = run[s].inv
             /\ dataset'[s] = dataset[s])
  BY <1>2 DEF Settled
<1> QED
  BY <1>1, <1>2

LEMMA WithdrawnKeepsResult ==
  ASSUME IInv, NEW r \in Runs, Withdrawn(r) \/ row' = row
  PROVE  \A i \in Investigations : ResultKept(i)
BY WithdrawnKeeps DEF ResultKept, Published, Stored

LEMMA OneTerminalWinnerNext == IInv /\ [Next]_vars => OneTerminalWinner'
<1> SUFFICES ASSUME IInv, [Next]_vars PROVE OneTerminalWinner'
  OBVIOUS
<1>1. ASSUME UNCHANGED <<run, dataset>> PROVE \A s \in Runs : Settled(s)
  BY <1>1 DEF Settled
<1>2. ASSUME row' = row PROVE \A i \in Investigations : ResultKept(i)
  BY <1>2 DEF ResultKept, Published, Stored
<1>3. CASE UNCHANGED <<run, dataset, row>>
  BY <1>1, <1>2, <1>3, SettledOneTerminalWinner
<1>4. ASSUME NEW i \in Investigations, NEW a \in Addresses \cup {None},
             CreateInvestigation(i, a) \/ UpdateTarget(i, a)
      PROVE  OneTerminalWinner'
  <2>1. \A j \in Investigations : ResultKept(j)
    BY <1>4 DEF CreateInvestigation, UpdateTarget, IInv, TypeOK, Row,
                ResultKept, Published, Stored
  <2> QED
    BY <1>1, <1>4, <2>1, SettledOneTerminalWinner DEF CreateInvestigation, UpdateTarget
<1>5. ASSUME NEW q \in Requests, NEW r \in Runs, Start(q, r)
      PROVE  OneTerminalWinner'
  <2>1. run'[r].status = "queued" /\ \A s \in Runs : s # r => run'[s] = run[s]
    BY <1>5 DEF Start, IInv, TypeOK, ManagedRun
  <2>2. \A j \in Investigations : ResultKept(j)
    BY <1>5 DEF Start, IInv, TypeOK, Row, ResultKept, Published, Stored
  <2>3. \A s \in Runs : Settled(s)
    BY <1>5, <2>1 DEF Start, Settled
  <2> QED
    BY <2>2, <2>3, SettledOneTerminalWinner
<1>6. ASSUME NEW q \in Requests, RecoverLost(q)
      PROVE  OneTerminalWinner'
  <2>1. PICK r \in Runs : Withdrawn(r)
    BY <1>6, RestoreEffect DEF RecoverLost, IInv, WellFormed, RequestsWellFormed
  <2> QED
    BY <1>1, <1>6, <2>1, WithdrawnKeepsResult, SettledOneTerminalWinner DEF RecoverLost
<1>7. ASSUME NEW q \in Requests, Cancel(q)
      PROVE  OneTerminalWinner'
  <2>1. dataset' = dataset
    BY <1>7, CancelEffect
  <2>2. ASSUME NEW r \in Runs, Live(r), ~run[r].claimed, Ended(r, "cancelled"), Withdrawn(r)
        PROVE  OneTerminalWinner'
    <3>1. dataset[r] = None
      BY <2>2 DEF IInv, PublisherHoldsClaim, DatasetAgrees
    <3>2. \A s \in Runs : Settled(s)
      BY <2>1, <2>2, <3>1 DEF Ended, Moved, Settled
    <3> QED
      BY <2>2, <3>2, WithdrawnKeepsResult, SettledOneTerminalWinner
  <2> QED
    BY <1>3, <1>7, <2>1, <2>2, CancelEffect
<1>8. ASSUME NEW q \in Requests, Delete(q)
      PROVE  OneTerminalWinner'
  <2>1. PICK i \in Investigations :
          /\ \/ active[i] = None /\ UNCHANGED <<run, active>>
             \/ /\ active[i] \in Runs /\ Live(active[i]) /\ ~run[active[i]].claimed
                /\ Ended(active[i], "cancelled") /\ run[active[i]].inv = i
          /\ \/ RowDeleted(i)
             \/ UNCHANGED dataset /\ row' = row
             \/ UNCHANGED dataset /\ active[i] # None /\ Withdrawn(active[i])
    BY <1>8, DeleteEffect
  <2>2. active[i] \in Runs /\ Live(active[i]) /\ ~run[active[i]].claimed => dataset[active[i]] = None
    BY DEF IInv, PublisherHoldsClaim, DatasetAgrees
  <2>3. CASE ~RowDeleted(i)
    <3>1. \A s \in Runs : Settled(s)
      BY <2>1, <2>2, <2>3 DEF Ended, Moved, Settled
    <3>2. \A j \in Investigations : ResultKept(j)
      BY <1>2, <2>1, <2>3, WithdrawnKeepsResult, LifecycleAssumption
    <3> QED
      BY <3>1, <3>2, SettledOneTerminalWinner
  <2>4. CASE RowDeleted(i)
    <3>1. /\ \A s \in Runs : dataset'[s] = IF run[s].inv = i THEN None ELSE dataset[s]
          /\ \A j \in Investigations : j # i => row'[j] = row[j]
          /\ row[i].status # "absent" => row'[i].status = "deleted"
      BY <2>4 DEF RowDeleted, NoRow, IInv, TypeOK
    <3>2. \A j \in Investigations : ResultKept(j)
      BY <3>1 DEF ResultKept, Published, Stored
    <3>3. \A s \in Runs : /\ run'[s].inv = run[s].inv
                          /\ \/ run'[s].status = run[s].status
                             \/ run'[s].status = "cancelled" /\ dataset'[s] = None
      BY <2>1, <2>2, <3>1 DEF Ended, Moved
    <3>4. ASSUME NEW s \in Runs
          PROVE  Settled(s)
      <4>1. CASE run[s].inv # i
        BY <3>1, <3>3, <4>1 DEF Settled
      <4>2. CASE run[s].inv = i
        <5>1. dataset'[s] = None /\ ~Stored(run[s].inv)'
          BY <3>1, <3>3, <4>2, LifecycleAssumption DEF IInv, SubjectExists, Stored
        <5> QED
          BY <5>1 DEF Settled
      <4> QED
        BY <4>1, <4>2
    <3> QED
      BY <3>2, <3>4, SettledOneTerminalWinner
  <2> QED
    BY <2>3, <2>4
<1>9. ASSUME NEW r \in Runs, Begin(r) \/ ClaimPublication(r) \/ Deadline(r)
      PROVE  OneTerminalWinner'
  <2>1. /\ dataset' = dataset /\ row' = row
        /\ \A s \in Runs : s # r => run'[s] = run[s]
        /\ run'[r].inv = run[r].inv /\ run'[r].status \in {run[r].status, "running"}
    BY <1>9 DEF Begin, ClaimPublication, Deadline, IInv, TypeOK, ManagedRun
  <2>2. \A s \in Runs : Settled(s)
    BY <2>1 DEF Settled
  <2> QED
    BY <1>2, <2>1, <2>2, SettledOneTerminalWinner
<1>10. ASSUME NEW r \in Runs, StepFails(r) \/ Panic(r)
       PROVE  OneTerminalWinner'
  <2>1. dataset' = dataset
    BY <1>10, FailEffect
  <2>2. ASSUME Ended(r, "failed"), Withdrawn(r)
        PROVE  OneTerminalWinner'
    <3>1. \A s \in Runs : Settled(s)
      BY <2>1, <2>2 DEF Ended, Moved, Settled
    <3> QED
      BY <2>2, <3>1, WithdrawnKeepsResult, SettledOneTerminalWinner
  <2> QED
    BY <1>3, <1>10, <2>1, <2>2, FailEffect
<1>11. ASSUME NEW r \in Runs, Commit(r)
       PROVE  OneTerminalWinner'
  <2> DEFINE i == run[r].inv
  <2>1. Live(r) /\ i \in Investigations /\ run' = run
    BY <1>11, LiveRunHasSubject DEF Commit, At, IInv, WellFormed, PublisherHoldsClaim
  <2>2. \A s \in Runs : Settled(s)
    BY <1>11, <2>1 DEF Commit, IInv, TypeOK, Settled, Live
  <2>3. /\ \A j \in Investigations : j # i => row'[j] = row[j]
        /\ row[i].status = "analyzing"
        /\ row'[i].status = "completed" /\ row'[i].locked /\ row'[i].current = r
    BY <1>11, <2>1 DEF Commit, Publishable, IInv, TypeOK, Row
  <2>4. \A j \in Investigations : ResultKept(j)
    BY <2>3, LifecycleAssumption DEF ResultKept, Published, Stored
  <2> QED
    BY <2>2, <2>4, SettledOneTerminalWinner
<1>12. ASSUME NEW r \in Runs, RecordPublication(r)
       PROVE  OneTerminalWinner'
  <2>1. dataset' = dataset
    BY <1>12, RecordEffect
  <2>2. CASE Ended(r, "failed") /\ Withdrawn(r)
    <3>1. \A s \in Runs : Settled(s)
      BY <2>1, <2>2 DEF Ended, Moved, Settled
    <3> QED
      BY <2>2, <3>1, WithdrawnKeepsResult, SettledOneTerminalWinner
  <2>3. CASE worker[r] = "committed" /\ Ended(r, "completed") /\ row' = row
    <3>1. dataset[r] # None /\ Published(run[r].inv)
      BY <2>3 DEF IInv, DatasetAgrees, Published
    <3>2. run'[r].inv = run[r].inv
      BY <2>3 DEF Ended, Moved
    <3>3. Settled(r)
      BY <2>1, <2>3, <3>1, <3>2 DEF Ended, Moved, Settled, Published, Stored
    <3>4. \A s \in Runs : Settled(s)
      BY <2>1, <2>3, <3>3 DEF Ended, Moved, Settled
    <3> QED
      BY <1>2, <2>3, <3>4, SettledOneTerminalWinner
  <2> QED
    BY <1>12, <2>2, <2>3, RecordEffect
<1>13. CASE Crash
  <2>1. \A s \in Runs : run'[s].status \in {"unused", "lost"}
    BY <1>13 DEF Crash, UnusedRun
  <2> QED
    BY <2>1 DEF OneTerminalWinner
<1>14. CASE Restart
  <2>1. \A i \in Investigations : ResultKept(i)
    BY <1>14, ReleasedFields
    DEF Restart, Reconciled, IInv, TypeOK, ResultKept, Published, Stored
  <2> QED
    BY <1>1, <1>14, <2>1, SettledOneTerminalWinner DEF Restart
<1>15. ASSUME NEW r \in Runs, Advance(r) \/ RollBack(r)
       PROVE  OneTerminalWinner'
  BY <1>3, <1>15 DEF Advance, RollBack
<1> QED
  BY <1>3, <1>4, <1>5, <1>6, <1>7, <1>8, <1>9, <1>10, <1>11, <1>12, <1>13, <1>14, <1>15
  DEF Next, WorkerStep, HandlerStep, Arrival, ReadForStart,
      ArriveDelete, ArriveCancel, PollMisses, StartRefused, AwaitPublication, vars

\* The conditions a row satisfies on its own, and those it shares with its result.
RowAlone(i) ==
  /\ row[i].status = "analyzing" <=> row[i].active # None
  /\ row[i].status = "completed" => row[i].current # None
  /\ row[i].status = "pending" => row[i].current = None
  /\ row[i].locked <=> row[i].current # None

ResultOf(i) ==
  row[i].current # None => run[row[i].current].inv = i /\ dataset[row[i].current] # None

LEMMA RowConsistentParts ==
  RowConsistent <=> \A i \in Investigations : RowAlone(i) /\ ResultOf(i)
BY DEF RowConsistent, RowAlone, ResultOf

\* The result of a row that keeps it is still there, if the run keeps its
\* Investigation and its Dataset.
LEMMA KeptResultOf ==
  ASSUME IInv, NEW i \in Investigations, row'[i].current = row[i].current,
         \A s \in Runs : run[s].inv = i => run'[s].inv = i,
         \A s \in Runs : run[s].inv = i /\ dataset[s] # None => dataset'[s] # None
  PROVE  ResultOf(i)'
<1>1. ResultOf(i) /\ row[i].current \in Runs \cup {None}
  BY DEF IInv, RowConsistent, ResultOf, TypeOK, Row
<1> QED
  BY <1>1 DEF ResultOf

\* Releasing rows, while every run keeps its Investigation and its Dataset.
LEMMA ReleaseKeepsRowConsistent ==
  ASSUME IInv, dataset' = dataset, \A s \in Runs : run'[s].inv = run[s].inv,
         \A i \in Investigations : row'[i] = row[i] \/ row'[i] = Released(row[i]),
         \A i \in Investigations : row'[i] # row[i] => row[i].status = "analyzing"
  PROVE  RowConsistent'
<1> SUFFICES ASSUME NEW i \in Investigations
             PROVE  (RowAlone(i) /\ ResultOf(i))'
  BY DEF RowConsistent, RowAlone, ResultOf
<1>1. row[i] \in Row /\ RowAlone(i)
  BY DEF IInv, TypeOK, RowConsistent, RowAlone
<1>2. RowAlone(i)' /\ row'[i].current = row[i].current
  BY <1>1, ReleasedFields DEF RowAlone
<1>3. ResultOf(i)'
  BY <1>2, KeptResultOf
<1> QED
  BY <1>2, <1>3

LEMMA WithdrawnRowConsistent ==
  ASSUME IInv, NEW r \in Runs, Withdrawn(r) \/ row' = row, dataset' = dataset,
         \A s \in Runs : run'[s].inv = run[s].inv
  PROVE  RowConsistent'
<1>1. \A i \in Investigations : row'[i] = row[i] \/ row'[i] = Released(row[i])
  BY DEF Withdrawn
<1>2. \A i \in Investigations : row[i].active = r => row[i].status = "analyzing"
  BY LifecycleAssumption DEF IInv, RowConsistent
<1>3. \A i \in Investigations : row'[i] # row[i] => row[i].status = "analyzing"
  BY <1>2 DEF Withdrawn
<1> QED
  BY <1>1, <1>3, ReleaseKeepsRowConsistent

\* No run is of an Investigation that was never created: it has no result.
LEMMA AbsentHasNoResult ==
  ASSUME IInv, NEW i \in Investigations, row[i].status = "absent"
  PROVE  row[i].current = None
<1> SUFFICES ASSUME row[i].current # None PROVE FALSE
  OBVIOUS
<1>1. row[i].current \in Runs
  BY DEF IInv, TypeOK, Row
<1>2. run[row[i].current].inv = i
  BY DEF IInv, RowConsistent
<1> QED
  BY <1>1, <1>2, LifecycleAssumption DEF IInv, SubjectExists

LEMMA RowConsistentNext == IInv /\ [Next]_vars => RowConsistent'
<1> SUFFICES ASSUME IInv, [Next]_vars PROVE RowConsistent'
  OBVIOUS
<1>0. \A i \in Investigations : RowAlone(i) /\ ResultOf(i)
  BY DEF IInv, RowConsistent, RowAlone, ResultOf
<1>1. ASSUME \A i \in Investigations : (RowAlone(i) /\ ResultOf(i))'
      PROVE  RowConsistent'
  BY <1>1 DEF RowConsistent, RowAlone, ResultOf
<1>2. ASSUME UNCHANGED <<row, dataset>>, \A s \in Runs : run'[s].inv = run[s].inv
      PROVE  RowConsistent'
  <2>1. \A i \in Investigations : ResultOf(i)'
    BY <1>2, KeptResultOf
  <2> QED
    BY <1>0, <1>1, <1>2, <2>1 DEF RowAlone
<1>3. CASE UNCHANGED <<row, dataset, run>>
  BY <1>2, <1>3
<1>4. ASSUME NEW i \in Investigations, NEW a \in Addresses \cup {None},
             CreateInvestigation(i, a) \/ UpdateTarget(i, a)
      PROVE  RowConsistent'
  <2>1. UNCHANGED <<dataset, run>>
    BY <1>4 DEF CreateInvestigation, UpdateTarget
  <2>2. row[i].status = "absent" => row[i].current = None
    BY AbsentHasNoResult
  <2>3. \A j \in Investigations : RowAlone(j)' /\ row'[j].current = row[j].current
    BY <1>0, <1>4, <2>2 DEF CreateInvestigation, UpdateTarget, IInv, TypeOK, Row, RowAlone
  <2>4. \A j \in Investigations : ResultOf(j)'
    BY <2>1, <2>3, KeptResultOf
  <2> QED
    BY <1>1, <2>3, <2>4
<1>5. ASSUME NEW q \in Requests, NEW r \in Runs, Start(q, r)
      PROVE  RowConsistent'
  <2> DEFINE i == request[q].inv
  <2>1. /\ i \in Investigations /\ dataset' = dataset
        /\ \A s \in Runs : run[s].inv \in Investigations => run'[s] = run[s]
    BY <1>5, LifecycleAssumption DEF Start, IInv, TypeOK, RequestsWellFormed, RunsWellFormed
  <2>2. /\ \A j \in Investigations : j # i => row'[j] = row[j]
        /\ row[i].status \in {"pending", "analyzing", "completed"} /\ row[i].active = None
        /\ row'[i].status = "analyzing" /\ row'[i].active = r
        /\ row'[i].locked = row[i].locked /\ row'[i].current = row[i].current
    BY <1>5, <2>1 DEF Start, Stored, IInv, TypeOK, Row
  <2>3. \A j \in Investigations : RowAlone(j)' /\ row'[j].current = row[j].current
    BY <1>0, <2>2, LifecycleAssumption DEF RowAlone
  <2>4. \A j \in Investigations : ResultOf(j)'
    BY <2>1, <2>3, KeptResultOf
  <2> QED
    BY <1>1, <2>3, <2>4
<1>6. ASSUME NEW q \in Requests, RecoverLost(q)
      PROVE  RowConsistent'
  <2>1. PICK r \in Runs : Withdrawn(r)
    BY <1>6, RestoreEffect DEF RecoverLost, IInv, WellFormed, RequestsWellFormed
  <2> QED
    BY <1>6, <2>1, WithdrawnRowConsistent DEF RecoverLost
<1>7. ASSUME NEW q \in Requests, Cancel(q)
      PROVE  RowConsistent'
  BY <1>3, <1>7, CancelEffect, WithdrawnRowConsistent DEF Ended, Moved
<1>8. ASSUME NEW q \in Requests, Delete(q)
      PROVE  RowConsistent'
  <2>1. PICK i \in Investigations :
          /\ \/ active[i] = None /\ UNCHANGED <<run, active>>
             \/ /\ active[i] \in Runs /\ Live(active[i]) /\ ~run[active[i]].claimed
                /\ Ended(active[i], "cancelled") /\ run[active[i]].inv = i
          /\ \/ RowDeleted(i)
             \/ UNCHANGED dataset /\ row' = row
             \/ UNCHANGED dataset /\ active[i] # None /\ Withdrawn(active[i])
    BY <1>8, DeleteEffect
  <2>2. \A s \in Runs : run'[s].inv = run[s].inv
    BY <2>1 DEF Ended, Moved
  <2>3. CASE RowDeleted(i)
    <3>1. /\ \A s \in Runs : run[s].inv # i => dataset'[s] = dataset[s]
          /\ \A j \in Investigations : j # i => row'[j] = row[j]
      BY <2>3 DEF RowDeleted, IInv, TypeOK
    <3>2. CASE row[i].status = "absent"
      <4>1. row'[i] = row[i] /\ row[i].current = None
        BY <2>3, <3>2, AbsentHasNoResult DEF RowDeleted, IInv, TypeOK
      <4>2. \A j \in Investigations : j # i => ResultOf(j)'
        BY <2>2, <3>1, KeptResultOf
      <4> QED
        BY <1>0, <1>1, <3>1, <4>1, <4>2 DEF RowAlone, ResultOf
    <3>3. CASE row[i].status # "absent"
      <4>1. /\ row'[i].status = "deleted" /\ row'[i].active = None
            /\ row'[i].locked = FALSE /\ row'[i].current = None
        BY <2>3, <3>3 DEF RowDeleted, NoRow, IInv, TypeOK
      <4>2. \A j \in Investigations : j # i => ResultOf(j)'
        BY <2>2, <3>1, KeptResultOf
      <4> QED
        BY <1>0, <1>1, <3>1, <4>1, <4>2 DEF RowAlone, ResultOf
    <3> QED
      BY <3>2, <3>3
  <2>4. CASE ~RowDeleted(i)
    BY <1>2, <2>1, <2>2, <2>4, WithdrawnRowConsistent, LifecycleAssumption
  <2> QED
    BY <2>3, <2>4
<1>9. ASSUME NEW r \in Runs, Begin(r) \/ ClaimPublication(r) \/ Deadline(r)
      PROVE  RowConsistent'
  <2>1. /\ UNCHANGED <<row, dataset>> /\ run'[r].inv = run[r].inv
        /\ \A s \in Runs : s # r => run'[s] = run[s]
    BY <1>9 DEF Begin, ClaimPublication, Deadline, IInv, TypeOK, ManagedRun
  <2>2. \A s \in Runs : run'[s].inv = run[s].inv
    BY <2>1
  <2> QED
    BY <1>2, <2>1, <2>2
<1>10. ASSUME NEW r \in Runs, StepFails(r) \/ Panic(r)
       PROVE  RowConsistent'
  BY <1>3, <1>10, FailEffect, WithdrawnRowConsistent DEF Ended, Moved
<1>11. ASSUME NEW r \in Runs, Commit(r)
       PROVE  RowConsistent'
  <2> DEFINE i == run[r].inv
  <2>1. Live(r) /\ i \in Investigations /\ run' = run
    BY <1>11, LiveRunHasSubject DEF Commit, At, IInv, WellFormed, PublisherHoldsClaim
  <2>2. /\ \A s \in Runs : s # r => dataset'[s] = dataset[s]
        /\ dataset'[r] = run[r].target
    BY <1>11 DEF Commit, IInv, TypeOK
  <2>3. dataset'[r] # None
    BY <2>1, <2>2, LifecycleAssumption DEF IInv, RunsWellFormed
  <2>4. /\ \A j \in Investigations : j # i => row'[j] = row[j]
        /\ row'[i].status = "completed" /\ row'[i].active = None
        /\ row'[i].locked /\ row'[i].current = r
    BY <1>11, <2>1 DEF Commit, IInv, TypeOK, Row
  <2>5. ASSUME NEW j \in Investigations, j = i
        PROVE  RowAlone(j)' /\ ResultOf(j)'
    BY <2>1, <2>3, <2>4, <2>5, LifecycleAssumption DEF RowAlone, ResultOf
  <2>6. ASSUME NEW j \in Investigations, j # i
        PROVE  RowAlone(j)' /\ ResultOf(j)'
    <3>1. ResultOf(j)'
      BY <2>1, <2>2, <2>3, <2>4, <2>6, KeptResultOf
    <3> QED
      BY <1>0, <2>4, <2>6, <3>1 DEF RowAlone
  <2> QED
    BY <1>1, <2>5, <2>6
<1>12. ASSUME NEW r \in Runs, RecordPublication(r)
       PROVE  RowConsistent'
  BY <1>12, RecordEffect, WithdrawnRowConsistent DEF Ended, Moved
<1>13. CASE Crash
  <2>1. UNCHANGED <<row, dataset>> /\ \A s \in Runs : run'[s].inv = run[s].inv
    BY <1>13 DEF Crash, UnusedRun, IInv, RunsWellFormed
  <2> QED
    BY <1>2, <2>1
<1>14. CASE Restart
  <2>1. UNCHANGED <<run, dataset>>
    BY <1>14 DEF Restart
  <2>2. \A i \in Investigations : row'[i] = row[i] \/ row'[i] = Released(row[i])
    BY <1>14 DEF Restart, Reconciled
  <2>3. \A i \in Investigations : row'[i] # row[i] => row[i].status = "analyzing"
    BY <1>14 DEF Restart, Reconciled
  <2> QED
    BY <2>1, <2>2, <2>3, ReleaseKeepsRowConsistent
<1>15. ASSUME NEW r \in Runs, Advance(r) \/ RollBack(r)
       PROVE  RowConsistent'
  BY <1>3, <1>15 DEF Advance, RollBack
<1> QED
  BY <1>3, <1>4, <1>5, <1>6, <1>7, <1>8, <1>9, <1>10, <1>11, <1>12, <1>13, <1>14, <1>15
  DEF Next, WorkerStep, HandlerStep, Arrival, ReadForStart,
      ArriveDelete, ArriveCancel, PollMisses, StartRefused, AwaitPublication, vars

\* A run that belongs to a deleted Investigation.
Orphan(r) == run[r].inv # None /\ row[run[r].inv].status = "deleted"

\* A step that deletes no row, makes no run live and gives none a Dataset, unless
\* its Investigation is still stored.
LEMMA KeptNoOrphan ==
  ASSUME IInv,
         \A s \in Runs : Orphan(s)' => /\ Orphan(s) /\ dataset'[s] = dataset[s]
                                       /\ (Live(s)' => Live(s))
  PROVE  NoOrphanDataset'
BY DEF IInv, NoOrphanDataset, Orphan, Live

LEMMA WithdrawnNoOrphan ==
  ASSUME IInv, NEW r \in Runs, Withdrawn(r) \/ row' = row, dataset' = dataset,
         \A s \in Runs : run'[s].inv = run[s].inv /\ (Live(s)' => Live(s))
  PROVE  NoOrphanDataset'
<1>1. \A i \in Investigations : row'[i].status = "deleted" => row[i].status = "deleted"
  BY WithdrawnKeeps
<1>2. \A s \in Runs : Orphan(s)' => Orphan(s)
  BY <1>1 DEF Orphan, IInv, TypeOK, ManagedRun
<1> QED
  BY <1>2, KeptNoOrphan

LEMMA NoOrphanDatasetNext == IInv /\ [Next]_vars => NoOrphanDataset'
<1> SUFFICES ASSUME IInv, [Next]_vars PROVE NoOrphanDataset'
  OBVIOUS
<1>1. CASE UNCHANGED <<row, dataset, run>>
  BY <1>1, KeptNoOrphan DEF Orphan, Live
<1>2. ASSUME NEW i \in Investigations, NEW a \in Addresses \cup {None},
             CreateInvestigation(i, a) \/ UpdateTarget(i, a)
      PROVE  NoOrphanDataset'
  <2>1. \A j \in Investigations : row'[j].status = "deleted" => row[j].status = "deleted"
    BY <1>2 DEF CreateInvestigation, UpdateTarget, IInv, TypeOK, Row
  <2>2. UNCHANGED <<dataset, run>>
    BY <1>2 DEF CreateInvestigation, UpdateTarget
  <2> QED
    BY <2>1, <2>2, KeptNoOrphan DEF Orphan, Live, IInv, TypeOK, ManagedRun
<1>3. ASSUME NEW q \in Requests, NEW r \in Runs, Start(q, r)
      PROVE  NoOrphanDataset'
  <2> DEFINE i == request[q].inv
  <2>1. /\ i \in Investigations /\ dataset' = dataset /\ run'[r].inv = i
        /\ \A s \in Runs : s # r => run'[s] = run[s]
    BY <1>3 DEF Start, IInv, TypeOK, ManagedRun, RequestsWellFormed
  <2>2. /\ row'[i].status = "analyzing"
        /\ \A j \in Investigations : j # i => row'[j] = row[j]
    BY <1>3, <2>1 DEF Start, IInv, TypeOK, Row
  <2>3. ~Orphan(r)'
    BY <2>1, <2>2 DEF Orphan
  <2>4. \A s \in Runs : s # r /\ Orphan(s)' => Orphan(s)
    BY <2>1, <2>2 DEF Orphan, IInv, TypeOK, ManagedRun
  <2> QED
    BY <2>1, <2>3, <2>4, KeptNoOrphan DEF Live
<1>4. ASSUME NEW q \in Requests, RecoverLost(q)
      PROVE  NoOrphanDataset'
  <2>1. PICK r \in Runs : Withdrawn(r)
    BY <1>4, RestoreEffect DEF RecoverLost, IInv, WellFormed, RequestsWellFormed
  <2> QED
    BY <1>4, <2>1, WithdrawnNoOrphan DEF RecoverLost, Live
<1>5. ASSUME NEW q \in Requests, Cancel(q)
      PROVE  NoOrphanDataset'
  BY <1>1, <1>5, CancelEffect, WithdrawnNoOrphan DEF Ended, Moved, Live
<1>6. ASSUME NEW q \in Requests, Delete(q)
      PROVE  NoOrphanDataset'
  <2>1. PICK i \in Investigations :
          /\ \/ active[i] = None /\ UNCHANGED <<run, active>>
             \/ /\ active[i] \in Runs /\ Live(active[i]) /\ ~run[active[i]].claimed
                /\ Ended(active[i], "cancelled") /\ run[active[i]].inv = i
          /\ \/ RowDeleted(i)
             \/ UNCHANGED dataset /\ row' = row
             \/ UNCHANGED dataset /\ active[i] # None /\ Withdrawn(active[i])
    BY <1>6, DeleteEffect
  <2>2. \A s \in Runs : run'[s].inv = run[s].inv /\ (Live(s)' => Live(s))
    BY <2>1 DEF Ended, Moved, Live
  <2>3. CASE RowDeleted(i)
    <3>1. /\ \A s \in Runs : dataset'[s] = IF run[s].inv = i THEN None ELSE dataset[s]
          /\ \A j \in Investigations : j # i => row'[j] = row[j]
      BY <2>3 DEF RowDeleted, IInv, TypeOK
    <3>2. ASSUME NEW s \in Runs, Orphan(s)'
          PROVE  dataset'[s] = None /\ ~Live(s)'
      <4>1. run'[s].inv = run[s].inv /\ run[s].inv \in Investigations
        BY <2>2, <3>2 DEF Orphan, IInv, TypeOK, ManagedRun
      <4>2. CASE run[s].inv = i
        <5>1. Live(s) => s = active[i]
          BY <4>1, <4>2 DEF IInv, ActiveAgrees
        <5>2. ~Live(s)'
          BY <2>1, <2>2, <5>1, LifecycleAssumption DEF Ended, Moved, Live
        <5> QED
          BY <3>1, <4>2, <5>2
      <4>3. CASE run[s].inv # i
        <5>1. Orphan(s)
          BY <3>1, <3>2, <4>1, <4>3 DEF Orphan
        <5> QED
          BY <2>2, <3>1, <4>3, <5>1 DEF IInv, NoOrphanDataset, Orphan
      <4> QED
        BY <4>2, <4>3
    <3> QED
      BY <3>2 DEF NoOrphanDataset, Orphan, Live
  <2>4. CASE ~RowDeleted(i)
    BY <1>1, <2>1, <2>2, <2>4, WithdrawnNoOrphan, LifecycleAssumption
  <2> QED
    BY <2>3, <2>4
<1>7. ASSUME NEW r \in Runs, Begin(r) \/ ClaimPublication(r) \/ Deadline(r)
      PROVE  NoOrphanDataset'
  <2>1. /\ UNCHANGED <<row, dataset>> /\ run'[r].inv = run[r].inv /\ (Live(r)' => Live(r))
        /\ \A s \in Runs : s # r => run'[s] = run[s]
    BY <1>7 DEF Begin, ClaimPublication, Deadline, ContextDone, IInv, TypeOK, ManagedRun, Live
  <2>2. \A s \in Runs : run'[s].inv = run[s].inv /\ (Live(s)' => Live(s))
    BY <2>1 DEF Live
  <2> QED
    BY <2>1, <2>2, WithdrawnNoOrphan
<1>8. ASSUME NEW r \in Runs, StepFails(r) \/ Panic(r)
      PROVE  NoOrphanDataset'
  BY <1>1, <1>8, FailEffect, WithdrawnNoOrphan DEF Ended, Moved, Live
<1>9. ASSUME NEW r \in Runs, Commit(r)
      PROVE  NoOrphanDataset'
  <2> DEFINE i == run[r].inv
  <2>1. Live(r) /\ i \in Investigations /\ run' = run
    BY <1>9, LiveRunHasSubject DEF Commit, At, IInv, WellFormed, PublisherHoldsClaim
  <2>2. /\ \A s \in Runs : s # r => dataset'[s] = dataset[s]
        /\ \A j \in Investigations : j # i => row'[j] = row[j]
        /\ row'[i].status = "completed"
    BY <1>9, <2>1 DEF Commit, IInv, TypeOK, Row
  <2>3. \A s \in Runs : Orphan(s)' => s # r /\ Orphan(s)
    BY <2>1, <2>2 DEF Orphan, IInv, TypeOK, ManagedRun
  <2> QED
    BY <2>1, <2>2, <2>3, KeptNoOrphan DEF Live
<1>10. ASSUME NEW r \in Runs, RecordPublication(r)
       PROVE  NoOrphanDataset'
  BY <1>10, RecordEffect, WithdrawnNoOrphan DEF Ended, Moved, Live
<1>11. CASE Crash
  <2>1. /\ UNCHANGED <<row, dataset>>
        /\ \A s \in Runs : run'[s].inv = run[s].inv /\ ~Live(s)'
    BY <1>11 DEF Crash, UnusedRun, IInv, RunsWellFormed, Live
  <2> QED
    BY <2>1, KeptNoOrphan DEF Orphan
<1>12. CASE Restart
  <2>1. UNCHANGED <<run, dataset>>
    BY <1>12 DEF Restart
  <2>2. \A i \in Investigations : row'[i].status = "deleted" => row[i].status = "deleted"
    BY <1>12, ReleasedFields DEF Restart, Reconciled, IInv, TypeOK
  <2> QED
    BY <2>1, <2>2, KeptNoOrphan DEF Orphan, Live, IInv, TypeOK, ManagedRun
<1>13. ASSUME NEW r \in Runs, Advance(r) \/ RollBack(r)
       PROVE  NoOrphanDataset'
  BY <1>1, <1>13 DEF Advance, RollBack
<1> QED
  BY <1>1, <1>2, <1>3, <1>4, <1>5, <1>6, <1>7, <1>8, <1>9, <1>10, <1>11, <1>12, <1>13
  DEF Next, WorkerStep, HandlerStep, Arrival, ReadForStart,
      ArriveDelete, ArriveCancel, PollMisses, StartRefused, AwaitPublication, vars

-----------------------------------------------------------------------------
(* The theorems *)

LEMMA InitIInv == Init => IInv
<1> SUFFICES ASSUME Init PROVE IInv
  OBVIOUS
<1>1. WellFormed
  BY WellFormedInit
<1>2. /\ \A i \in Investigations : row[i] = NoRow /\ active[i] = None
      /\ \A r \in Runs : run[r] = UnusedRun /\ dataset[r] = None /\ worker[r] = "none"
  BY DEF Init
<1> QED
  BY <1>1, <1>2
  DEF IInv, WellFormed, SubjectExists, ActiveAgrees, PublisherHoldsClaim, DatasetAgrees,
      OneTerminalWinner, RowConsistent, NoOrphanDataset, NoRow, UnusedRun, Live, Stored

LEMMA IInvNext == IInv /\ [Next]_vars => IInv'
BY WellFormedNext, SubjectExistsNext, ActiveAgreesNext, PublisherHoldsClaimNext,
   DatasetAgreesNext, OneTerminalWinnerNext, RowConsistentNext, NoOrphanDatasetNext
DEF IInv, WellFormed

\* The inductive invariant holds in every reachable state.
THEOREM Invariance == Spec => []IInv
BY InitIInv, IInvNext, PTL DEF Spec

\* Every variable keeps to its type, whatever fails (RunManager and table investigations).
THEOREM TypeCorrect == Spec => []TypeOK
<1>1. IInv => TypeOK
  BY DEF IInv
<1> QED
  BY <1>1, Invariance, PTL

\* An Investigation has at most one queued or running run (RunManager.Start and
\* the terminal transitions).
THEOREM AtMostOneLiveRun == Spec => []OneLiveRun
<1>1. IInv => OneLiveRun
  BY DEF IInv, ActiveAgrees, OneLiveRun
<1> QED
  BY <1>1, Invariance, PTL

\* Publication and cancellation of a run exclude each other (publish and Cancel).
THEOREM SingleTerminalWinner == Spec => []OneTerminalWinner
<1>1. IInv => OneTerminalWinner
  BY DEF IInv
<1> QED
  BY <1>1, Invariance, PTL

\* The columns of a row agree with each other and with the Datasets (publish,
\* restoreStableStatus and reconcileLostAnalysisRuns).
THEOREM RowsAreConsistent == Spec => []RowConsistent
<1>1. IInv => RowConsistent
  BY DEF IInv
<1> QED
  BY <1>1, Invariance, PTL

\* A deletion leaves neither a Dataset nor a run that could still publish one
\* (RunManager.DeleteInvestigation).
THEOREM DeletionLeavesNoOrphan == Spec => []NoOrphanDataset
<1>1. IInv => NoOrphanDataset
  BY DEF IInv
<1> QED
  BY <1>1, Invariance, PTL

\* A terminal status of a run is never replaced by another one (Cancel, fail and
\* publish).
THEOREM TerminalStatusIsFinal == Spec => TerminalIsFinal
<1> DEFINE Final(r) ==
      /\ run[r].status \in {"completed", "failed", "cancelled"} =>
           run'[r].status \in {run[r].status, "lost"}
      /\ run[r].status = "lost" => run'[r].status = "lost"
<1>1. IInv /\ [Next]_vars => [\A r \in Runs : Final(r)]_run
  <2> SUFFICES ASSUME IInv, [Next]_vars, NEW r \in Runs PROVE Final(r)
    OBVIOUS
  <2>1. ASSUME NEW s \in Runs, NEW status, Live(s), Ended(s, status)
        PROVE  Final(r)
    BY <2>1 DEF Ended, Moved, Live
  <2>2. CASE run' = run
    BY <2>2
  <2>3. ASSUME NEW q \in Requests, NEW s \in Runs, Start(q, s)
        PROVE  Final(r)
    <3>1. run[s].status = "unused" /\ (s # r => run'[r] = run[r])
      BY <2>3 DEF Start, IInv, TypeOK
    <3> QED
      BY <3>1
  <2>4. ASSUME NEW q \in Requests, Cancel(q)
        PROVE  Final(r)
    BY <2>1, <2>2, <2>4, CancelEffect
  <2>5. ASSUME NEW q \in Requests, Delete(q)
        PROVE  Final(r)
    BY <2>1, <2>2, <2>5, DeleteEffect
  <2>6. ASSUME NEW s \in Runs, Begin(s) \/ ClaimPublication(s) \/ Deadline(s)
        PROVE  Final(r)
    <3>1. /\ s # r => run'[r] = run[r]
          /\ run'[s].status = run[s].status \/ Live(s)
      BY <2>6 DEF Begin, ClaimPublication, Deadline, ContextDone, IInv, TypeOK, ManagedRun
    <3> QED
      BY <3>1 DEF Live
  <2>7. ASSUME NEW s \in Runs, StepFails(s) \/ Panic(s)
        PROVE  Final(r)
    BY <2>1, <2>2, <2>7, FailEffect
  <2>8. ASSUME NEW s \in Runs, RecordPublication(s)
        PROVE  Final(r)
    BY <2>1, <2>8, RecordEffect
  <2>9. CASE Crash
    BY <2>9 DEF Crash, UnusedRun
  <2> QED
    BY <2>2, <2>3, <2>4, <2>5, <2>6, <2>7, <2>8, <2>9
    DEF Next, WorkerStep, HandlerStep, Arrival, CreateInvestigation, UpdateTarget, ReadForStart,
        ArriveDelete, ArriveCancel, PollMisses, StartRefused, RecoverLost, AwaitPublication,
        Advance, Commit, RollBack, Restart, vars
<1> QED
  BY <1>1, Invariance, PTL DEF Spec, TerminalIsFinal

\* A published result locks the target for good and is never lost (publish and the
\* guarded UPDATE of UpdateInvestigation).
THEOREM PublishedTargetIsImmutable == Spec => TargetImmutable
<1> DEFINE Immutable(i) ==
      row[i].locked =>
        \/ row'[i].status = "deleted"
        \/ row'[i].locked /\ row'[i].address = row[i].address /\ row'[i].current # None
<1>1. IInv /\ [Next]_vars => [\A i \in Investigations : Immutable(i)]_row
  <2> SUFFICES ASSUME IInv, [Next]_vars, NEW i \in Investigations PROVE Immutable(i)
    OBVIOUS
  <2>1. row[i] \in Row /\ (row[i].locked <=> row[i].current # None)
    BY DEF IInv, TypeOK, RowConsistent
  <2>2. CASE row' = row
    BY <2>1, <2>2
  <2>3. ASSUME NEW r \in Runs, Withdrawn(r)
        PROVE  Immutable(i)
    BY <2>1, <2>3, WithdrawnKeeps
  <2>4. ASSUME NEW j \in Investigations, NEW a \in Addresses \cup {None},
               CreateInvestigation(j, a) \/ UpdateTarget(j, a)
        PROVE  Immutable(i)
    <3>1. row[j].status = "absent" => ~row[j].locked
      BY AbsentHasNoResult DEF IInv, RowConsistent
    <3> QED
      BY <2>1, <2>4, <3>1 DEF CreateInvestigation, UpdateTarget, IInv, TypeOK
  <2>5. ASSUME NEW q \in Requests, NEW r \in Runs, Start(q, r)
        PROVE  Immutable(i)
    BY <2>1, <2>5 DEF Start, IInv, TypeOK, Row
  <2>6. ASSUME NEW q \in Requests, RecoverLost(q)
        PROVE  Immutable(i)
    BY <2>3, <2>6, RestoreEffect DEF RecoverLost, IInv, WellFormed, RequestsWellFormed
  <2>7. ASSUME NEW q \in Requests, Cancel(q)
        PROVE  Immutable(i)
    BY <2>2, <2>3, <2>7, CancelEffect
  <2>8. ASSUME NEW q \in Requests, Delete(q)
        PROVE  Immutable(i)
    <3>1. ASSUME NEW j \in Investigations, RowDeleted(j)
          PROVE  Immutable(i)
      BY <2>1, <3>1 DEF RowDeleted, NoRow, IInv, TypeOK
    <3> QED
      BY <2>2, <2>3, <2>8, <3>1, DeleteEffect, LifecycleAssumption
  <2>9. ASSUME NEW r \in Runs, StepFails(r) \/ Panic(r)
        PROVE  Immutable(i)
    BY <2>2, <2>3, <2>9, FailEffect
  <2>10. ASSUME NEW r \in Runs, Commit(r)
         PROVE  Immutable(i)
    BY <2>1, <2>10, LifecycleAssumption DEF Commit, IInv, TypeOK, Row
  <2>11. ASSUME NEW r \in Runs, RecordPublication(r)
         PROVE  Immutable(i)
    BY <2>2, <2>3, <2>11, RecordEffect
  <2>12. CASE Restart
    BY <2>1, <2>12, ReleasedFields DEF Restart, Reconciled
  <2> QED
    BY <2>2, <2>4, <2>5, <2>6, <2>7, <2>8, <2>9, <2>10, <2>11, <2>12
    DEF Next, WorkerStep, HandlerStep, Arrival, ReadForStart, ArriveDelete, ArriveCancel,
        PollMisses, StartRefused, AwaitPublication, Begin, Advance, ClaimPublication, RollBack,
        Deadline, Crash, vars
<1> QED
  BY <1>1, Invariance, PTL DEF Spec, TargetImmutable

-----------------------------------------------------------------------------
(* Steps as the promise sees them *)

\* Nothing the promise speaks of changes.
Unseen ==
  /\ \A i \in Investigations : /\ row'[i].status = row[i].status
                               /\ row'[i].current = row[i].current
  /\ \A r \in Runs : run'[r].inv = run[r].inv /\ Outcome(r)' = Outcome(r)

LEMMA UnseenStutters ==
  ASSUME Unseen
  PROVE  UNCHANGED Promise!promiseVars
<1>1. [i \in Investigations |-> row[i].status]' = [i \in Investigations |-> row[i].status]
  BY DEF Unseen
<1>2. [i \in Investigations |-> row[i].current]' = [i \in Investigations |-> row[i].current]
  BY DEF Unseen
<1>3. [r \in Runs |-> run[r].inv]' = [r \in Runs |-> run[r].inv]
  BY DEF Unseen
<1>4. [r \in Runs |-> Outcome(r)]' = [r \in Runs |-> Outcome(r)]
  BY DEF Unseen
<1> QED
  BY <1>1, <1>2, <1>3, <1>4 DEF Promise!promiseVars

\* A step that writes neither a row nor a Dataset is not seen.
LEMMA QuietStutters ==
  ASSUME UNCHANGED <<row, dataset>>, \A r \in Runs : run'[r].inv = run[r].inv
  PROVE  UNCHANGED Promise!promiseVars
<1>1. \A r \in Runs : Outcome(r)' = Outcome(r)
  BY DEF Outcome
<1> QED
  BY <1>1, UnseenStutters DEF Unseen

\* Rows that name a run may be released, and nothing else.
Releases ==
  \A i \in Investigations :
    row'[i] = row[i] \/ (row[i].active # None /\ row'[i] = Released(row[i]))

LEMMA ReleaseWithdraws ==
  ASSUME IInv, Releases, dataset' = dataset, \A r \in Runs : run'[r].inv = run[r].inv
  PROVE  \E S \in SUBSET Investigations : Promise!Withdraw(S)
<1>0. PICK S \in SUBSET Investigations : S = {i \in Investigations : row'[i] # row[i]}
  OBVIOUS
<1>1. ASSUME NEW i \in S
      PROVE  /\ row[i].status = "analyzing" /\ row'[i].active = None
             /\ row'[i].status = IF row[i].current = None THEN "pending" ELSE "completed"
             /\ row'[i].current = row[i].current
  <2>1. row[i] \in Row /\ row[i].active # None /\ row'[i] = Released(row[i])
    BY <1>0 DEF Releases, IInv, TypeOK
  <2> QED
    BY <2>1, ReleasedFields DEF IInv, RowConsistent
<1>2. \A i \in Investigations \ S : row'[i] = row[i]
  BY <1>0
<1>3. ASSUME NEW r \in Runs
      PROVE  Outcome(r)' = IF run[r].inv \in S /\ Outcome(r) = "open" THEN "withdrawn" ELSE Outcome(r)
  <2>1. run[r].inv \in Investigations \cup {None}
    BY DEF IInv, TypeOK, ManagedRun
  <2>2. CASE run[r].inv \in S
    <3>1. /\ run[r].inv # None
          /\ row[run[r].inv].status = "analyzing" /\ row'[run[r].inv].active = None
          /\ row'[run[r].inv].status \in {"pending", "completed"}
      BY <1>1, <2>2, LifecycleAssumption
    <3>2. r # None
      BY LifecycleAssumption
    <3> QED
      BY <2>2, <3>1, <3>2 DEF Outcome
  <2>3. CASE run[r].inv \notin S
    <3>1. run[r].inv # None => row'[run[r].inv] = row[run[r].inv]
      BY <1>2, <2>1, <2>3
    <3> QED
      BY <2>3, <3>1 DEF Outcome
  <2> QED
    BY <2>2, <2>3
<1>4. [i \in Investigations |-> row[i].status]' =
        [i \in Investigations |->
           IF i \notin S THEN [j \in Investigations |-> row[j].status][i]
           ELSE IF [j \in Investigations |-> row[j].current][i] = None THEN "pending" ELSE "completed"]
  BY <1>1, <1>2
<1>5. [r \in Runs |-> Outcome(r)]' =
        [r \in Runs |->
           IF [s \in Runs |-> run[s].inv][r] \in S /\ [s \in Runs |-> Outcome(s)][r] = "open"
           THEN "withdrawn" ELSE [s \in Runs |-> Outcome(s)][r]]
  BY <1>3
<1>6. /\ [i \in Investigations |-> row[i].current]' = [i \in Investigations |-> row[i].current]
      /\ [r \in Runs |-> run[r].inv]' = [r \in Runs |-> run[r].inv]
  BY <1>1, <1>2
<1>7. \A i \in S : [j \in Investigations |-> row[j].status][i] = "analyzing"
  BY <1>1
<1>8. Promise!Withdraw(S)
  BY <1>4, <1>5, <1>6, <1>7 DEF Promise!Withdraw
<1> QED
  BY <1>8

-----------------------------------------------------------------------------
(* Each action is a step of the promise, or not seen *)

Refines == [Promise!Next]_(Promise!promiseVars)

LEMMA WithdrawnRefines ==
  ASSUME IInv, NEW r \in Runs, Withdrawn(r) \/ row' = row, dataset' = dataset,
         \A s \in Runs : run'[s].inv = run[s].inv
  PROVE  Refines
<1>1. Releases
  BY LifecycleAssumption DEF Releases, Withdrawn
<1>2. \E S \in SUBSET Investigations : Promise!Withdraw(S)
  BY <1>1, ReleaseWithdraws
<1> QED
  BY <1>2 DEF Refines, Promise!Next

LEMMA CreateRefines ==
  ASSUME IInv, NEW i \in Investigations, NEW a \in Addresses \cup {None}, CreateInvestigation(i, a)
  PROVE  Refines
<1>1. /\ row[i].status = "absent" /\ row[i] \in Row /\ run' = run /\ dataset' = dataset
      /\ row' = [row EXCEPT ![i] = [row[i] EXCEPT !.status = "pending", !.address = a]]
  BY DEF CreateInvestigation, IInv, TypeOK
<1>2. /\ row'[i].status = "pending" /\ row'[i].current = row[i].current
      /\ \A j \in Investigations : j # i => row'[j] = row[j]
  BY <1>1 DEF IInv, TypeOK, Row
<1>3. ASSUME NEW r \in Runs PROVE Outcome(r)' = Outcome(r)
  <2>1. run[r].inv \in Investigations \cup {None}
    BY DEF IInv, TypeOK, ManagedRun
  <2>2. run[r].inv # i \/ run[r].inv = None
    BY <1>1 DEF IInv, SubjectExists
  <2> QED
    BY <1>1, <1>2, <2>1, <2>2, LifecycleAssumption DEF Outcome
<1>4. [j \in Investigations |-> row[j].status]' =
        [[j \in Investigations |-> row[j].status] EXCEPT ![i] = "pending"]
  BY <1>2
<1>5. /\ [j \in Investigations |-> row[j].current]' = [j \in Investigations |-> row[j].current]
      /\ [r \in Runs |-> run[r].inv]' = [r \in Runs |-> run[r].inv]
      /\ [r \in Runs |-> Outcome(r)]' = [r \in Runs |-> Outcome(r)]
  BY <1>1, <1>2, <1>3
<1>6. Promise!Create(i)
  BY <1>1, <1>4, <1>5 DEF Promise!Create
<1> QED
  BY <1>6 DEF Refines, Promise!Next

LEMMA UpdateTargetRefines ==
  ASSUME IInv, NEW i \in Investigations, NEW a \in Addresses \cup {None}, UpdateTarget(i, a)
  PROVE  Refines
<1>1. /\ run' = run /\ dataset' = dataset
      /\ \A j \in Investigations : /\ row'[j].status = row[j].status
                                   /\ row'[j].current = row[j].current
                                   /\ row'[j].active = row[j].active
  BY DEF UpdateTarget, IInv, TypeOK, Row
<1>2. \A r \in Runs : Outcome(r)' = Outcome(r)
  <2>1. \A r \in Runs : run[r].inv \in Investigations \cup {None}
    BY DEF IInv, TypeOK, ManagedRun
  <2> QED
    BY <1>1, <2>1 DEF Outcome
<1> QED
  BY <1>1, <1>2, UnseenStutters DEF Unseen, Refines

LEMMA StartRefines ==
  ASSUME IInv, NEW q \in Requests, NEW r \in Runs, Start(q, r)
  PROVE  Refines
<1> DEFINE i == request[q].inv
<1>1. /\ i \in Investigations /\ Stored(i) /\ row[i].active = None /\ run[r].status = "unused"
      /\ row' = [row EXCEPT ![i].status = "analyzing", ![i].active = r]
      /\ dataset' = dataset
      /\ \A s \in Runs : run'[s].inv = IF s = r THEN i ELSE run[s].inv
  BY DEF Start, IInv, RequestsWellFormed, TypeOK, ManagedRun
<1> HIDE DEF i
<1>2. row[i].status \in {"pending", "completed"}
  BY <1>1 DEF Stored, IInv, RowConsistent
<1>3. /\ row'[i].status = "analyzing" /\ row'[i].active = r /\ row'[i].current = row[i].current
      /\ \A j \in Investigations : j # i => row'[j] = row[j]
  BY <1>1 DEF IInv, TypeOK, Row
<1>4. run[r].inv = None /\ dataset[r] = None /\ r # None /\ i # None
  BY <1>1, LifecycleAssumption DEF IInv, RunsWellFormed, DatasetAgrees
<1>5. ASSUME NEW s \in Runs PROVE Outcome(s)' = IF s = r THEN "open" ELSE Outcome(s)
  <2>1. CASE s = r
    BY <1>1, <1>3, <1>4, <2>1 DEF Outcome
  <2>2. CASE s # r /\ run[s].inv = i
    <3>1. run'[s].inv = i /\ row[i].active # s /\ row'[i].active # s /\ dataset'[s] = dataset[s]
      BY <1>1, <1>3, <2>2, LifecycleAssumption
    <3> QED
      BY <1>2, <1>3, <1>4, <2>2, <3>1 DEF Outcome
  <2>3. CASE s # r /\ run[s].inv # i
    <3>1. run[s].inv \in Investigations \cup {None}
      BY DEF IInv, TypeOK, ManagedRun
    <3> QED
      BY <1>1, <1>3, <2>3, <3>1 DEF Outcome
  <2> QED
    BY <2>1, <2>2, <2>3
<1>6. /\ [j \in Investigations |-> row[j].status]' =
           [[j \in Investigations |-> row[j].status] EXCEPT ![i] = "analyzing"]
      /\ [j \in Investigations |-> row[j].current]' = [j \in Investigations |-> row[j].current]
  BY <1>3
<1>7. /\ [s \in Runs |-> run[s].inv]' = [[s \in Runs |-> run[s].inv] EXCEPT ![r] = i]
      /\ [s \in Runs |-> Outcome(s)]' = [[s \in Runs |-> Outcome(s)] EXCEPT ![r] = "open"]
  BY <1>1, <1>5
<1>8. Outcome(r) = "unknown"
  BY <1>4 DEF Outcome
<1>9. Promise!Open(i, r)
  BY <1>1, <1>2, <1>6, <1>7, <1>8 DEF Promise!Open
<1> QED
  BY <1>1, <1>9 DEF Refines, Promise!Next

\* The transaction of a publication is the publication, even if its caller is told
\* that it failed.
LEMMA CommitRefines ==
  ASSUME IInv, NEW r \in Runs, Commit(r)
  PROVE  Refines
<1> DEFINE i == run[r].inv
<1>1. /\ Live(r) /\ worker[r] = "committing"
      /\ row[i].status = "analyzing" /\ row[i].active = r
      /\ dataset' = [dataset EXCEPT ![r] = run[r].target] /\ run' = run
      /\ row' = [row EXCEPT ![i] =
                   [row[i] EXCEPT !.status = "completed", !.active = None, !.locked = TRUE, !.current = r]]
  BY DEF Commit, At, Publishable, IInv, PublisherHoldsClaim
<1>2. /\ i \in Investigations /\ i # None /\ run[r].target \in Addresses
      /\ dataset[r] = None /\ r # None /\ run[r].target # None
  BY <1>1, LiveRunHasSubject, LifecycleAssumption DEF IInv, WellFormed, RunsWellFormed, DatasetAgrees
<1> HIDE DEF i
<1>3. /\ row'[i].status = "completed" /\ row'[i].active = None /\ row'[i].current = r
      /\ \A j \in Investigations : j # i => row'[j] = row[j]
  BY <1>1, <1>2 DEF IInv, TypeOK, Row
<1>4. /\ dataset'[r] = run[r].target
      /\ \A s \in Runs : s # r => dataset'[s] = dataset[s]
  BY <1>1 DEF IInv, TypeOK
<1>5. run[r].inv = i
  BY DEF i
<1>6. ASSUME NEW s \in Runs PROVE Outcome(s)' = IF s = r THEN "published" ELSE Outcome(s)
  <2>1. CASE s = r
    BY <1>1, <1>2, <1>3, <1>4, <1>5, <2>1 DEF Outcome
  <2>2. CASE s # r /\ run[s].inv = i
    <3>1. row[i].active # s /\ row'[i].active # s
      BY <1>1, <1>3, <2>2, LifecycleAssumption
    <3> QED
      BY <1>1, <1>2, <1>3, <1>4, <2>2, <3>1 DEF Outcome
  <2>3. CASE s # r /\ run[s].inv # i
    <3>1. run[s].inv \in Investigations \cup {None}
      BY DEF IInv, TypeOK, ManagedRun
    <3> QED
      BY <1>1, <1>3, <1>4, <2>3, <3>1 DEF Outcome
  <2> QED
    BY <2>1, <2>2, <2>3
<1>7. /\ [j \in Investigations |-> row[j].status]' =
           [[j \in Investigations |-> row[j].status] EXCEPT ![i] = "completed"]
      /\ [j \in Investigations |-> row[j].current]' =
           [[j \in Investigations |-> row[j].current] EXCEPT ![i] = r]
  BY <1>3
<1>8. /\ [s \in Runs |-> run[s].inv]' = [s \in Runs |-> run[s].inv]
      /\ [s \in Runs |-> Outcome(s)]' = [[s \in Runs |-> Outcome(s)] EXCEPT ![r] = "published"]
  BY <1>1, <1>6
<1>9. Outcome(r) = "open"
  BY <1>1, <1>2, <1>5 DEF Outcome
<1>10. Promise!Publish(i, r)
  BY <1>1, <1>2, <1>5, <1>7, <1>8, <1>9 DEF Promise!Publish
<1> QED
  BY <1>2, <1>10 DEF Refines, Promise!Next

\* The row of an Investigation goes with its Datasets, or there was none to go.
LEMMA RowDeletedRefines ==
  ASSUME IInv, NEW i \in Investigations, RowDeleted(i), \A r \in Runs : run'[r].inv = run[r].inv
  PROVE  Refines
<1>1. /\ row[i] \in Row /\ i # None
      /\ \A j \in Investigations : j # i => row'[j] = row[j]
      /\ row'[i] = IF row[i].status = "absent" THEN row[i] ELSE [NoRow EXCEPT !.status = "deleted"]
      /\ \A r \in Runs : dataset'[r] = IF run[r].inv = i THEN None ELSE dataset[r]
  BY LifecycleAssumption DEF RowDeleted, IInv, TypeOK
<1>2. [NoRow EXCEPT !.status = "deleted"].status = "deleted"
      /\ [NoRow EXCEPT !.status = "deleted"].current = None
  BY DEF NoRow
<1>3. \A r \in Runs : run[r].inv \in Investigations \cup {None}
  BY DEF IInv, TypeOK, ManagedRun
<1>4. ASSUME NEW r \in Runs, run[r].inv # i PROVE Outcome(r)' = Outcome(r)
  BY <1>1, <1>3, <1>4 DEF Outcome
<1>5. CASE row[i].status = "absent"
  <2>1. \A r \in Runs : run[r].inv # i
    BY <1>1, <1>5 DEF IInv, SubjectExists
  <2> QED
    BY <1>1, <1>4, <1>5, <2>1, UnseenStutters DEF Unseen, Refines
<1>6. CASE row[i].status = "deleted"
  <2>1. row[i].current = None
    <3>1. row[i].current \in Runs \cup {None}
      BY <1>1 DEF Row
    <3> QED
      BY <1>1, <1>6, <3>1, LifecycleAssumption DEF IInv, RowConsistent, NoOrphanDataset
  <2>2. \A r \in Runs : run[r].inv = i => Outcome(r)' = Outcome(r)
    BY <1>1, <1>2, <1>6 DEF Outcome
  <2> QED
    BY <1>1, <1>2, <1>4, <1>6, <2>1, <2>2, UnseenStutters DEF Unseen, Refines
<1>7. CASE row[i].status \notin {"absent", "deleted"}
  <2>1. row[i].status \in {"pending", "analyzing", "completed"}
    BY <1>1, <1>7 DEF Row
  <2>2. row'[i].status = "deleted" /\ row'[i].current = None
    BY <1>1, <1>2, <1>7
  <2>3. \A r \in Runs : Outcome(r)' = IF run[r].inv = i THEN "gone" ELSE Outcome(r)
    <3> SUFFICES ASSUME NEW r \in Runs, run[r].inv = i PROVE Outcome(r)' = "gone"
      BY <1>4
    <3>1. run'[r].inv = i
      OBVIOUS
    <3> QED
      BY <1>1, <2>2, <3>1 DEF Outcome
  <2>4. /\ [j \in Investigations |-> row[j].status]' =
             [[j \in Investigations |-> row[j].status] EXCEPT ![i] = "deleted"]
        /\ [j \in Investigations |-> row[j].current]' =
             [[j \in Investigations |-> row[j].current] EXCEPT ![i] = None]
    BY <1>1, <2>2
  <2>5. /\ [r \in Runs |-> run[r].inv]' = [r \in Runs |-> run[r].inv]
        /\ [r \in Runs |-> Outcome(r)]' =
             [r \in Runs |-> IF [s \in Runs |-> run[s].inv][r] = i THEN "gone"
                             ELSE [s \in Runs |-> Outcome(s)][r]]
    BY <2>3
  <2>6. Promise!Delete(i)
    BY <2>1, <2>4, <2>5 DEF Promise!Delete
  <2> QED
    BY <2>6 DEF Refines, Promise!Next
<1> QED
  BY <1>5, <1>6, <1>7

LEMMA DeleteRefines ==
  ASSUME IInv, NEW q \in Requests, Delete(q)
  PROVE  Refines
<1>1. PICK i \in Investigations :
        /\ \/ active[i] = None /\ UNCHANGED <<run, active>>
           \/ /\ active[i] \in Runs /\ Live(active[i]) /\ ~run[active[i]].claimed
              /\ Ended(active[i], "cancelled") /\ run[active[i]].inv = i
        /\ \/ RowDeleted(i)
           \/ UNCHANGED dataset /\ row' = row
           \/ UNCHANGED dataset /\ active[i] # None /\ Withdrawn(active[i])
  BY DeleteEffect
<1>2. \A r \in Runs : run'[r].inv = run[r].inv
  BY <1>1 DEF Ended, Moved
<1>3. CASE RowDeleted(i)
  BY <1>2, <1>3, RowDeletedRefines
<1>4. CASE UNCHANGED dataset /\ row' = row
  BY <1>2, <1>4, QuietStutters DEF Refines
<1>5. CASE UNCHANGED dataset /\ active[i] # None /\ Withdrawn(active[i])
  <2>1. active[i] \in Runs
    BY <1>5 DEF IInv, TypeOK
  <2> QED
    BY <1>2, <1>5, <2>1, WithdrawnRefines
<1> QED
  BY <1>1, <1>3, <1>4, <1>5

LEMMA RestartRefines ==
  ASSUME IInv, Restart
  PROVE  Refines
<1>1. Releases /\ dataset' = dataset /\ \A r \in Runs : run'[r].inv = run[r].inv
  BY DEF Restart, Reconciled, Releases, IInv, RowConsistent
<1>2. \E S \in SUBSET Investigations : Promise!Withdraw(S)
  BY <1>1, ReleaseWithdraws
<1> QED
  BY <1>2 DEF Refines, Promise!Next

LEMMA StepRefines ==
  ASSUME IInv, [Next]_vars
  PROVE  Refines
<1>1. ASSUME UNCHANGED <<row, dataset>>, \A r \in Runs : run'[r].inv = run[r].inv PROVE Refines
  BY <1>1, QuietStutters DEF Refines
<1>2. ASSUME NEW i \in Investigations, NEW a \in Addresses \cup {None},
             CreateInvestigation(i, a) \/ UpdateTarget(i, a)
      PROVE  Refines
  BY <1>2, CreateRefines, UpdateTargetRefines
<1>3. ASSUME NEW q \in Requests, Arrival(q) \/ StartRefused(q) \/ AwaitPublication(q) PROVE Refines
  BY <1>1, <1>3 DEF Arrival, ReadForStart, ArriveDelete, ArriveCancel, PollMisses, StartRefused, AwaitPublication
<1>4. ASSUME NEW q \in Requests, NEW r \in Runs, Start(q, r) PROVE Refines
  BY <1>4, StartRefines
<1>5. ASSUME NEW q \in Requests, RecoverLost(q) PROVE Refines
  <2>1. request[q].run \in Runs /\ Withdrawn(request[q].run)
    BY <1>5, RestoreEffect DEF RecoverLost, IInv, WellFormed, RequestsWellFormed
  <2>2. UNCHANGED <<run, dataset>>
    BY <1>5 DEF RecoverLost
  <2> QED
    BY <2>1, <2>2, WithdrawnRefines
<1>6. ASSUME NEW r \in Runs, NEW status, Ended(r, status), Withdrawn(r) \/ row' = row, dataset' = dataset
      PROVE  Refines
  BY <1>6, WithdrawnRefines DEF Ended, Moved
<1>7. ASSUME NEW q \in Requests, Cancel(q) PROVE Refines
  BY <1>1, <1>6, <1>7, CancelEffect
<1>8. ASSUME NEW q \in Requests, Delete(q) PROVE Refines
  BY <1>8, DeleteRefines
<1>9. ASSUME NEW r \in Runs, Begin(r) \/ ClaimPublication(r) \/ Deadline(r) PROVE Refines
  <2>1. UNCHANGED <<row, dataset>> /\ \A s \in Runs : run'[s].inv = run[s].inv
    <3>1. /\ UNCHANGED <<row, dataset>> /\ run \in [Runs -> ManagedRun]
          /\ \/ run' = run
             \/ \E status : run' = [run EXCEPT ![r].status = status]
             \/ run' = [run EXCEPT ![r].claimed = TRUE]
             \/ run' = [run EXCEPT ![r].expired = TRUE]
      BY <1>9 DEF Begin, ClaimPublication, Deadline, IInv, TypeOK
    <3> QED
      BY <3>1 DEF ManagedRun
  <2> QED
    BY <1>1, <2>1
<1>10. ASSUME NEW r \in Runs, Advance(r) \/ RollBack(r) PROVE Refines
  BY <1>1, <1>10 DEF Advance, RollBack
<1>11. ASSUME NEW r \in Runs, StepFails(r) \/ Panic(r) PROVE Refines
  BY <1>1, <1>6, <1>11, FailEffect
<1>12. ASSUME NEW r \in Runs, Commit(r) PROVE Refines
  BY <1>12, CommitRefines
<1>13. ASSUME NEW r \in Runs, RecordPublication(r) PROVE Refines
  BY <1>6, <1>13, RecordEffect
<1>14. CASE Crash
  <2>1. \A r \in Runs : run'[r].inv = run[r].inv
    BY <1>14 DEF Crash, UnusedRun, IInv, RunsWellFormed
  <2> QED
    BY <1>1, <1>14, <2>1 DEF Crash
<1>15. CASE Restart
  BY <1>15, RestartRefines
<1>16. CASE UNCHANGED vars
  BY <1>1, <1>16 DEF vars
<1> QED
  BY <1>2, <1>3, <1>4, <1>5, <1>7, <1>8, <1>9, <1>10, <1>11, <1>12, <1>13, <1>14, <1>15, <1>16
  DEF Next, HandlerStep, WorkerStep

\* ImplementsPromise: through every interleaving of workers, handlers, failures,
\* crashes and restarts, an Investigation moves only as its promise says, and
\* each of its runs publishes in one step with its row or is withdrawn for good
\* (analysis/analysis.go, publish and restoreStableStatus).
THEOREM Refinement == Spec => ImplementsPromise
<1>1. Init => Promise!Init
  <2> SUFFICES ASSUME Init PROVE Promise!Init
    OBVIOUS
  <2>1. \A r \in Runs : run[r].inv = None /\ Outcome(r) = "unknown"
    BY DEF Init, UnusedRun, Outcome
  <2>2. \A i \in Investigations : row[i].status = "absent" /\ row[i].current = None
    BY DEF Init, NoRow
  <2> QED
    BY <2>1, <2>2 DEF Promise!Init
<1>2. IInv /\ [Next]_vars => [Promise!Next]_(Promise!promiseVars)
  BY StepRefines DEF Refines
<1> QED
  BY Invariance, <1>1, <1>2, PTL DEF Spec, ImplementsPromise, Promise!Spec
=============================================================================
