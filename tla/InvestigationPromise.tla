------------------------ MODULE InvestigationPromise ------------------------
(***************************************************************************)
(* What the analysis side promises of an Investigation, with no manager,   *)
(* worker, request or failure in sight: it is pending, analyzing or        *)
(* completed; a run of it is opened once and then either publishes, in     *)
(* one step with the row, or is withdrawn and never publishes; withdrawing *)
(* restores the previous stable state.  RunLifecycle implements it.        *)
(***************************************************************************)
CONSTANTS Investigations, Runs, None

VARIABLES
  status,   \* [Investigations -> the lifecycle status of its row]
  result,   \* [Investigations -> the run whose Dataset is current, or None]
  subject,  \* [Runs -> the Investigation the run is about, or None]
  outcome   \* [Runs -> {"unknown", "open", "published", "withdrawn", "gone"}]

promiseVars == <<status, result, subject, outcome>>

Init ==
  /\ status  = [i \in Investigations |-> "absent"]
  /\ result  = [i \in Investigations |-> None]
  /\ subject = [r \in Runs |-> None]
  /\ outcome = [r \in Runs |-> "unknown"]

Create(i) ==
  /\ status[i] = "absent"
  /\ status' = [status EXCEPT ![i] = "pending"]
  /\ UNCHANGED <<result, subject, outcome>>

Open(i, r) ==
  /\ status[i] \in {"pending", "completed"} /\ outcome[r] = "unknown"
  /\ status' = [status EXCEPT ![i] = "analyzing"]
  /\ subject' = [subject EXCEPT ![r] = i]
  /\ outcome' = [outcome EXCEPT ![r] = "open"]
  /\ UNCHANGED result

Publish(i, r) ==
  /\ status[i] = "analyzing" /\ subject[r] = i /\ outcome[r] = "open"
  /\ status' = [status EXCEPT ![i] = "completed"]
  /\ result' = [result EXCEPT ![i] = r]
  /\ outcome' = [outcome EXCEPT ![r] = "published"]
  /\ UNCHANGED subject

\* The open runs of some Investigations are given up, all at once after a restart.
Withdraw(S) ==
  /\ \A i \in S : status[i] = "analyzing"
  /\ status' = [i \in Investigations |->
                  IF i \notin S THEN status[i]
                  ELSE IF result[i] = None THEN "pending" ELSE "completed"]
  /\ outcome' = [r \in Runs |->
                  IF subject[r] \in S /\ outcome[r] = "open" THEN "withdrawn" ELSE outcome[r]]
  /\ UNCHANGED <<result, subject>>

Delete(i) ==
  /\ status[i] \in {"pending", "analyzing", "completed"}
  /\ status' = [status EXCEPT ![i] = "deleted"]
  /\ result' = [result EXCEPT ![i] = None]
  /\ outcome' = [r \in Runs |-> IF subject[r] = i THEN "gone" ELSE outcome[r]]
  /\ UNCHANGED subject

Next ==
  \/ \E i \in Investigations :
       \/ Create(i) \/ Delete(i)
       \/ \E r \in Runs : Open(i, r) \/ Publish(i, r)
  \/ \E S \in SUBSET Investigations : Withdraw(S)

Spec == Init /\ [][Next]_promiseVars
=============================================================================
