SPECIFICATION FairSpec
CONSTANTS
  Investigations = {i1}
  Runs = {r1, r2}
  Addresses = {a1}
  Requests = {q1, q2}
  Faults = {"crash", "panic"}
  None = None
INVARIANTS AnalyzingRowHasLiveRun NoAbandonedRun ClaimHasWorker FailedPublishesNothing
PROPERTIES EveryRunEnds EveryCallReturns
