SPECIFICATION Spec
CONSTANTS
  Investigations = {i1, i2}
  Runs = {r1, r2}
  Addresses = {a1}
  Requests = {q1, q2}
  Faults = {"crash", "db_error", "commit_lost", "panic", "publish_panic", "deadline"}
  None = None
SYMMETRY Symmetry
INVARIANTS TypeOK OneLiveRun OneTerminalWinner RowConsistent NoOrphanDataset
PROPERTIES TerminalIsFinal TargetImmutable ImplementsPromise
