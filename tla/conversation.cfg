SPECIFICATION FairSpec
CONSTANTS
  Investigations = {i1}
  Keys = {k1}
  LastDataset = 1
  Calls = {c1, c2}
  Faults = {"crash", "db_error", "commit_lost"}
  None = None
INVARIANTS TypeOK NoGapInTranscript GroupsAreWhole ReplyTellsStored NoOrphanMessages InternalErrorHasCause
PROPERTIES ImplementsLog EveryCallReturns
