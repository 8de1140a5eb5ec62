\* Every small ledger against a provider that may fail in every way.
CONSTANTS
    Addresses = {1, 2, 3, 4}
    Target = 2
    Ledgers <- MCLedgers
    LogKey <- MCLogKey
    TransferLimit = 3
    TraversalDepth = 2
    PageLimit = 2
    MaxPages = 2
    MaxRetries = 1
    Budget = 9
    ScoreCap = 3
    ScoreBudget = 5
    Faults = {"rate_limited", "unavailable", "refused", "too_large", "deadline", "ghost_page"}
SPECIFICATION FairSpec
CHECK_DEADLOCK FALSE
INVARIANTS TypeOK CallsWithinBudget StopReasonHonest CompleteUnlessTold DepthIsDistance ScoredHistoryIsWhole
PROPERTY EveryWalkEnds
