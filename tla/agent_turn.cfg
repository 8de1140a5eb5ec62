\* Every turn runs to its end or its deadline, so the system stops.
CONSTANTS
    Investigations <- MCInvestigations
    MaxToolCalls = 2
    MaxSessions = 1
    LastDataset <- MCLastDataset
    LastTurn = 2
SPECIFICATION FairSpec
CHECK_DEADLOCK FALSE
INVARIANTS TypeOK ModelSeesOneDataset AloneTurnIsCoherent
PROPERTY EveryTurnEnds
