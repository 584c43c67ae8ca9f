SPECIFICATION FairSpec
CONSTANTS
    Tickets <- OneTicket
    Repo <- MCRepo
    Branch <- MCBranch
    Number <- MCNumber
    BlockedBy <- NoBlockers
    Stacking <- MCStacking
    MaxAgents = 1
    MaxClicks = 3
    MaxCommits = 1
    MaxFaults = 0
    FaultKinds <- NoFaults
    Patient = TRUE
INVARIANTS
    OneAgentPerWorktree
    NoLiveDisposed
PROPERTIES
    IntentsDrain
    DeadRunsSettle
