SPECIFICATION Spec
CONSTANTS
    Tickets <- TwoTickets
    Repo <- MCRepo
    Branch <- MCBranch
    Number <- MCNumber
    BlockedBy <- ChainOfTwo
    Stacking <- MCStacking
    MaxAgents = 1
    MaxClicks = 3
    MaxCommits = 1
    MaxFaults = 0
    FaultKinds <- NoFaults
    Patient = TRUE
INVARIANTS
    LaunchFollowsBlocker
PROPERTIES
    LaunchFitsUnderCap
