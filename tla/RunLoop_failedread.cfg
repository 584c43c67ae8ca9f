SPECIFICATION Spec
CONSTANTS
    Tickets <- OneTicket
    Repo <- MCRepo
    Branch <- MCBranch
    Number <- MCNumber
    BlockedBy <- NoBlockers
    Stacking <- MCStacking
    MaxAgents = 1
    MaxClicks = 1
    MaxCommits = 0
    MaxFaults = 1
    FaultKinds = {"read"}
    Patient = TRUE
PROPERTY
    FailedReadLaunchesNothing
