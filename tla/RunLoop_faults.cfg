SPECIFICATION Spec
CONSTANTS
    Tickets <- OneTicket
    Repo <- MCRepo
    Branch <- MCBranch
    Number <- MCNumber
    BlockedBy <- NoBlockers
    Stacking <- MCStacking
    MaxAgents = 1
    MaxClicks = 3
    MaxCommits = 0
    MaxFaults = 1
    FaultKinds = {"crash", "error", "tool"}
    Patient = FALSE
INVARIANTS
    TypeOK
    LaunchOnce
    RelaunchIsPaid
    ContinuedHasMessage
PROPERTIES
    LaunchHasConsent
    RunsFormALedger
