SPECIFICATION Spec
CONSTANTS
    Tickets <- MCTickets
    Repo <- MCRepo
    Branch <- MCBranch
    Number <- MCNumber
    BlockedBy <- MCBlockedBy
    Stacking <- MCStacking
    Contested = {1, 2, 3}
INVARIANTS
    PeerHoldIsFirstFit
    StackedOnOpenBlocker
PROPERTIES
    UnlockSurvivesProgress
    DraftGateStaysOpen
