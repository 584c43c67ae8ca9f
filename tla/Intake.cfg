SPECIFICATION FairSpec
CONSTANTS
    Repos = {"r", "q"}
    Features = {"A", "B"}
    Urls = {"t1", "t2", "t3"}
    HomeOf <- MCHomeOf
    Spare = "spare"
    Issues <- MCIssues
    Known = {"r"}
    Clash <- MCClash
    MaxTip = 2
    MaxEvents = 3
INVARIANTS
    ReadyWasVetted
    PeerConflictsFresh
PROPERTIES
    ClosureKept
    ReposSettle
    RequestsAnswered
