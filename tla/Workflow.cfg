SPECIFICATION FairSpec
CONSTANTS
    MaxFixRounds = 1
    MaxCommits = 2
    MaxClicks = 1
    MaxChanges = 1
INVARIANTS
    TypeOK
    FinishedPassWasReviewed
    LaterStepsGiveUp
    FixIsTold
PROPERTIES
    PassFollowsSteps
    PassSettles
CHECK_DEADLOCK FALSE
