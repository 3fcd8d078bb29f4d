SPECIFICATION FairSpec
CONSTANTS
    RequireLocalization = FALSE
    RequireSnapshot = FALSE
    RequireGimbal = FALSE
    ReplanWithoutStop = FALSE
    YawModes <- BodyOnly
    Faults <- DeadlinesPass
    MaxReplans = 1
    MaxGoals = 2
    MaxRequests = 1
    MaxYawRequests = 0
    MaxPublications = 1
    MaxEpochs = 1
PROPERTY
    AcceptedCancelCompletes
    DeadlineEndsGoal
