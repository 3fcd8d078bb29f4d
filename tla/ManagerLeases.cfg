SPECIFICATION Spec
CONSTANTS
    RequireLocalization = TRUE
    RequireSnapshot = FALSE
    RequireGimbal = FALSE
    ReplanWithoutStop = TRUE
    YawModes <- BodyOnly
    Faults <- HealthIsLost
    MaxReplans = 1
    MaxGoals = 1
    MaxRequests = 2
    MaxYawRequests = 0
    MaxPublications = 1
    MaxEpochs = 2
INVARIANT
    ExecuteInFullHealth
PROPERTY
    ImplementsAuthority
