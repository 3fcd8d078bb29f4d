SPECIFICATION Spec
CONSTANTS
    RequireLocalization = FALSE
    RequireSnapshot = TRUE
    RequireGimbal = FALSE
    ReplanWithoutStop = TRUE
    YawModes <- BodyOnly
    Faults <- ReferenceFails
    MaxReplans = 1
    MaxGoals = 1
    MaxRequests = 2
    MaxYawRequests = 0
    MaxPublications = 2
    MaxEpochs = 1
INVARIANT
    TypeOK
    CondemnedMapStaysDead
    ReleaseIsBacked
