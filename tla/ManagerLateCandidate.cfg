SPECIFICATION Spec
CONSTANTS
    RequireLocalization = TRUE
    RequireSnapshot = TRUE
    RequireGimbal = FALSE
    ReplanWithoutStop = TRUE
    YawModes <- BodyAndSpin
    Faults <- LocalizationLeaseLapses
    MaxReplans = 1
    MaxGoals = 1
    MaxRequests = 2
    MaxYawRequests = 0
    MaxPublications = 1
    MaxEpochs = 1
INVARIANT
    LateCandidateStaysDead
