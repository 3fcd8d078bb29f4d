SPECIFICATION Spec
CONSTANTS
    RequireLocalization = FALSE
    RequireSnapshot = TRUE
    RequireGimbal = TRUE
    ReplanWithoutStop = TRUE
    YawModes <- BodyAndSpin
    Faults <- GimbalAndDrift
    MaxReplans = 1
    MaxGoals = 1
    MaxRequests = 2
    MaxYawRequests = 2
    MaxPublications = 1
    MaxEpochs = 1
INVARIANT
    ExecuteInFullHealth
