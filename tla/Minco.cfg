SPECIFICATION Spec
CONSTANTS
    RetainSafeReference = TRUE
    ReplanAdvisory = TRUE
    Goals <- Two
    Epochs <- Two
    Sequences <- Two
    Contents <- Two
    MaxGenerations = 3
    MaxLosses = 1
INVARIANT
    TypeOK
    ReferenceJudgedOnItsMap
    GrantIsGuardedUntilReplan
    AcceptedRequestsAreAnswered
