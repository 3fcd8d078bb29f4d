CONSTANTS
    ExecutionCommandTimeout = 1
    MapReadyTimeout = 1
    SupersedeGrace = 1
    GimbalTimeout = 1
    Incarnations <- One
    Sequences <- Three
    Goals <- One
    Epochs <- One
    Generations <- Two
    GimbalRequests <- One
    Modes <- StopAndExecute
    Ages <- Now
    Verdicts <- ReadyOrUnready
    StatusStamps <- Two
    PathAges <- NowOrBefore
    MaxTime = 2
SPECIFICATION Spec
INVARIANTS
    TypeOK
    LostGenerationStaysLost
    InterruptedPathStaysDead
    GraceIsBounded
    MotionRestsOnLiveInputs
PROPERTIES
    ImplementsLicence
VIEW Distinguished
