SPECIFICATION Spec
VIEW Distinguished
CONSTANTS
    ManualTimeout = 1
    AutoTimeout = 1
    ExecutionCommandTimeout = 2
    LinkTimeout = 1
    MapReadyTimeout = 1
    SupersedeGrace = 1
    RequireSerialLink = FALSE
    ManualOperator = FALSE
    Modes <- StopAndExecute
    Verdicts <- ReadyOnly
    Epochs <- One
    Generations <- Three
    Incarnations <- Two
    Sequences <- Two
    StatusStamps <- One
    Ages <- NoAge
    MaxTime = 2
INVARIANTS AutoNeedsStandingGrant AutoFollowsPlanner
PROPERTIES NoReplayedGrant ImplementsLicence
