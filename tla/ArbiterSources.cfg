SPECIFICATION Spec
VIEW Distinguished
CONSTANTS
    ManualTimeout = 1
    AutoTimeout = 1
    ExecutionCommandTimeout = 1
    LinkTimeout = 1
    MapReadyTimeout = 1
    SupersedeGrace = 0
    RequireSerialLink = TRUE
    ManualOperator = TRUE
    Modes <- AllModes
    Verdicts <- AllVerdicts
    Epochs <- One
    Generations <- One
    Incarnations <- One
    Sequences <- One
    StatusStamps <- Two
    Ages <- EarlyFreshLate
    MaxTime = 2
INVARIANTS TypeOK MotionRestsOnLiveInputs ManualPreempts LostGenerationStaysLost
