SPECIFICATION Spec
VIEW Distinguished
CONSTANTS
    Instances <- Three
    InitialSamples = 2
    RetiredLimit = 1
    MaxRejections = 2
    MaxTime = 3
    MaxEpochs = 4
INVARIANTS TypeOK UsableRestsOnFreshEvidence OneRecoveryPerLoss
PROPERTIES ImplementsStream
