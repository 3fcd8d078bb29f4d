SPECIFICATION FairSystemSpec
VIEW Distinguished
CONSTANTS
    Instances <- Two
    MaxEpochs = 2
    Shown <- Lost
    BatchSize = 2
    EsdfInterval = 2
INVARIANTS TypeOK NoOlderProcess DistancesOfTheseVoxels
PROPERTIES RevokedIdentityFreezesTheMap MapBecomesUsable
