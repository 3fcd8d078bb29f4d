SPECIFICATION FairSystemSpec
VIEW Distinguished
CONSTANTS
    Instances <- Two
    MaxEpochs = 2
    Shown <- TrackingOrLost
INVARIANTS TypeOK SnapshotOfOneLocalization PendingRequestIsServed ReadyFollowsLocalization
PROPERTIES MapComesBack
