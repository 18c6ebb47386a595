SPECIFICATION FairSpec
CONSTANTS
    MaxImages = 3
    MaxExcluded = 1
    MaxMissing = 1
    WorkerCount = 1
    BuildAttempts = 2
    PushAttempts = 2
    Images <- MCImages
    Root <- MCRoot
    Trees <- MCTrees
    ExcludeSets <- MCExcludeSets
    ContMaps <- MCContMaps
INVARIANTS
    BuildInv
    ParentAvailable
    SuccessMeansAllBuilt
    NoJobLeftBehind
    EarlierBatchesFinished
    RegistryClosed
    NeverStuck
PROPERTIES
    NoRebuild
    EveryStepCounts
    ImplementsOrderedBuild
    Termination
