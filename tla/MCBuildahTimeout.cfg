SPECIFICATION HangSpec
CONSTANTS
    MaxImages = 2
    MaxExcluded = 0
    MaxMissing = 0
    WorkerCount = 1
    BuildAttempts = 2
    PushAttempts = 2
    Images <- MCImages
    Root <- MCRoot
    Trees <- MCTrees
    ExcludeSets <- MCExcludeSets
    ContMaps <- MCContMaps
PROPERTIES
    TimeoutEndsBuild
