SPECIFICATION DepsSpec
CONSTANTS
    MaxImages = 5
    Images <- MCImages
    Root <- MCRoot
    Trees <- MCTrees
INVARIANTS
    DepsInv
    ParentPlacedEarlier
    PlacedOnce
    NoEmptyBatch
    AllPlacedAtReturn
PROPERTIES
    DepsReturns
CHECK_DEADLOCK FALSE
