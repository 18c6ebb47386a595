\* Stops at any step; settings never come back.
CONSTANTS
    LastPlugin = 2
    Revert = FALSE
    MaxVersions = 3
    MaxChanges = 2
    MaxCrashes = 3
SPECIFICATION Spec
INVARIANTS
    HorizonInv
    CompressedIsCurrent
    PluginsAsEnabled
PROPERTIES
    GeneratedOnce
