\* Settings are taken back after a start that failed.
CONSTANTS
    LastPlugin = 2
    Revert = TRUE
    MaxVersions = 3
    MaxChanges = 2
    MaxCrashes = 2
SPECIFICATION Spec
INVARIANTS
    CompressedIsCurrent
