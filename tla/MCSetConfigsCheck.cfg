\* --check in a running container, nothing having changed.
CONSTANTS
    Files = {"a", "b"}
    Versions = {1, 2}
    Configs <- FileConfigs
    Strategies = {"COPY_ALWAYS"}
    MaxCrashes = 0
    MaxChanges = 0
SPECIFICATION Spec
INVARIANTS
    CheckNoticesOnlyChanges
