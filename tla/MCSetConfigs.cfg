\* Crashes and changes of the sources at any step.
CONSTANTS
    Files = {"a", "b"}
    Versions = {1, 2}
    Configs <- MCConfigs
    Strategies = {"COPY_ALWAYS", "COPY_ONCE", "unset"}
    MaxCrashes = 2
    MaxChanges = 1
SPECIFICATION FairSpec
INVARIANTS
    CfgInv
    RunsComplete
    ConfiguredIsComplete
PROPERTIES
    CopiedOnce
    ServiceStarts
