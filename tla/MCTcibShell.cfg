\* Every layout of three images for one build, two builds over few of them,
\* and a hotfix or update anywhere between them.
CONSTANTS
    Images <- MCImages
    Base = "base"
    BaseImage = BaseImage
    Outside = Outside
    Redis = "redis"
    Valkey = "valkey"
    Home = Home
    TempNames = {t1, t2, t3}
    Requests <- AllRequests
    MaxCommands = 2
    Repeated <- ShellRequests
SPECIFICATION ShellSpec
INVARIANTS
    TypeOK
    PreparedIsClosed
    BuiltHasContainerfile
    FromIsBuilt
    SortedByDepth
    FailsForCause
    NothingLeft
    OutcomeReported
    FromBuiltFirst
    AllIntendedBuilt
