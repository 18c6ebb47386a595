\* Two commands in one process, every directory with a config.
CONSTANTS
    Images <- MCImages
    Base = "base"
    BaseImage = BaseImage
    Outside = Outside
    Redis = "redis"
    Valkey = "valkey"
    Home = Home
    TempNames = {t1, t2, t3}
    Requests <- PlainRepeated
    MaxCommands = 2
    Repeated <- PlainRepeated
SPECIFICATION ShellSpec
INVARIANT NotIntendedExcluded
