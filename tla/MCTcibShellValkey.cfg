\* Release 10.
CONSTANTS
    Images <- MCImages
    Base = "base"
    BaseImage = BaseImage
    Outside = Outside
    Redis = "redis"
    Valkey = "valkey"
    Home = Home
    TempNames = {t1, t2, t3}
    Requests <- PlainRequests
    MaxCommands = 1
    Repeated <- PlainRequests
SPECIFICATION ShellSpec
INVARIANT ValkeyOnEL10
