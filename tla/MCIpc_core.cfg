SPECIFICATION FairSpec
CONSTANTS
    Child = {c1, c2}
    User = {u1}
    Cmds = {"BCASTMSG"}
    PipeCap = 2
    MaxText = 0
    Admins = {c1}
    RateLimit = 1
    MaxTime = 1
    MayCrash = TRUE
CHECK_DEADLOCK FALSE
INVARIANTS
    TypeOK
    Entered
    ClientCount
    NoFreedEntry
    NoStrandedChild
    WithinAllowance
PROPERTIES
    EveryPollReturns
    EveryDeathIsReaped
