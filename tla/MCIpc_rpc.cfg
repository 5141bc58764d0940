SPECIFICATION FairSpec
CONSTANTS
    Child = {c1, c2}
    User = {u1}
    Cmds = {"GETUSERDATA", "EXECVERB", "KICKALL", "KICK"}
    PipeCap = 2
    MaxText = 1
    Admins = {c1, c2}
    RateLimit = 0
    MaxTime = 0
    MayCrash = FALSE
INVARIANTS
    NoCircularWait
    RawModeAgrees
PROPERTIES
    ImplementsRpc
    ReturnsServed
