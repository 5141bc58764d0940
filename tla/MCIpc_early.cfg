SPECIFICATION Spec
CONSTANTS
    Child = {c1, c2}
    User = {u1, u2}
    Cmds = {"BCASTMSG", "CHANGEUSER"}
    PipeCap = 2
    MaxText = 0
    Admins = {c1, c2}
    RateLimit = 0
    MaxTime = 0
    MayCrash = FALSE
SYMMETRY Symmetry
PROPERTIES
    ReturnsServed
