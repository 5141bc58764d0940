SPECIFICATION Spec
CONSTANTS
    User = {u1, u2}
    Room = {"dead_end", "fork", "senw_road", "bear_hangout", "computer_room"}
    Stock <- MCStock
    Stubborn = {"cpu"}
    MaxId = 7
    MaxRefused = 1
SYMMETRY Symmetry
CHECK_DEADLOCK FALSE
INVARIANTS
    TypeOK
    OnePlace
    RefBooks
    KeysAlive
    MadeOnce
    TodoLive
