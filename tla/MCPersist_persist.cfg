SPECIFICATION PSpec
CONSTANTS
    User = {u1}
    Room = {"dead_end", "fork", "computer_room"}
    Stock <- MCStock
    Order <- MCOrder
    Stubborn = {}
    MaxId = 4
    MaxRefused = 0
    Prefix = FALSE
    SaveInterval = 2
CHECK_DEADLOCK FALSE
INVARIANTS
    PTypeOK
    IdsFresh
    RefBooks
PROPERTIES
    BootRestores
    
