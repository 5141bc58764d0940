SPECIFICATION Spec
CONSTANTS
    Child = {c1, c2, c3}
    User = {u1, u2}
    Room = {r0, r1}
    Start = r0
    MaxLogouts = 1
    MaxTeleports = 1
SYMMETRY Symmetry
INVARIANTS
    TypeOK
    OrderlyEntriesTrue
    SessionsListed
