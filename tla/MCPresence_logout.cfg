SPECIFICATION Spec
CONSTANTS
    Child = {c1, c2}
    User = {u1, u2}
    Room = {r0, r1}
    Start = r0
    MaxLogouts = 1
    MaxTeleports = 0
INVARIANTS
    EntriesTrue
