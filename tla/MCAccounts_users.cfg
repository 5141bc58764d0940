SPECIFICATION Spec
CONSTANTS
    Child = {c1, c2}
    User = {root, u1}
    Pass = {p1, p2}
    Root = root
    MaxFailures = 2
    SaveInterval = 2
    MaxEdits = 2
    MaxDrops = 1
SYMMETRY Symmetry
INVARIANTS
    TypeOK
    PrivGranted
    ChpassOwn
    UnsavedFew
