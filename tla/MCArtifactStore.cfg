CONSTANTS
    Datum = {d1, d2}
    Name = {n1}
    Process = {p1, p2}
    MaxVersions = 2
SPECIFICATION Spec
SYMMETRY IdSymmetry
INVARIANTS
    TypeOK
    LedgerIsSound
PROPERTY
    ImplementsStore
