CONSTANTS
    Cache = {c1, c2, c3}
    Key = {k1, k2}
    Action = {a1, a2}
    NoAction = NoAction
    MaxDepth = 3
SYMMETRY Symmetry
SPECIFICATION Spec
INVARIANTS
    TypeOK
    AnswersStand
PROPERTIES
    ImplementsTables
