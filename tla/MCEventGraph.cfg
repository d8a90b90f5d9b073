CONSTANTS
    Node = {n1, n2, n3}
    Kind = {dataflow, control}
    MaxEdges = 4
SPECIFICATION Spec
SYMMETRY IdSymmetry
INVARIANTS
    TypeOK
    ListsAgree
    GraphIsAcyclic
PROPERTY
    ImplementsDag
