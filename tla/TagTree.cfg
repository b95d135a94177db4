SPECIFICATION Spec
CONSTANTS
    Tags = {a, b, c, d}
    Root = Root
    Sessions = {s1, s2}
    Nobody = Nobody
SYMMETRY Symmetric
INVARIANTS
    TypeOK
    NestedSets
    PositionsDense
PROPERTIES
    ImplementsForest
