SPECIFICATION Spec
CONSTANTS
    Entities = {e1}
    Records = {n1, n2}
    Opaque = {n2}
    Builds = {b1, b2, b3}
    NoSource = NoSource
    Pieces = 2
    MaxText = 2
SYMMETRY Symmetry
CHECK_DEADLOCK FALSE
INVARIANTS QuietSourcesAreExact EmbeddingAccounted
PROPERTIES NeverLeavesRetrieval
