CONSTANTS
    Names = {a, b}
    Sizes <- MCSizes
    Batch = 2
    CounterFails = FALSE
    MaxDepth = 2
    MaxId = 4
SPECIFICATION Spec
SYMMETRY Symmetry
INVARIANTS TypeOK TreeIsSound MemoryMatchesStore IdsAreUnique
PROPERTY ImplementsFileTree
