CONSTANTS
    Names = {a, b}
    Sizes <- MCSizes
    Batch = 2
    CounterFails = TRUE
    MaxDepth = 2
    MaxId = 4
SPECIFICATION Spec
INVARIANT IdsAreUnique
