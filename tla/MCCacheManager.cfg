CONSTANTS
    Blocks = {b1, b2, b3}
    Sizes = {1, 2}
    Needs = {1, 3}
    MaxCalls = 6
SPECIFICATION Spec
SYMMETRY Symmetry
INVARIANTS VictimsAreThePolicys BooksAgree EvictionSearchEnds TotalCoversSizes
CHECK_DEADLOCK FALSE
