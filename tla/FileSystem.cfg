CONSTANTS
    Clients = {c1, c2}
    Workers = {w1, w2}
    Paths = {p, q}
    BlockSize = 3
    IndexLimit = 2
    Capacity = 6
    Contents <- MCContents
    Offsets = {2, 7}
    Lengths = {2}
    Sizes = {2, 4}
    MaxCalls = 2
    MaxLosses = 1
SPECIFICATION Spec
SYMMETRY Symmetry
INVARIANTS TypeOK NoForeignBytes ReadsAreExact UpdatesAreExact
CHECK_DEADLOCK FALSE
