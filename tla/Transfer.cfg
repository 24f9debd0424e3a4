CONSTANTS
    Tasks = {t1, t2}
    Blocks = {1, 2}
    Paths <- MCPaths
    Cwd <- MCCwd
    Files <- MCFiles
    Cached <- MCCached
    Offsets = {0, 1}
    Lengths = {2}
    MaxCalls = 2
    MaxFaults = 1
SPECIFICATION Spec
SYMMETRY Symmetry
INVARIANTS TypeOK HandlesAreHeld TransferIsExact AdminIsExact
PROPERTY ObjectsAppearWhole
CHECK_DEADLOCK FALSE
