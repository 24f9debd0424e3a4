CONSTANTS
    f = f
    g = g
    Threads = {t1, t2}
    Files = {f, g}
    PageSize = 2
    MaxPages = 2
    Pages = {0, 1}
    Old <- MCOld
    New <- MCNew
    Reads <- MCReads
    Dirt <- MCDirt
    MaxCalls = 4
SYMMETRY ThreadsSym
SPECIFICATION Spec
CHECK_DEADLOCK FALSE
INVARIANTS TypeOK LruIsSound CachedIsTracked StaleOnlyIfRaced ReadCachedIsExact
