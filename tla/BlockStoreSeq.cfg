CONSTANTS
    Threads = {t1}
    Blocks = {b1, b2}
    Vals = {v1}
    Zero = Zero
    Absent = Absent
    Tiers <- TwoTiers
    Capacity <- TwoBytesEach
    Spans <- AllSpans
    Ops = {"write", "read", "remove"}
    PolicyType = "LRU"
    PromoteThreshold = 2
    HighPct = 95
    LowPct = 80
    Word = 1000
    MaxCount = 2
    MaxTotal = 4
    MaxFaults = 1
    MaxCrashes = 1
SPECIFICATION Spec
SYMMETRY Symmetry
INVARIANTS TypeOK IndexConsistent PolicyOffersCached TotalIsExact
PROPERTY ImplementsCache
