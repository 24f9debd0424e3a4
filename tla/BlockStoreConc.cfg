CONSTANTS
    Threads = {t1, t2}
    Blocks = {b1, b2}
    Vals = {v1}
    Zero = Zero
    Absent = Absent
    Tiers <- OneTier
    Capacity <- ThreeBytesEach
    Spans <- FromStart
    Ops = {"write", "read"}
    PolicyType = "LRU"
    PromoteThreshold = 2
    HighPct = 95
    LowPct = 80
    Word = 1000
    MaxCount = 2
    MaxTotal = 6
    MaxFaults = 1
    MaxCrashes = 0
SPECIFICATION Spec
SYMMETRY Symmetry
INVARIANTS TierAccounting IndexedIsStored
CHECK_DEADLOCK FALSE
