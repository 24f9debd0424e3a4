CONSTANTS
    Addrs = {a1, a2}
    Blocks = {b1}
    Timeout = 0
    MaxRestarts = 1
    MaxFaults = 1
SPECIFICATION FairSpec
INVARIANTS TypeOK IndexesAgree IdsAreOwn
PROPERTY DownIsNoticed
