\* ThreadStakeMinter alone, peers extending the chain.
CONSTANTS
    w1 = w1
    s1 = s1
    Threads = {}
    StakeMinters = {s1}
    LAST_POW_BLOCK = 0
    InitTips = {1}
    MaxHeight = 3
    MaxGenerateCalls = 0
    MaxThreadsPerCall = 1
    NonceBits = 4
    BatchBits = 1
    NonceGapBits = 2
    EnvEvents = {}
SPECIFICATION Spec
INVARIANT CoinbaseHeightMatchesPrev
\* Every thread may end, and then the node really stops.
CHECK_DEADLOCK FALSE
