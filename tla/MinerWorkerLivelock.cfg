\* One PoW worker before LAST_POW_BLOCK, peers extending the chain.
CONSTANTS
    w1 = w1
    s1 = s1
    Threads = {w1}
    StakeMinters = {}
    LAST_POW_BLOCK = 2
    InitTips = {0}
    MaxHeight = 3
    MaxGenerateCalls = 1
    MaxThreadsPerCall = 1
    NonceBits = 4
    BatchBits = 1
    NonceGapBits = 2
    EnvEvents = {}
SPECIFICATION Spec
PROPERTY PoWSubmissionEnds
\* Every thread may end, and then the node really stops.
CHECK_DEADLOCK FALSE
