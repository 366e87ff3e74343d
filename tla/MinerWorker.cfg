\* Mining across LAST_POW_BLOCK = 1 from height 0: PoW workers that turn to
\* staking when the tip reaches it, two GeneratePrcycoins calls of one
\* thread each, the tip moving from 0 to 2.  A 3-bit nonce with batches of
\* 2 and a limit 2 below the top (the code's 2^8 and 2^16 in 2^32).  Time
\* passes, the wallet changes, the node becomes ready.
CONSTANTS
    w1 = w1
    w2 = w2
    Threads = {w1, w2}
    StakeMinters = {}
    LAST_POW_BLOCK = 1
    InitTips = {0}
    MaxHeight = 2
    MaxGenerateCalls = 2
    MaxThreadsPerCall = 1
    NonceBits = 3
    BatchBits = 1
    NonceGapBits = 1
    EnvEvents = {"clock", "node", "wallet"}
SPECIFICATION Spec
PROPERTY NonceNeverRepeats StakingResumes InterruptedStakerExits
\* Every thread may end (generation switched off, interrupted), and then
\* the node really stops.
CHECK_DEADLOCK FALSE
