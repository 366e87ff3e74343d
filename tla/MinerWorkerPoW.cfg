\* PoW mining before LAST_POW_BLOCK: one PoW worker per GeneratePrcycoins
\* call, so the second call interrupts the first worker.
CONSTANTS
    w1 = w1
    w2 = w2
    Threads = {w1, w2}
    StakeMinters = {}
    LAST_POW_BLOCK = 2
    InitTips = {0}
    MaxHeight = 3
    MaxGenerateCalls = 2
    MaxThreadsPerCall = 1
    NonceBits = 4
    BatchBits = 1
    NonceGapBits = 2
    EnvEvents = {}
SPECIFICATION Spec
PROPERTY InterruptedWorkerExits
\* Every thread may end (generation switched off, interrupted), and then
\* the node really stops.
CHECK_DEADLOCK FALSE
