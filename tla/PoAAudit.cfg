\* Two PoS blocks per PoA at most; the first PoA is possible one block after
\* START_POA_BLOCK = LAST_POW_BLOCK + MAX, the boundary at which the first
\* branch's fixed heights all exist.  The hard fork falls inside the chain.
CONSTANTS
    LAST_POW_BLOCK = 1
    START_POA_BLOCK = 3
    MAX_NUM_POS_BLOCKS_AUDITED = 2
    HardFork = 6
    MaxHeight = 11
SPECIFICATION Spec
INVARIANT PoAChainLinked
PROPERTY PoAImplementsLedger
\* The chain stops growing at MaxHeight.
CHECK_DEADLOCK FALSE
