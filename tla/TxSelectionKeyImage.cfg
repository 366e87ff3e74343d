\* A key image of a discarded transaction stays in the per-build set.
CONSTANTS
    NumTxs = 3
    k1 = k1
    k2 = k2
    k3 = k3
    k4 = k4
    KeyImages = {k1, k2, k3, k4}
    SpentKeyImages = {k4}
    NoTx = NoTx
    MaxBlockSizeCurrent = 2000000
    AllowFreeThreshold = 1
    TxRecords <- MCKeyImageRecords
    ArgBlockMaxSize = 750000
    ArgBlockPrioritySize = 50000
    ArgBlockMinSize = 0

SPECIFICATION Spec

INVARIANT DuplicateDropJustified

\* One template build ends once the heap is empty.
CHECK_DEADLOCK FALSE
