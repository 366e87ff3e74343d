\* The transaction popped at the priority/fee switch skips the free-tx floor.
CONSTANTS
    NumTxs = 3
    k1 = k1
    k2 = k2
    k3 = k3
    k4 = k4
    KeyImages = {k1, k2, k3, k4}
    SpentKeyImages = {k4}
    NoTx = NoTx
    MaxBlockSizeCurrent = 2000000
    AllowFreeThreshold = 1
    TxRecords <- MCTxRecords
    ArgBlockMaxSize = 4000
    ArgBlockPrioritySize = 2000
    ArgBlockMinSize = 1500

SPECIFICATION Spec

INVARIANT FreeTxOnlyInFreeArea

\* One template build ends once the heap is empty.
CHECK_DEADLOCK FALSE
