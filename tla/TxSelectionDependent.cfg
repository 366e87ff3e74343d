\* A child of an admitted mempool transaction is never admitted in the same build.
CONSTANTS
    NumTxs = 3
    k1 = k1
    k2 = k2
    k3 = k3
    k4 = k4
    KeyImages = {k1, k2, k3, k4}
    SpentKeyImages = {k4}
    NoTx = NoTx
    MaxBlockSizeCurrent = 2000000
    AllowFreeThreshold = 1
    TxRecords <- MCDependentRecords
    ArgBlockMaxSize = 750000
    ArgBlockPrioritySize = 50000
    ArgBlockMinSize = 0

SPECIFICATION Spec

INVARIANT DependentFollowsParent

\* One template build ends once the heap is empty.
CHECK_DEADLOCK FALSE
