\* An input in the invalid-outputs set does not stop a transaction.
CONSTANTS
    NumTxs = 3
    k1 = k1
    k2 = k2
    k3 = k3
    k4 = k4
    KeyImages = {k1, k2, k3, k4}
    SpentKeyImages = {k4}
    NoTx = NoTx
    MaxBlockSizeCurrent = 2000000
    AllowFreeThreshold = 1
    TxRecords <- MCInvalidRecords
    ArgBlockMaxSize = 750000
    ArgBlockPrioritySize = 0
    ArgBlockMinSize = 0

SPECIFICATION Spec

INVARIANT NoInvalidInputAdmitted

\* One template build ends once the heap is empty.
CHECK_DEADLOCK FALSE
