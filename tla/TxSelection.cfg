\* Main selector run: budgets 4000 / 2000 / 1500 bytes after clamping.
CONSTANTS
    NumTxs = 3
    k1 = k1
    k2 = k2
    k3 = k3
    k4 = k4
    KeyImages = {k1, k2, k3, k4}
    SpentKeyImages = {k4}
    NoTx = NoTx
    TxRecords <- MCTxRecords
    ArgBlockMaxSize = 4000
    ArgBlockPrioritySize = 2000
    ArgBlockMinSize = 1500
    MaxBlockSizeCurrent = 2000000
    AllowFreeThreshold = 1

SPECIFICATION Spec

INVARIANT TemplateWithinMaxSize
INVARIANT BlockKeyImagesUnique
INVARIANT AdmissionOrder

\* One template build ends once the heap is empty.
CHECK_DEADLOCK FALSE
