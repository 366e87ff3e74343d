------------------------------ MODULE TxSelection ------------------------------
(***************************************************************************)
(* Transaction selection inside CreateNewBlock (src/src/miner.cpp).        *)
(*                                                                         *)
(* One behaviour is one template build: the block budgets are clamped, the *)
(* mempool is scanned once in map (hash) order to fill the priority heap   *)
(* and the per-build key-image set, then the heap is popped until empty,   *)
(* switching once from priority order to fee order.  The mempool, the     *)
(* chain's spent key images and the coins view are frozen for the build,   *)
(* as they are under LOCK2(cs_main, mempool.cs).                           *)
(*                                                                         *)
(* Data is abstracted: a transaction is an index into the mempool with a   *)
(* record of what the selector reads of it (serialized size, fee, priority *)
(* after ApplyDeltas, inputs with their key images, an in-mempool parent,  *)
(* finality and the script check outcome).                                 *)
(***************************************************************************)
EXTENDS Integers, Sequences, FiniteSets, SequencesExt

CONSTANTS
    NumTxs,               \* size of the mempool snapshot
    KeyImages,            \* key images an input may carry
    SpentKeyImages,       \* key images already spent on chain (IsSpentKeyImage)
    TxRecords,            \* the records a mempool entry may take
    NoTx,                 \* model value: an input spending a confirmed output
    ArgBlockMaxSize,      \* -blockmaxsize
    ArgBlockPrioritySize, \* -blockprioritysize
    ArgBlockMinSize,      \* -blockminsize
    MaxBlockSizeCurrent,  \* MAX_BLOCK_SIZE_CURRENT
    AllowFreeThreshold    \* AllowFree(p) holds iff p > AllowFreeThreshold

\* Mempool entries, numbered in the order std::map iterates them (by hash).
Txs == 1..NumTxs

Input == [ki : KeyImages, invalid : BOOLEAN]
TxRecord == [size : Nat \ {0}, fee : Nat, prio : Nat, vin : Seq(Input),
             parent : Txs \cup {NoTx}, final : BOOLEAN, scriptOk : BOOLEAN]

ASSUME TxRecords \subseteq TxRecord /\ SpentKeyImages \subseteq KeyImages

VARIABLES
    mempool,       \* mempool.mapTx, frozen for the build
    phase,         \* "scan" (lines 270-321), "select" (335-413), "done"
    scanIdx,       \* iterator mi of the scan loop
    keyImages,     \* std::set<CKeyImage> keyImages
    vecPriority,   \* the heap, as the set of its entries
    fSortedByFee,  \* which comparator orders the heap
    nBlockSize,
    nBlockTx,
    nFees,
    admitted,      \* pblock->vtx after the coinbase, each entry with the
                   \* heap mode and block size at the moment it was popped
    dropped,       \* auxiliary: transactions the scan discarded as duplicates
    nLastBlockTx,
    nLastBlockSize

vars == <<mempool, phase, scanIdx, keyImages, vecPriority, fSortedByFee,
          nBlockSize, nBlockTx, nFees, admitted, dropped, nLastBlockTx,
          nLastBlockSize>>

-----------------------------------------------------------------------------
(* Budgets (lines 235-249) and fee-rate arithmetic.                        *)

StdMax(a, b) == IF a >= b THEN a ELSE b
StdMin(a, b) == IF a <= b THEN a ELSE b

BlockMaxSize == StdMax(1000, StdMin(MaxBlockSizeCurrent - 1000, ArgBlockMaxSize))
BlockPrioritySize == StdMin(BlockMaxSize, ArgBlockPrioritySize)
BlockMinSize == StdMin(BlockMaxSize, ArgBlockMinSize)

CoinbaseReserve == 1000   \* nBlockSize = 1000
MinRelayTxFee == 5000     \* customMinRelayTxFee = CFeeRate(5000)

\* CFeeRate(nFeePaid, nSize): satoshis per 1000 bytes, integer division.
CFeeRate(fee, size) == IF size > 0 THEN (fee * 1000) \div size ELSE 0

FeeRate(t) == CFeeRate(mempool[t].fee, mempool[t].size)
Priority(t) == mempool[t].prio

AllowFree(p) == p > AllowFreeThreshold

\* Mutant: the comparator keeps priority order after the switch to fees.
TxPriorityCompareOneMode(byFee, a, b) ==
    \/ Priority(a) < Priority(b)
    \/ Priority(a) = Priority(b) /\ FeeRate(a) < FeeRate(b)

(* TxPriorityCompare(byFee)(a, b): a is below b in the heap.               *)
TxPriorityCompare(byFee, a, b) ==
    IF byFee
    THEN \/ FeeRate(a) < FeeRate(b)
         \/ FeeRate(a) = FeeRate(b) /\ Priority(a) < Priority(b)
    ELSE \/ Priority(a) < Priority(b)
         \/ Priority(a) = Priority(b) /\ FeeRate(a) < FeeRate(b)

\* The entries std::pop_heap may return: none is ordered above them.
HeapTop(heap, byFee) == {t \in heap : ~\E u \in heap : TxPriorityCompare(byFee, t, u)}

-----------------------------------------------------------------------------
(* Checks of the scan loop.                                                *)

\* Lines 276-289: the spent check walks the inputs and stops at the first
\* input whose outpoint is in the invalid-outputs set, without rejecting.
KeyImageCheck(t) ==
    LET vin == mempool[t].vin
    IN  ~\E i \in DOMAIN vin :
            /\ vin[i].ki \in SpentKeyImages
            /\ \A j \in 1..(i - 1) : ~vin[j].invalid

\* CheckHaveInputs(view, tx): the view is CCoinsViewCache(pcoinsTip) and is
\* only updated for coinstakes (line 381), so an input spending another
\* mempool transaction is never found.
CheckHaveInputs(t) == mempool[t].parent = NoTx

\* Mutant: only repeats inside the transaction are seen as duplicates.
FirstDuplicateInTx(vin, seen) ==
    LET dup == {i \in DOMAIN vin : vin[i].ki \in {vin[j].ki : j \in 1..(i - 1)}}
    IN  IF dup = {} THEN 0 ELSE CHOOSE i \in dup : \A j \in dup : i <= j

\* Lines 310-318: index of the first input whose key image is in the set
\* or earlier in the same transaction; 0 when there is none.
FirstDuplicate(vin, seen) ==
    LET dup == {i \in DOMAIN vin :
                  vin[i].ki \in seen \cup {vin[j].ki : j \in 1..(i - 1)}}
    IN  IF dup = {} THEN 0 ELSE CHOOSE i \in dup : \A j \in dup : i <= j

\* The key images inserted before the loop stops at input d (all if d = 0).
InsertedKeyImages(vin, d) ==
    {vin[j].ki : j \in 1..(IF d = 0 THEN Len(vin) ELSE d - 1)}

\* The transaction passes the checks that precede the duplicate loop.
ReachesDuplicateLoop(t) ==
    /\ mempool[t].final
    /\ KeyImageCheck(t)
    /\ CheckHaveInputs(t)

-----------------------------------------------------------------------------
(* Scan loop, lines 270-321: one iteration per action.                     *)

ScanReject ==
    /\ phase = "scan"
    /\ scanIdx \in Txs
    /\ ~ReachesDuplicateLoop(scanIdx)
    /\ scanIdx' = scanIdx + 1
    /\ UNCHANGED <<mempool, phase, keyImages, vecPriority, fSortedByFee,
                   nBlockSize, nBlockTx, nFees, admitted, dropped,
                   nLastBlockTx, nLastBlockSize>>

ScanDuplicate ==
    /\ phase = "scan"
    /\ scanIdx \in Txs
    /\ ReachesDuplicateLoop(scanIdx)
    /\ LET vin == mempool[scanIdx].vin
           d == FirstDuplicate(vin, keyImages)
       IN  /\ d # 0
           /\ keyImages' = keyImages \cup InsertedKeyImages(vin, d)
    /\ dropped' = dropped \cup {scanIdx}
    /\ scanIdx' = scanIdx + 1
    /\ UNCHANGED <<mempool, phase, vecPriority, fSortedByFee, nBlockSize,
                   nBlockTx, nFees, admitted, nLastBlockTx, nLastBlockSize>>

ScanAccept ==
    /\ phase = "scan"
    /\ scanIdx \in Txs
    /\ ReachesDuplicateLoop(scanIdx)
    /\ LET vin == mempool[scanIdx].vin
       IN  /\ FirstDuplicate(vin, keyImages) = 0
           /\ keyImages' = keyImages \cup InsertedKeyImages(vin, 0)
    /\ vecPriority' = vecPriority \cup {scanIdx}
    /\ scanIdx' = scanIdx + 1
    /\ UNCHANGED <<mempool, phase, fSortedByFee, nBlockSize, nBlockTx, nFees,
                   admitted, dropped, nLastBlockTx, nLastBlockSize>>

\* Lines 325-331: counters start, the comparator is chosen, make_heap.
StartSelection ==
    /\ phase = "scan"
    /\ scanIdx = NumTxs + 1
    /\ phase' = "select"
    /\ nBlockSize' = CoinbaseReserve
    /\ nBlockTx' = 0
    /\ fSortedByFee' = (BlockPrioritySize <= 0)
    /\ UNCHANGED <<mempool, scanIdx, keyImages, vecPriority, nFees, admitted,
                   dropped, nLastBlockTx, nLastBlockSize>>

-----------------------------------------------------------------------------
(* Heap loop, lines 335-412: one popped transaction per action.            *)

Pop(t) ==
    /\ phase = "select"
    /\ t \in HeapTop(vecPriority, fSortedByFee)
    /\ vecPriority' = vecPriority \ {t}

\* Mutant: a transaction that exactly reaches the limit is let in.
TooLargeStrict(t) == nBlockSize + mempool[t].size > BlockMaxSize

TooLarge(t) == nBlockSize + mempool[t].size >= BlockMaxSize

BelowFreeFloor(t) ==
    /\ fSortedByFee
    /\ FeeRate(t) < MinRelayTxFee
    /\ nBlockSize + mempool[t].size >= BlockMinSize

\* Lines 360-365: leave the priority area.  The popped transaction is not
\* skipped: it goes on to the input checks below.
SortedByFeeAfter(t) ==
    \/ fSortedByFee
    \/ nBlockSize + mempool[t].size >= BlockPrioritySize
    \/ ~AllowFree(Priority(t))

SkipTooLarge(t) ==
    /\ Pop(t)
    /\ TooLarge(t)
    /\ UNCHANGED <<mempool, phase, scanIdx, keyImages, fSortedByFee,
                   nBlockSize, nBlockTx, nFees, admitted, dropped,
                   nLastBlockTx, nLastBlockSize>>

SkipFree(t) ==
    /\ Pop(t)
    /\ ~TooLarge(t)
    /\ BelowFreeFloor(t)
    /\ UNCHANGED <<mempool, phase, scanIdx, keyImages, fSortedByFee,
                   nBlockSize, nBlockTx, nFees, admitted, dropped,
                   nLastBlockTx, nLastBlockSize>>

\* Lines 367-378: CheckHaveInputs or CheckInputs fails.
SkipFailedInputs(t) ==
    /\ Pop(t)
    /\ ~TooLarge(t)
    /\ ~BelowFreeFloor(t)
    /\ fSortedByFee' = SortedByFeeAfter(t)
    /\ ~(CheckHaveInputs(t) /\ mempool[t].scriptOk)
    /\ UNCHANGED <<mempool, phase, scanIdx, keyImages, nBlockSize, nBlockTx,
                   nFees, admitted, dropped, nLastBlockTx, nLastBlockSize>>

\* Lines 380-412.  mapDependers is never filled, so no orphan re-enters.
AddToBlock(t) ==
    /\ Pop(t)
    /\ ~TooLarge(t)
    /\ ~BelowFreeFloor(t)
    /\ fSortedByFee' = SortedByFeeAfter(t)
    /\ CheckHaveInputs(t)
    /\ mempool[t].scriptOk
    /\ admitted' = Append(admitted, [tx |-> t, byFee |-> fSortedByFee,
                                     sizeBefore |-> nBlockSize])
    /\ nBlockSize' = nBlockSize + mempool[t].size
    /\ nBlockTx' = nBlockTx + 1
    /\ nFees' = nFees + mempool[t].fee
    /\ UNCHANGED <<mempool, phase, scanIdx, keyImages, dropped,
                   nLastBlockTx, nLastBlockSize>>

\* Lines 429-430, once the heap is empty.
FinishSelection ==
    /\ phase = "select"
    /\ vecPriority = {}
    /\ phase' = "done"
    /\ nLastBlockTx' = nBlockTx
    /\ nLastBlockSize' = nBlockSize
    /\ UNCHANGED <<mempool, scanIdx, keyImages, vecPriority, fSortedByFee,
                   nBlockSize, nBlockTx, nFees, admitted, dropped>>

-----------------------------------------------------------------------------

\* A mempool never holds a dependency cycle; parents are taken among the
\* entries scanned earlier.
Init ==
    /\ mempool \in {m \in [Txs -> TxRecords] :
                      \A t \in Txs : m[t].parent \in (1..(t - 1)) \cup {NoTx}}
    /\ phase = "scan"
    /\ scanIdx = 1
    /\ keyImages = {}
    /\ vecPriority = {}
    /\ fSortedByFee = FALSE
    /\ nBlockSize = 0
    /\ nBlockTx = 0
    /\ nFees = 0
    /\ admitted = <<>>
    /\ dropped = {}
    /\ nLastBlockTx = 0
    /\ nLastBlockSize = 0

Next ==
    \/ ScanReject
    \/ ScanDuplicate
    \/ ScanAccept
    \/ StartSelection
    \/ \E t \in Txs :
          \/ SkipTooLarge(t)
          \/ SkipFree(t)
          \/ SkipFailedInputs(t)
          \/ AddToBlock(t)
    \/ FinishSelection

\* A build runs to its end while it holds cs_main and mempool.cs.
Spec == Init /\ [][Next]_vars /\ WF_vars(Next)

-----------------------------------------------------------------------------
(* Properties.                                                             *)

AdmittedTxs == {admitted[i].tx : i \in DOMAIN admitted}

\* Spec invariant 1, about what the heap loop puts in pblock->vtx: the
\* coinbase reserve plus the admitted transactions never reach the block
\* size limit.
TemplateWithinMaxSize ==
    CoinbaseReserve + FoldLeft(LAMBDA acc, e : acc + mempool[e.tx].size, 0, admitted)
        < BlockMaxSize

\* Spec invariant 2: listing the key images of every input of every
\* admitted transaction, in block order, gives no repetition.  The per-build
\* set of the scan (310-318) is the only guard: the heap loop re-checks no
\* key image, and the break at 287 lets an input skip the spent check.
BlockKeyImagesUnique ==
    LET kis == FoldLeft(LAMBDA acc, e : acc \o
                          [j \in DOMAIN mempool[e.tx].vin |-> mempool[e.tx].vin[j].ki],
                        <<>>, admitted)
    IN  \A i, j \in DOMAIN kis : i < j => kis[i] # kis[j]

\* The heap order survives the switch of comparator: transactions popped in
\* priority mode come first, in non-increasing priority order, and those
\* popped in fee mode follow in non-increasing fee-rate order.
LexGeq(x, y) == x[1] > y[1] \/ (x[1] = y[1] /\ x[2] >= y[2])

AdmissionOrder ==
    \A i, j \in DOMAIN admitted :
        i < j =>
          LET a == admitted[i].tx
              b == admitted[j].tx
          IN  /\ admitted[i].byFee => admitted[j].byFee
              /\ ~admitted[j].byFee =>
                    LexGeq(<<Priority(a), FeeRate(a)>>, <<Priority(b), FeeRate(b)>>)
              /\ admitted[i].byFee =>
                    LexGeq(<<FeeRate(a), Priority(a)>>, <<FeeRate(b), Priority(b)>>)

\* Comment at line 349 and spec 4.2: past the minimum block size a
\* transaction paying less than the relay floor only enters inside the
\* priority area, with a priority AllowFree accepts.
FreeTxOnlyInFreeArea ==
    \A i \in DOMAIN admitted :
        LET e == admitted[i]
            after == e.sizeBefore + mempool[e.tx].size
        IN  FeeRate(e.tx) < MinRelayTxFee =>
              \/ after < BlockMinSize
              \/ ~e.byFee /\ after < BlockPrioritySize /\ AllowFree(Priority(e.tx))

\* Spec 4.2 filter 2: a transaction with an input whose outpoint is in the
\* invalid-outputs set is never put in the block.
NoInvalidInputAdmitted ==
    \A t \in AdmittedTxs : \A i \in DOMAIN mempool[t].vin : ~mempool[t].vin[i].invalid

\* What would let t into the block were its input not in the mempool: it is
\* final, passes the spent and script checks, shares no key image with any
\* other entry, pays the relay floor and still fits the block as built.
OtherwiseAdmissible(t) ==
    /\ mempool[t].final
    /\ KeyImageCheck(t)
    /\ mempool[t].scriptOk
    /\ \A u \in Txs \ {t} : \A i \in DOMAIN mempool[t].vin, j \in DOMAIN mempool[u].vin :
          mempool[t].vin[i].ki # mempool[u].vin[j].ki
    /\ FeeRate(t) >= MinRelayTxFee
    /\ nBlockSize + mempool[t].size < BlockMaxSize

\* Spec property 8: once a transaction is in the block, a mempool child of
\* it that is otherwise admissible follows it in the same build (against
\* CheckHaveInputs on pcoinsTip at 295 and 367, which only coinstakes
\* update, 381).
DependentFollowsParent ==
    phase = "done" =>
        \A t \in Txs :
            mempool[t].parent \in AdmittedTxs /\ OtherwiseAdmissible(t) => t \in AdmittedTxs

\* Spec scenario S3: a transaction dropped for a duplicate key image shares
\* that key image with a transaction the block contains.
DuplicateDropJustified ==
    phase = "done" =>
        \A t \in dropped : \E u \in AdmittedTxs, i \in DOMAIN mempool[t].vin :
            \E j \in DOMAIN mempool[u].vin : mempool[t].vin[i].ki = mempool[u].vin[j].ki

=============================================================================
