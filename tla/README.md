# TLA+ models of the PRCY block template assembler and miner loop

This directory holds TLA+ models of `src/src/miner.cpp`: the transaction
selector, the PoW/PoS and PoA template builders, the miner worker threads and
their supervisor. Each module is translated from the C++ source. `PROJECT.json`
maps every definition to the lines it models, lists the TLC runs, the mutants
that show each property can fail, the findings, and the hazards the properties
are aimed at.

## 1. Inventory of the system

| Component | Code | State it keeps | Operations |
|---|---|---|---|
| Priority model | `TxPriority`, `TxPriorityCompare` (71-92), uses of `GetPriority`, `ApplyDeltas`, `CFeeRate`, `AllowFree` | none (pure) | score a transaction; compare in priority mode or fee mode |
| Selector | `CreateNewBlock` 235-430 | for one build: `keyImages`, `vecPriority` (heap), `fSortedByFee`, `nBlockSize`, `nBlockTx`, `nFees`; globals `nLastBlockTx`, `nLastBlockSize` | clamp budgets; scan the mempool; pop the heap; switch mode; admit |
| Standard template builder | `CreateNewBlock` 160-234 and 415-507, `UpdateTime`, `CreateNewBlockWithKey` | function-static `nLastCoinStakeSearchTime`, global `nLastCoinStakeSearchInterval` | tip snapshot; coinbase; PoS stake search; coinbase/coinstake values; commitment; Schnorr signature; header; block signing with a fallback key |
| ExtraNonce | `IncrementExtraNonce` 609-625 | function-static `hashPrevBlock` shared by all threads; a caller-owned `nExtraNonce` | reset on a new previous block, increment, rewrite the coinbase, recompute the Merkle root |
| PoA builder | `GetListOfPoSInfo` 103-158, `CreateNewPoABlock` 509-607, `CreateNewPoABlockWithKey` | none besides the chain | find the previous PoA; list the PoS blocks to audit; reward; PoA fields |
| Miner worker | `BitcoinMiner` 709-895, `ProcessBlockFound` 668-701, `ThreadBitcoinMiner`, `ThreadStakeMinter` | globals `fGeneratePrcycoins`, `fMintableCoins`, `nMintableLastCheck`, `dHashesPerSec`, `nHPSTimerStart`; per thread `nExtraNonce`, `fLastLoopOrphan`, the template, `nNonce` | PoS gating; PoW exit; build; sign; nonce search; stale check; submit |
| Supervisor | `GeneratePrcycoins` 950-975, `GeneratePoAPrcycoin` 936-948, `ThreadPrcycoinMiner` 917-934 | function-static `minerThreads` groups | interrupt and replace the worker group; start the PoA thread (which only sleeps) |

How they interact. The supervisor starts worker threads. Every worker calls
the template builder; the builder calls the selector under `cs_main` and
`mempool.cs`. A worker hands a finished block to `ProcessBlockFound`, which
checks it against `g_best_block` and gives it to `ProcessNewBlock`. Workers
share a set of globals and function statics: the generate flag, the
mintable-coins poll, the stake search time and the extra-nonce
`hashPrevBlock`. None of these is protected by a lock. The chain tip moves
under the workers' feet because peers submit blocks and other workers submit
too.

What makes it hard.
- The selector is a two-phase loop. A scan in mempool hash order commits to
  key images before the heap exists. The heap then changes its comparator
  halfway through.
- Several threads race on unsynchronised statics and globals:
  `nLastCoinStakeSearchTime`, `hashPrevBlock`, `fGeneratePrcycoins` and
  `nMintableLastCheck`.
- The tip is read without holding `cs_main` across the build. The only guard
  is the stale check at submission.
- Cancellation is cooperative, at interruption points. The supervisor never
  joins the old threads.
- The PoW path submits a solution twice in a row.

What makes each part correct.
- Selector: the template fits the size limit. Its key images are unique and
  unspent (the code breaks the unspent half, finding 1). Transactions come in heap order. Free transactions enter only in
  the free areas. Children follow their parents (spec property 8).
- Builder: a PoS template has an emptied coinbase and a coinstake at index 1.
  The coinbase value is the subsidy plus the fees. The stake search window
  only moves forward.
- PoA: successive PoA blocks audit each PoS block once, in height order, at
  most `MAX_NUM_POS_BLOCKS_AUDITED` per block and never an empty list.
- Worker and supervisor: a processed block extends the tip it was built on.
  After a submission a worker goes back to building. Stopping generation
  stops every worker. No more workers run than were requested.

## 2. Plan

Modules in order of importance:

1. `TxSelection` (done): the selector and the priority model. It is the
   core of the spec and holds most of the logic.
2. `MinerWorker` (done, without the extra-nonce static): worker threads and the supervisor, over an abstract chain
   whose tip peers can move. It covers the PoS gate, template build (on
   `TemplateBuilder`'s outcome), the PoW nonce loop with its double
   `ProcessBlockFound`, the stale check, `GeneratePrcycoins` interrupting
   without joining, and the `fGeneratePrcycoins` flag.
   - Properties: a processed block extends the tip it was built on; after a
     submission a worker eventually builds again (expected to fail on the PoW
     path); after `GeneratePrcycoins(false)` no worker keeps generating.
3. `StakeSearch` (done for the stake search; the rest is not modelled, see
   section 5). Originally planned as `TemplateBuilder`: the PoS path of `CreateNewBlock` with the shared
   `nLastCoinStakeSearchTime` across several staking threads, the late
   failure paths, and coinbase/coinstake value finalization.
   - Properties: the search window is monotone and the windows do not
     overlap; values are conserved.
   - `MinerWorker` does not INSTANCE it. Its build step reduces the search
     to its outcomes: a stamp in `mapHashedBlocks` or not, a stake or not.
4. `PoAAudit` and `AuditLedger` (done): `GetListOfPoSInfo` and `CreateNewPoABlock` over a growing
   chain of PoS and PoA blocks.
   - Properties: the audited heights across the PoA chain are strictly
     increasing, contiguous over PoS blocks and without duplicates, and each
     list holds 1 to MAX entries.
   - An abstract `AuditLedger` spec (each PoS block audited exactly once, in
     order) that `PoAAudit` refines through INSTANCE ... WITH.
5. `ExtraNonce` inside `MinerWorker`: the shared static `hashPrevBlock`.
6. An abstract `SelectionSpec`, stating which subsets of the mempool a
   template may hold, refined by `TxSelection`.

## 3. Modules

### TxSelection (`TxSelection.tla`, instance `MCTxSelection.tla`)

One behaviour is one template build. `mempool` is chosen in `Init` and stays
fixed for the build, since the build holds `cs_main` and `mempool.cs`. Each
transaction is a record of what the selector reads: serialized size, fee,
priority after `ApplyDeltas`, inputs as `(key image, in invalid_out?)`, an
in-mempool parent, finality and the `CheckInputs` outcome. Fee rates are
computed as `CFeeRate` does, `fee*1000/size` in integers. Sizes are bytes.
Priorities are small integers compared with the `AllowFree` threshold.

| Code | Model |
|---|---|
| lines 235-249 budget clamps | `BlockMaxSize`, `BlockPrioritySize`, `BlockMinSize` |
| scan loop 270-321, one iteration | `ScanReject` (non-final, spent key image before an invalid input, missing inputs), `ScanDuplicate`, `ScanAccept` |
| 323-331 | `StartSelection` |
| heap loop 335-412, one pop | `SkipTooLarge`, `SkipFree`, `SkipFailedInputs`, `AddToBlock`; `HeapTop` lets the heap return any maximal entry under `TxPriorityCompare` |
| 429-430 | `FinishSelection` |

Orphans: `mapDependers` is declared but never filled, and the coins view only
learns coinstakes (line 381). A transaction with an in-mempool parent
therefore fails `CheckHaveInputs` in the scan. The model has no orphan state
and says why (`CheckHaveInputs`).

Runs (config in the `.cfg` named):

- `selector` (`TxSelection.cfg`, pass). Three mempool entries, each any
  combination of size {500, 1000}, fee {0, 10000}, priority {0, 2}, one of
  five input lists over key images k1..k4 (k4 spent), and script ok or not,
  plus entries that are non-final or have a parent. Budgets are 4000 max,
  2000 priority and 1500 min bytes. They are picked so that the size limit
  is hit exactly (1000 + 3 x 1000), the switch happens both by size and by
  `AllowFree`, free transactions are admitted and skipped in fee mode, and
  two fee-mode admissions can disagree between priority order and fee
  order. One input list, `<<Bad(k3), In(k4)>>`, passes the scan through
  the `invalid_out` break at 287, so a spent key image reaches the
  duplicate loop and the heap. The run explores 4.4M states.
  - `TemplateWithinMaxSize`: spec invariant 1.
  - `BlockKeyImagesUnique`: no key image appears twice across the inputs
    of the admitted transactions (spec invariant 2). The per-build set of
    the scan (310-318) is the only guard. The "unspent" half of the
    invariant does not hold, because of finding 1.
  - `AdmissionOrder`: priority-mode entries come first in (priority, fee
    rate) order, then fee-mode entries in (fee rate, priority) order.
- `selector_invalid_input` (violation): `NoInvalidInputAdmitted`.
- `selector_free_floor` (violation): `FreeTxOnlyInFreeArea`.
- `selector_dependent` (violation): `DependentFollowsParent`. Suppose a
  child's parent is admitted, and the child is otherwise admissible: it is
  final, passes the spent and script checks, shares no key image with
  another entry, pays the floor and fits. Then the child is admitted too.
  TLC's counterexample is a child carrying `k2` whose parent carries `k1`.
- `selector_key_image` (violation): `DuplicateDropJustified`.

The findings these violations show are in `PROJECT.json` and in section 4.

Fairness: `WF_vars(Next)`. A build runs to its end while it holds both locks.
`CHECK_DEADLOCK FALSE` because a build really stops once the heap is empty.

Bounds: three transactions cover two conflicting entries plus a third that
shows ordering across the switch. One or two inputs per transaction cover
partial key-image insertion. The sizes are chosen against the budgets as
described.

### MinerWorker (`MinerWorker.tla`, configs `MinerWorker*.cfg`)

Each thread is a program counter `pc[t]` plus its locals, for the threads
`GeneratePrcycoins` starts (`Threads`) and for `ThreadStakeMinter`
(`StakeMinters`). The chain is the tip height `tip`. `PeerBlock` extends it at
any time. A template is `[prev, cbHeight, pow]`: the tip read at 257 that
becomes `hashPrevBlock`, the height `IncrementExtraNonce` writes into the
coinbase from the tip read at 777, and the mining kind. Wallet and
environment outcomes are nondeterministic choices: stake found, signing, no
peers, mempool updated, and a nonce meeting the target.

The PoS gate is the code's own loop. Its shared state is:
- `fMintableCoins`, the cached wallet answer;
- `mintableAge`, the time since the last poll (`GetTime() -
  nMintableLastCheck`) cut to the two thresholds the code compares it with:
  under a minute, up to five minutes, and more;
- `hashedRecent`: `mapHashedBlocks` holds a stamp for the tip height that
  is younger than `nHashInterval`.

The environment has its own state and actions, each enabled by the constant
`EnvEvents`:
- `walletMintable`, what `MintableCoins()` would answer now, flipped by
  `WalletChange`;
- `nodeReady` (peers, unlocked wallet, balance above the reserve, synced),
  changed by `NodeChange`. The node only becomes ready, unless `EnvEvents`
  also holds `"nodeDown"`. No run includes `"nodeDown"`; this keeps the
  combined run within time;
- time, advanced by `Tick`, which ages the poll and the stamp.

The wallet stamps `mapHashedBlocks` on every PoS build (spec section 5).
A new tip height starts unstamped.
`processed` records every block handed to `ProcessNewBlock`, with the tip at
that moment.

| Code | Model |
|---|---|
| `GeneratePrcycoins` 950-975 | `GeneratePrcycoins(fGenerate, nThreads)`: flag, `interrupt_all` of the old group (no join), a new group |
| 897-906, 978-984, 709-718 | `ThreadStart`: interruption point, PoS or PoW, `fGeneratePrcycoins = true` |
| 719-727 | `LoopExit`, `MintablePoll` (720 and the five-minute poll) |
| 729-742 | `GateSleep`: the gate loop's sleep (interruption point), the one-minute re-poll `GateRepoll`/`RecheckMintable` (733-738), the flag check |
| 744-758 | `PoSStop` (744-748), `HashedWait` (750-758) |
| 759-778 | `ProceedPoW` (760-766), `ProceedPoS`; both read the tip at 777 (`ReadTip`) |
| 635-655, 160-232 | `BuildNoAddress` (637-639, before every other check), `BuildLatePoW` (642-651), `BuildInterrupted` (208), `BuildFails` (NULL returns past 642 or 208: the window check at 214 without a stamp, no stake or a later failure with one), `BuildStart` |
| 257, 480-484, 787/609-625 | `Assemble` |
| 789-811 | `SignFails`, `Signed` |
| 819-893 | `HashFound`, `HashBatch`/`AfterBatch` (845-848, 876-885) |
| `ProcessBlockFound` 668-701 | `SubmitStale` (674-676), `SubmitFresh` (678-689), `ProcessNewBlock` (691-701); `Return` sends each caller where the code goes on the result |

The PoW exit at 761 is unreachable. Line 720 turns a thread to PoS as soon
as the tip reaches `LAST_POW_BLOCK`, so the PoW branch only runs below it.
`ProcessNewBlock` and its consensus checks are outside `src/`. `BlockValid`
models the two checks a template from this file can fail: the coinbase
height and a PoW block past `LAST_POW_BLOCK`. The model assumes
`ProcessNewBlock` has moved `g_best_block` when it returns, as block
connection does.

Runs:

- `worker` (`MinerWorker.cfg`, pass, 535K states, about two and a half minutes).
  - Setup: two PoW workers from height 0, one per `GeneratePrcycoins`
    call, with `LAST_POW_BLOCK = 1`. A worker turns to staking when the
    tip reaches 1, and the tip can reach 2. So PoW mining, the late-PoW
    path, the switch to PoS, and staking in the gate loop all happen, and
    the second call replaces the first group. Time passes, the wallet
    changes, and the node becomes ready.
  - `ThreadStakeMinter` is left out to keep the run short.
    `worker_stop` and `worker_coinbase_height` run it.
  - The nonce is scaled from 32 bits: a 3-bit counter with a batch of 2
    and a limit 2 below the top. This keeps the code's shape: the batch
    divides the limit, and the limit leaves room for one more batch.
  - `NonceNeverRepeats`: within a template the nonce never goes down, so it
    never wraps.
  - `StakingResumes`: suppose that from some point on the wallet has
    mintable coins, the node is ready, generation is on, and a staking
    thread runs without being interrupted. Then some thread builds again and
    again. The five-minute poll sits outside the gate loop. So a `false`
    cached before the coins matured is refreshed only by the one-minute
    re-poll inside the loop (734). The mutant without that re-poll stalls
    every staking thread in the gate for good.
    The property is stated for some thread, not for each thread. A thread
    can lose every race for the `mapHashedBlocks` stamp: other threads keep
    refreshing it just before this thread looks, and weak fairness does not
    exclude that.
    The premise asks for a staking thread, because a PoW thread can be
    stuck in the livelock of finding 5 and never build again.
  - `InterruptedStakerExits`: every staking thread of a replaced group
    eventually exits, unless `GenerateAddress` keeps failing for it.
    That failure comes at 639, before the interruption point at 208, so it
    is the PoW spin of finding 9. The premise is stated as
    `~[]<><<BuildNoAddress(t)>>_vars`.
- `worker_pow_spin` (`MinerWorkerPoW.cfg`, violation):
  `InterruptedWorkerExits`, the same property for every thread. See
  finding 9.
- `worker_livelock` (violation): `PoWSubmissionEnds`.
- `worker_coinbase_height` (violation): `CoinbaseHeightMatchesPrev`.
- `worker_stop` (violation): `StopIsSticky`.

Fairness is weak fairness on each thread's steps, because the OS runs a
runnable thread. `Tick` also has weak fairness, because time passes while
threads sleep. The supervisor, peers, the node and the wallet get none. A
node that never becomes ready is allowed, and so is a user who never calls
`GeneratePrcycoins`. The runs other than `worker` fix the environment
(`EnvEvents = {}`). Their properties do not depend on the gate. `CHECK_DEADLOCK FALSE` because every thread may end, and
then the node stops mining for real.

Bounds: at most two `GeneratePrcycoins` calls and at most three blocks.
At `MaxHeight` every build returns NULL, as a build that finds no stake
does, so threads keep looping through the gate. That is enough for a
tip move between any two of the reads at 642, 777, 257 and 675/693, and for
a replaced group to run beside the new one. Traces of this model also show
two windows that no run keeps, because nothing is lost on the active chain.
First, a tip move between 642 and 257 makes a PoW thread search for a block
past `LAST_POW_BLOCK`, which consensus rejects. Second, a block that becomes
stale between the check at 675 and `ProcessNewBlock` at 693 is stored on a
side branch and announced to peers. `GeneratePrcycoins` is one step,
although the code writes the flag (953) before it interrupts (964). A worker
that steps in between only sees the new flag a step earlier.

### PoAAudit and AuditLedger (`PoAAudit.tla`, `AuditLedger.tla`, config `PoAAudit.cfg`)

`PoAAudit` models the PoA template builder. Its single variable `chain` is
`chainActive`. Each block records four things:
- its kind (`pow`, `pos` or `poa`);
- its audit list, as the heights of the `PoSBlockSummary` entries (hashes
  and `nTime` are left out);
- `hashPrevPoABlock`, as a height, with `NoBlock` for null;
- the coinbase reward, in quarter coins.

`GetListOfPoSInfo` (103-158) is built from three recursive operators:
- `ScanBack` walks down to the previous PoA block (107-113);
- `FirstAudits` is the first-PoA branch (114-123);
- `Collect` continues from `NextAuditHeight` of the previous PoA's last
  audited height and stops at MAX entries (126-154).

`CreateNewPoABlock` (509-607) is the action that appends the PoA block. It
returns NULL, and so changes nothing, when the tip is below
`START_POA_BLOCK` or the audit list is empty. `StakeBlock` is the
environment: a PoS block becomes the tip.

`AuditLedger` is the promise. The chain is a sequence of kinds, and each PoA
block audits the oldest unaudited PoS blocks below it, between 1 and MAX of
them. `PoAAudit` instantiates it with this refinement mapping:
- `blocks` is the kinds of `chain`;
- `audited` is the concatenation (`FlattenSeq`) of all audit lists.

Run `poa_audit` (pass) checks two properties:
- `PoAImplementsLedger`, the refinement;
- `PoAChainLinked`: every `hashPrevPoABlock` names the PoA block just below
  it.

Bounds: `LAST_POW_BLOCK = 1`, `START_POA_BLOCK = 3`, MAX = 2, chains up to
11 blocks and `HardFork = 6`. Chains of 11 blocks give several PoA blocks,
PoA lists capped at MAX, and lists shorter than MAX. They also give PoA
blocks on both sides of the hard fork.

`START_POA_BLOCK = LAST_POW_BLOCK + MAX` is the boundary for the first
branch. That branch audits the fixed heights `LAST_POW_BLOCK+1 ..
LAST_POW_BLOCK+MAX` whether or not they exist. With `START_POA_BLOCK = 2`,
TLC shows a first PoA block auditing a height above the tip (hazard 116).
The chain parameters must therefore keep `START_POA_BLOCK >= LAST_POW_BLOCK
+ MAX`.

The run has no fairness and no liveness property, because the PoA thread
never calls the builder (`ThreadPrcycoinMiner` only sleeps). It uses
`CHECK_DEADLOCK FALSE`, because the chain stops at `MaxHeight`.

### StakeSearch (`StakeSearch.tla`, config `StakeSearch.cfg`)

The PoS stake search of `CreateNewBlock` (204-233), as run by several
staking threads at once. Both `ThreadStakeMinter` and the PoS threads of
`GeneratePrcycoins` call it, and no lock is held. The variables are:
- `now`, the adjusted time;
- the function-static `nLastCoinStakeSearchTime`, initialised by the first
  call (205);
- `nLastCoinStakeSearchInterval`;
- per thread: its `pc`, its `nSearchTime`, and the window it passed to
  `CreateCoinStake`.

Each line that touches the shared statics is its own step:
- `ReadTime` (207-212);
- `CheckWindow`, the guard at 214, which returns NULL when it fails;
- `Search`, the `CreateCoinStake` call at 217, which reads the static again;
- `Update`, the writes at 225-226.

Whether a stake is found does not change the shared state, so it is not
enumerated.

Run `stake_window_race` (violation) checks `StakeWindowNonNegative`. This is
what the guard at 214 is there for: the window searched is never negative.
With two threads and three ticks, TLC finds the following interleaving:
1. Thread 1 reads time 0 and passes the check.
2. Thread 2 reads time 1, searches and sets the static to 1.
3. Thread 1 searches the window 0 - 1 = -1. It then writes 0 back, so the
   static moves backwards.

See finding 8. Two threads are the least that can show this. Three ticks
are enough for both reads to differ.

## 4. Findings so far

1. `invalid_out` hits do not reject the transaction (line 287). A `break`
   leaves `fKeyImageCheck` true. The same break skips the spent check of
   every later input: `<<Bad(k2), In(k4)>>` is admitted with the spent
   `k4`.
2. The transaction popped at the priority/fee switch skips the free floor
   (line 360). This contradicts the comment at line 349.
3. Mempool children are never selected (lines 295 and 381). This
   contradicts spec property 8.
4. A duplicate-rejected transaction leaves its earlier key images in the set
   (line 317). Later transactions are then dropped for nothing.
5. The PoW miner livelocks after every solution (lines 830-833). The first
   `ProcessBlockFound` makes the block the tip, so the second call finds it
   stale. `continue` then repeats both calls forever, and no interruption
   point stops the thread.
6. The coinbase height comes from the tip read at 777. `hashPrevBlock` comes
   from the tip read at 257. A block arriving during the stake search makes
   them disagree, and the signed block is rejected.
7. A starting thread writes `fGeneratePrcycoins = true` (714). This can undo
   `GeneratePrcycoins(false)`.
8. The stake search window can be negative (lines 214-226). The guard at
   214 and the uses at 217 and 225 read the unlocked static
   `nLastCoinStakeSearchTime` separately. A concurrent staking thread can
   advance it in between, so `CreateCoinStake` gets a negative interval and
   the static moves backwards. Spec line 172 says that an atomic int64
   suffices. Atomicity alone does not close this window: the check and the
   update would have to be one compare-and-swap.
9. A replaced PoW worker can spin forever (lines 782-785). A PoW build that
   returns NULL continues straight back to the tip read. This happens when
   `GenerateAddress` fails (639) or a commitment fails (451-455), and no
   interruption point lies on that path. `GeneratePrcycoins` interrupts the
   old group and drops it without a join (964). The old thread then keeps
   looping at full speed, beside the new group, for as long as its builds
   fail. Staking threads are exposed too: `GenerateAddress` (639) runs
   before the interruption point at 208. With the gate open and no stamp
   to sleep on, an interrupted staker whose address generation keeps
   failing loops the same way. They do exit whenever that call succeeds
   (`InterruptedStakerExits`).

## 5. Not modelled (yet) and why

- External collaborators (mempool admission, coins view, wallet, chain
  validation, network). They are not in `src/`. They appear only as the
  inputs the models enumerate.
- Logging, the hash meter (`dHashesPerSec`) and thread priorities. No
  property depends on them.
- Cryptography (commitments, Schnorr signatures, hashing) and the coinbase
  and coinstake value finalization of the standard builder (430-505). Only
  success or failure affects control flow. `MinerWorker` enumerates both
  outcomes of a build. The window these late failures consume (226) is
  listed as a hazard with a note.
- PoA block contents beyond heights: summary hashes, `nTime`, and
  `ReadBlockFromDisk` of the previous PoA. They only feed the commitment.
- `vBlockSerials`/`vTxSerials`. They are dead code.
- `ThreadPrcycoinMiner` and `GeneratePoAPrcycoin`. The PoA thread only sleeps.
- The reset logic of `IncrementExtraNonce` (609-625) and its shared static
  `hashPrevBlock`. `Assemble` keeps the height the function writes. Which
  extra nonce a thread uses only matters to PoW. The reset misfires only
  when a tip move leaves two PoW threads on different previous blocks. A
  thread then reuses an extra nonce it already used on that block.
  `UpdateTime` (481) gives the new template a later `nTime`, unless both
  builds fall in the same second. So the only cost is re-hashing part of a
  header space, and no property about the chain or the node depends on it.
- `nLastCoinStakeSearchInterval = 0` in the gate (732, 746). The variable is
  modelled in `StakeSearch`. No property about the worker reads it.
- The int truncation of `nMintableLastCheck` after 2038 (705). After it,
  the five-minute poll fires on every loop. That only polls more often.
