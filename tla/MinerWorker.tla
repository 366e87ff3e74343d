------------------------------ MODULE MinerWorker ------------------------------
(***************************************************************************)
(* The miner threads of src/src/miner.cpp: BitcoinMiner run by the         *)
(* threads GeneratePrcycoins starts and by ThreadStakeMinter, the          *)
(* submission path ProcessBlockFound, and the supervisor that replaces the *)
(* thread group.  The chain is its tip height; peers extend it at any      *)
(* time.  A template is what the properties tell apart: the tip it was     *)
(* built on (hashPrevBlock), the height IncrementExtraNonce writes into    *)
(* the coinbase, and whether it is PoW.  Wallet, gate and environment      *)
(* outcomes (peers, lock, mintable coins, stake found, signing, mempool    *)
(* updates, a solved nonce) are nondeterministic choices.                  *)
(***************************************************************************)
EXTENDS Integers, Sequences, FiniteSets

CONSTANTS
    Threads,          \* ids for the threads GeneratePrcycoins creates
    StakeMinters,     \* the ThreadStakeMinter thread, if -staking started it
    LAST_POW_BLOCK,   \* Params().LAST_POW_BLOCK()
    InitTips,         \* tip heights the node may be at when the model starts
    MaxHeight,        \* bound: workers start no new build at or above it
    MaxGenerateCalls, \* bound: number of GeneratePrcycoins calls
    MaxThreadsPerCall,\* bound: nThreads of one call
    NonceBits,        \* width of nNonce (32 in the code)
    BatchBits,        \* hashes between checks: 2^8 in the code
    NonceGapBits,     \* the limit 0xffff0000 is 2^32 - 2^16
    EnvEvents         \* which of "clock", "node", "wallet" may change

ASSUME Threads \cap StakeMinters = {}

Workers == Threads \cup StakeMinters

NonceMod == 2 ^ NonceBits
NonceBatch == 2 ^ BatchBits
NonceLimit == NonceMod - 2 ^ NonceGapBits

NoTemplate == [prev |-> -1, cbHeight |-> -1, pow |-> FALSE]

VARIABLES
    tip,              \* chainActive.Tip()->nHeight; g_best_block is its hash
    fGeneratePrcycoins,
    request,          \* auxiliary: fGenerate of the last GeneratePrcycoins call
    group,            \* the threads of minerThreads
    calls,            \* auxiliary: GeneratePrcycoins calls made
    pc,               \* per thread: where it is in its loop
    fProofOfStake,    \* per thread
    interrupted,      \* per thread: interrupt_all was called on its group
    pindexPrev,       \* per thread: tip height read at line 777
    block,            \* per thread: the template being worked on
    nNonce,           \* per thread
    caller,           \* per thread: which ProcessBlockFound call is running
    fLastLoopOrphan,  \* per thread
    processed,        \* auxiliary: blocks handed to ProcessNewBlock
    fMintableCoins,   \* the cached pwallet->MintableCoins() (704)
    mintableAge,      \* GetTime() - nMintableLastCheck: 0 under a minute,
                      \* 1 up to five minutes, 2 more than five (705)
    walletMintable,   \* what pwallet->MintableCoins() answers now
    nodeReady,        \* peers, unlocked wallet, balance above the reserve,
                      \* masternode sync complete
    hashedRecent      \* mapHashedBlocks stamps the tip height less than
                      \* nHashInterval ago

workerVars == <<tip, fGeneratePrcycoins, request, group, calls, pc, fProofOfStake,
                interrupted, pindexPrev, block, nNonce, caller, fLastLoopOrphan,
                processed>>
gateVars == <<fMintableCoins, mintableAge, walletMintable, nodeReady, hashedRecent>>
vars == <<workerVars, gateVars>>

-----------------------------------------------------------------------------
(* Helpers.                                                                *)

Goto(t, where) == pc' = [pc EXCEPT ![t] = where]

\* A boost interruption point: an interrupted thread unwinds and exits.
\* Otherwise the thread goes on to `next`.
InterruptionPoint(t, next) ==
    Goto(t, IF interrupted[t] THEN "exited" ELSE next)

-----------------------------------------------------------------------------
(* Supervisor: GeneratePrcycoins (950-975).  The old group is interrupted  *)
(* and deleted without a join; its threads run on until an interruption   *)
(* point.                                                                  *)

GeneratePrcycoins(fGenerate, nThreads) ==
    /\ calls < MaxGenerateCalls
    /\ calls' = calls + 1
    /\ request' = fGenerate
    /\ fGeneratePrcycoins' = fGenerate
    /\ interrupted' = [w \in Workers |-> interrupted[w] \/ w \in group]
    /\ IF fGenerate /\ nThreads > 0
       THEN \E S \in SUBSET {w \in Threads : pc[w] = "idle"} :
               /\ Cardinality(S) = nThreads
               /\ group' = S
               /\ pc' = [w \in Workers |-> IF w \in S THEN "start" ELSE pc[w]]
       ELSE /\ group' = {}
            /\ UNCHANGED pc
    /\ UNCHANGED <<tip, fProofOfStake, pindexPrev, block, nNonce, caller,
                   fLastLoopOrphan, processed>>
    /\ UNCHANGED gateVars

\* Another node's block becomes the tip; mapHashedBlocks has no stamp for
\* the new height yet.
PeerBlock ==
    /\ tip < MaxHeight
    /\ tip' = tip + 1
    /\ hashedRecent' = FALSE
    /\ UNCHANGED <<fGeneratePrcycoins, request, group, calls, pc, fProofOfStake,
                   interrupted, pindexPrev, block, nNonce, caller,
                   fLastLoopOrphan, processed>>
    /\ UNCHANGED <<fMintableCoins, mintableAge, walletMintable, nodeReady>>

\* Time passes (the threads sleep 5 s at a time): the last mintable poll
\* gets older, and the tip's mapHashedBlocks stamp ages past nHashInterval
\* (at most 22 s, well under a minute).
Tick ==
    /\ "clock" \in EnvEvents
    /\ mintableAge < 2 \/ hashedRecent
    /\ mintableAge' = IF mintableAge < 2 THEN mintableAge + 1 ELSE 2
    /\ hashedRecent' = FALSE
    /\ UNCHANGED <<workerVars, fMintableCoins, walletMintable, nodeReady>>

\* Peers connect or leave, the wallet is locked or unlocked, the balance
\* crosses nReserveBalance, sync completes or restarts.
NodeChange ==
    /\ "node" \in EnvEvents
    /\ nodeReady => "nodeDown" \in EnvEvents
    /\ nodeReady' = ~nodeReady
    /\ UNCHANGED <<workerVars, fMintableCoins, mintableAge, walletMintable, hashedRecent>>

\* Coins mature or are spent: what MintableCoins() would answer changes.
WalletChange ==
    /\ "wallet" \in EnvEvents
    /\ walletMintable' = ~walletMintable
    /\ UNCHANGED <<workerVars, fMintableCoins, mintableAge, nodeReady, hashedRecent>>

-----------------------------------------------------------------------------
(* Thread start: ThreadBitcoinMiner 897-906 / ThreadStakeMinter 978-984,   *)
(* then BitcoinMiner 709-718, which sets the global generate flag.         *)

ThreadStart(t) ==
    /\ pc[t] = "start"
    /\ IF interrupted[t]
       THEN /\ Goto(t, "exited")
            /\ UNCHANGED <<fGeneratePrcycoins, fProofOfStake>>
       ELSE /\ Goto(t, "loop")
            /\ fProofOfStake' = [fProofOfStake EXCEPT
                                   ![t] = t \in StakeMinters \/ tip >= LAST_POW_BLOCK]
            /\ fGeneratePrcycoins' = TRUE
    /\ UNCHANGED <<tip, request, group, calls, interrupted, pindexPrev, block,
                   nNonce, caller, fLastLoopOrphan, processed>>
    /\ UNCHANGED gateVars

(* Top of the loop, 719-768.  Line 720 turns a thread to PoS once the tip  *)
(* reaches LAST_POW_BLOCK; this makes the PoW exit at 761 unreachable.     *)

StaysPoS(t) == fProofOfStake[t] \/ tip >= LAST_POW_BLOCK

LoopExit(t) ==
    /\ pc[t] = "loop"
    /\ ~(fGeneratePrcycoins \/ fProofOfStake[t])
    /\ Goto(t, "exited")
    /\ UNCHANGED <<tip, fGeneratePrcycoins, request, group, calls, fProofOfStake,
                   interrupted, pindexPrev, block, nNonce, caller,
                   fLastLoopOrphan, processed>>
    /\ UNCHANGED gateVars

\* 721-727: a staking thread polls MintableCoins when the last poll, by any
\* thread, is more than five minutes old, then enters the gate loop.
MintablePoll(t) ==
    /\ pc[t] = "loop"
    /\ fGeneratePrcycoins \/ fProofOfStake[t]
    /\ StaysPoS(t)
    /\ fProofOfStake' = [fProofOfStake EXCEPT ![t] = TRUE]
    /\ IF mintableAge = 2
       THEN /\ mintableAge' = 0
            /\ fMintableCoins' = walletMintable
       ELSE UNCHANGED <<mintableAge, fMintableCoins>>
    /\ Goto(t, "gate")
    /\ UNCHANGED <<tip, fGeneratePrcycoins, request, group, calls, interrupted,
                   pindexPrev, block, nNonce, caller, fLastLoopOrphan, processed,
                   walletMintable, nodeReady, hashedRecent>>

\* 729-730: the condition of the gate loop.
GateClosed == ~nodeReady \/ ~fMintableCoins

\* Mutant: the gate loop has no poll of its own.
RecheckMintableNever(fMintable, age) == FALSE

\* 734: the gate loop polls again when the cached answer is false and the
\* last poll is more than a minute old.
RecheckMintable(fMintable, age) == ~fMintable /\ age >= 1

\* 733-738: the re-poll.
GateRepoll ==
    IF RecheckMintable(fMintableCoins, mintableAge)
    THEN /\ mintableAge' = 0
         /\ fMintableCoins' = walletMintable
    ELSE UNCHANGED <<mintableAge, fMintableCoins>>

\* Mutant: the gate sleeps with a sleep that is not an interruption point.
GateSleepUninterruptible(t) ==
    /\ pc[t] = "gate"
    /\ GateClosed
    /\ GateRepoll
    /\ Goto(t, IF fGeneratePrcycoins THEN "gate" ELSE "exited")
    /\ UNCHANGED <<tip, fGeneratePrcycoins, request, group, calls, fProofOfStake,
                   interrupted, pindexPrev, block, nNonce, caller,
                   fLastLoopOrphan, processed, walletMintable, nodeReady,
                   hashedRecent>>

\* 731-742: one turn of the gate loop: MilliSleep(5000), an interruption
\* point, the re-poll, and a cleared generate flag, which breaks the loop
\* and ends the thread (744-748).
GateSleep(t) ==
    /\ pc[t] = "gate"
    /\ GateClosed
    /\ IF interrupted[t]
       THEN /\ Goto(t, "exited")
            /\ UNCHANGED <<mintableAge, fMintableCoins>>
       ELSE /\ GateRepoll
            /\ Goto(t, IF fGeneratePrcycoins THEN "gate" ELSE "exited")
    /\ UNCHANGED <<tip, fGeneratePrcycoins, request, group, calls, fProofOfStake,
                   interrupted, pindexPrev, block, nNonce, caller,
                   fLastLoopOrphan, processed, walletMintable, nodeReady,
                   hashedRecent>>

\* 744-748: the gate is open but generation was switched off.
PoSStop(t) ==
    /\ pc[t] = "gate"
    /\ ~GateClosed
    /\ ~fGeneratePrcycoins
    /\ Goto(t, "exited")
    /\ UNCHANGED <<tip, fGeneratePrcycoins, request, group, calls, fProofOfStake,
                   interrupted, pindexPrev, block, nNonce, caller,
                   fLastLoopOrphan, processed>>
    /\ UNCHANGED gateVars

\* 751-758: the tip height was hashed within nHashInterval: MilliSleep(5000)
\* and back to the top of the loop.
HashedWait(t) ==
    /\ pc[t] = "gate"
    /\ ~GateClosed
    /\ fGeneratePrcycoins
    /\ hashedRecent /\ ~fLastLoopOrphan[t]
    /\ InterruptionPoint(t, "loop")
    /\ UNCHANGED <<tip, fGeneratePrcycoins, request, group, calls, fProofOfStake,
                   interrupted, pindexPrev, block, nNonce, caller,
                   fLastLoopOrphan, processed>>
    /\ UNCHANGED gateVars

\* 773-778: the tip is read for the build.
ReadTip(t) == pindexPrev' = [pindexPrev EXCEPT ![t] = tip]

\* The gate is passed (PoS) ...
ProceedPoS(t) ==
    /\ pc[t] = "gate"
    /\ ~GateClosed
    /\ fGeneratePrcycoins
    /\ ~(hashedRecent /\ ~fLastLoopOrphan[t])
    /\ ReadTip(t)
    /\ Goto(t, "build")
    /\ UNCHANGED <<tip, fGeneratePrcycoins, request, group, calls, fProofOfStake,
                   interrupted, block, nNonce, caller, fLastLoopOrphan, processed>>
    /\ UNCHANGED gateVars

\* ... or the thread mines PoW (760-766; the exit at 761 is unreachable).
ProceedPoW(t) ==
    /\ pc[t] = "loop"
    /\ fGeneratePrcycoins
    /\ ~StaysPoS(t)
    /\ ReadTip(t)
    /\ Goto(t, "build")
    /\ UNCHANGED <<tip, fGeneratePrcycoins, request, group, calls, fProofOfStake,
                   interrupted, block, nNonce, caller, fLastLoopOrphan, processed>>
    /\ UNCHANGED gateVars

-----------------------------------------------------------------------------
(* Template build, 782-787: CreateNewBlockWithKey (635-655) and            *)
(* CreateNewBlock (160-507).                                               *)

\* 646-650: a PoW build for a height past LAST_POW_BLOCK sleeps and gives up.
LatePoW == tip + 1 > LAST_POW_BLOCK

BuildLatePoW(t) ==
    /\ pc[t] = "build"
    /\ ~fProofOfStake[t]
    /\ LatePoW
    /\ InterruptionPoint(t, "loop")
    /\ UNCHANGED <<tip, fGeneratePrcycoins, request, group, calls, fProofOfStake,
                   interrupted, pindexPrev, block, nNonce, caller,
                   fLastLoopOrphan, processed>>
    /\ UNCHANGED gateVars

\* 208: the PoS build starts with an interruption point.
BuildInterrupted(t) ==
    /\ pc[t] = "build"
    /\ fProofOfStake[t]
    /\ interrupted[t]
    /\ Goto(t, "exited")
    /\ UNCHANGED <<tip, fGeneratePrcycoins, request, group, calls, fProofOfStake,
                   interrupted, pindexPrev, block, nNonce, caller,
                   fLastLoopOrphan, processed>>
    /\ UNCHANGED gateVars

\* A PoS build searches for a stake at the tip height, and the search
\* stamps that height in mapHashedBlocks.
StampHashed(t) == hashedRecent' = (hashedRecent \/ fProofOfStake[t])

\* 637-639: GenerateAddress fails before any other check, so nothing is
\* searched and nothing is stamped; BitcoinMiner continues (785).
BuildNoAddress(t) ==
    /\ pc[t] = "build"
    /\ Goto(t, "loop")
    /\ UNCHANGED <<tip, fGeneratePrcycoins, request, group, calls, fProofOfStake,
                   interrupted, pindexPrev, block, nNonce, caller,
                   fLastLoopOrphan, processed>>
    /\ UNCHANGED gateVars

\* Past 642 (PoW) or 208 (PoS), CreateNewBlock returns NULL: the window
\* check at 214 fails before CreateCoinStake is asked (no stamp), or no
\* stake is found (229-232), or commitment, Schnorr or block signing fails
\* (451-501) after the search stamped the height.
BuildFails(t) ==
    /\ pc[t] = "build"
    /\ fProofOfStake[t] => ~interrupted[t]
    /\ ~fProofOfStake[t] => ~LatePoW
    /\ Goto(t, "loop")
    /\ UNCHANGED hashedRecent \/ StampHashed(t)
    /\ UNCHANGED <<fMintableCoins, mintableAge, walletMintable, nodeReady>>
    /\ UNCHANGED <<tip, fGeneratePrcycoins, request, group, calls, fProofOfStake,
                   interrupted, pindexPrev, block, nNonce, caller,
                   fLastLoopOrphan, processed>>

\* The checks at 642-651 (PoW) and 208 (PoS) pass and a template is made;
\* at the height bound every build returns NULL.
BuildStart(t) ==
    /\ pc[t] = "build"
    /\ fProofOfStake[t] => ~interrupted[t]
    /\ ~fProofOfStake[t] => ~LatePoW
    /\ tip < MaxHeight
    /\ Goto(t, "assemble")
    /\ StampHashed(t)
    /\ UNCHANGED <<fMintableCoins, mintableAge, walletMintable, nodeReady>>
    /\ UNCHANGED <<tip, fGeneratePrcycoins, request, group, calls, fProofOfStake,
                   interrupted, pindexPrev, block, nNonce, caller,
                   fLastLoopOrphan, processed>>

\* ... and the rest of CreateNewBlock runs on the tip read again at 257
\* (hashPrevBlock, 480, nNonce = 0, 484); back in BitcoinMiner,
\* IncrementExtraNonce (787, 618-620) writes pindexPrev->nHeight + 1 into
\* the coinbase, with the pindexPrev read at 777.
Assemble(t) ==
    /\ pc[t] = "assemble"
    /\ block' = [block EXCEPT ![t] = [prev |-> tip,
                                      cbHeight |-> pindexPrev[t] + 1,
                                      pow |-> ~fProofOfStake[t]]]
    /\ nNonce' = [nNonce EXCEPT ![t] = 0]
    /\ Goto(t, IF fProofOfStake[t] THEN "sign" ELSE "hash")
    /\ UNCHANGED <<tip, fGeneratePrcycoins, request, group, calls, fProofOfStake,
                   interrupted, pindexPrev, caller, fLastLoopOrphan, processed>>
    /\ UNCHANGED gateVars

-----------------------------------------------------------------------------
(* PoS, 790-811: sign (with the computed-key retry) and submit.            *)

SignFails(t) ==
    /\ pc[t] = "sign"
    /\ Goto(t, "loop")
    /\ UNCHANGED <<tip, fGeneratePrcycoins, request, group, calls, fProofOfStake,
                   interrupted, pindexPrev, block, nNonce, caller,
                   fLastLoopOrphan, processed>>
    /\ UNCHANGED gateVars

Signed(t) ==
    /\ pc[t] = "sign"
    /\ caller' = [caller EXCEPT ![t] = "pos"]
    /\ Goto(t, "check")
    /\ UNCHANGED <<tip, fGeneratePrcycoins, request, group, calls, fProofOfStake,
                   interrupted, pindexPrev, block, nNonce, fLastLoopOrphan,
                   processed>>
    /\ UNCHANGED gateVars

-----------------------------------------------------------------------------
(* PoW nonce search, 819-893.                                              *)

\* 826-834: the hash meets the target: ProcessBlockFound is called twice.
HashFound(t) ==
    /\ pc[t] = "hash"
    /\ caller' = [caller EXCEPT ![t] = "pow1"]
    /\ Goto(t, "check")
    /\ UNCHANGED <<tip, fGeneratePrcycoins, request, group, calls, fProofOfStake,
                   interrupted, pindexPrev, block, nNonce, fLastLoopOrphan,
                   processed>>
    /\ UNCHANGED gateVars

\* 845-848: a batch of hashes ends when the low bits of nNonce wrap.
NextNonce(n) == (n + NonceBatch) % NonceMod

\* Mutant: the nonce limit of line 880 is not checked.
NonceLimitIgnored(n) == FALSE

\* 880.
NonceLimitReached(n) == n >= NonceLimit

\* 876-885: after a batch, an interruption point and the rebuild checks:
\* no peers or the mempool updated for a minute are environment choices
\* (`envBreak`), then the nonce limit and the tip read at 777 against the
\* tip now (`tipNow`).  Otherwise the search goes on with the same block.
AfterBatch(t, n, tipNow) ==
    \E envBreak \in BOOLEAN :
        InterruptionPoint(t, IF envBreak \/ NonceLimitReached(n) \/ pindexPrev[t] # tipNow
                             THEN "loop" ELSE "hash")

\* 845-848 and 851-892: a batch of hashes finds no solution.
HashBatch(t) ==
    /\ pc[t] = "hash"
    /\ nNonce' = [nNonce EXCEPT ![t] = NextNonce(nNonce[t])]
    /\ AfterBatch(t, NextNonce(nNonce[t]), tip)
    /\ UNCHANGED <<tip, fGeneratePrcycoins, request, group, calls, fProofOfStake,
                   interrupted, pindexPrev, block, caller, fLastLoopOrphan,
                   processed>>
    /\ UNCHANGED gateVars

-----------------------------------------------------------------------------
(* ProcessBlockFound, 668-701, and where each caller goes on its result.   *)

\* PoS (805-810): back to the loop either way.  First PoW call (830): its
\* result is ignored and the second call follows.  Second PoW call
\* (831-843): on failure `continue` re-enters the inner loop with the same
\* solved hash; on success (843) it leaves the inner loop and goes through
\* the checks after a batch, against the tip ProcessNewBlock left.
Return(t, ok, tipNow) ==
    CASE caller[t] = "pos" ->
            /\ Goto(t, "loop")
            /\ UNCHANGED <<caller, fLastLoopOrphan>>
      [] caller[t] = "pow1" ->
            /\ Goto(t, "check")
            /\ caller' = [caller EXCEPT ![t] = "pow2"]
            /\ UNCHANGED fLastLoopOrphan
      [] caller[t] = "pow2" /\ ok ->
            /\ AfterBatch(t, nNonce[t], tipNow)
            /\ UNCHANGED <<caller, fLastLoopOrphan>>
      [] caller[t] = "pow2" /\ ~ok ->
            /\ Goto(t, "check")
            /\ caller' = [caller EXCEPT ![t] = "pow1"]
            /\ fLastLoopOrphan' = [fLastLoopOrphan EXCEPT ![t] = TRUE]

\* 674-676: under g_best_block_mutex, a block not on the best block is stale.
SubmitStale(t) ==
    /\ pc[t] = "check"
    /\ block[t].prev # tip
    /\ Return(t, FALSE, tip)
    /\ UNCHANGED <<tip, fGeneratePrcycoins, request, group, calls, fProofOfStake,
                   interrupted, pindexPrev, block, nNonce, processed>>
    /\ UNCHANGED gateVars

\* 679-689: the lock is released; the key is kept, the request counter
\* reset and BlockFound signalled.
SubmitFresh(t) ==
    /\ pc[t] = "check"
    /\ block[t].prev = tip
    /\ Goto(t, "process")
    /\ UNCHANGED <<tip, fGeneratePrcycoins, request, group, calls, fProofOfStake,
                   interrupted, pindexPrev, block, nNonce, caller,
                   fLastLoopOrphan, processed>>
    /\ UNCHANGED gateVars

\* Consensus checks of ProcessNewBlock the template can fail: the coinbase
\* height and no PoW block past LAST_POW_BLOCK.
BlockValid(b) ==
    /\ b.cbHeight = b.prev + 1
    /\ b.pow => b.prev + 1 <= LAST_POW_BLOCK

\* 692-698: ProcessNewBlock; a valid block on the tip becomes the tip, a
\* valid block on an older block is stored on a side branch.
ProcessNewBlock(t) ==
    /\ pc[t] = "process"
    /\ LET b == block[t]
           newTip == IF BlockValid(b) /\ b.prev = tip THEN tip + 1 ELSE tip
       IN  /\ tip' = newTip
           /\ processed' = processed \cup {[prev |-> b.prev, cbHeight |-> b.cbHeight,
                                              pow |-> b.pow]}
           /\ Return(t, BlockValid(b), newTip)
           /\ hashedRecent' = (hashedRecent /\ newTip = tip)
    /\ UNCHANGED <<fMintableCoins, mintableAge, walletMintable, nodeReady>>
    /\ UNCHANGED <<fGeneratePrcycoins, request, group, calls, fProofOfStake,
                   interrupted, pindexPrev, block, nNonce>>

-----------------------------------------------------------------------------

Init ==
    /\ tip \in InitTips
    /\ fGeneratePrcycoins = FALSE
    /\ request = FALSE
    /\ group = {}
    /\ calls = 0
    /\ pc = [w \in Workers |-> IF w \in StakeMinters THEN "start" ELSE "idle"]
    /\ fProofOfStake = [w \in Workers |-> FALSE]
    /\ interrupted = [w \in Workers |-> FALSE]
    /\ pindexPrev = [w \in Workers |-> -1]
    /\ block = [w \in Workers |-> NoTemplate]
    /\ nNonce = [w \in Workers |-> 0]
    /\ caller = [w \in Workers |-> "pos"]
    /\ fLastLoopOrphan = [w \in Workers |-> FALSE]
    /\ processed = {}
    /\ fMintableCoins = FALSE
    /\ mintableAge = 2
    /\ walletMintable \in BOOLEAN
    /\ nodeReady \in BOOLEAN
    /\ hashedRecent = FALSE

ThreadStep(t) ==
    \/ ThreadStart(t)
    \/ LoopExit(t)
    \/ MintablePoll(t)
    \/ GateSleep(t)
    \/ PoSStop(t)
    \/ HashedWait(t)
    \/ ProceedPoS(t)
    \/ ProceedPoW(t)
    \/ BuildLatePoW(t)
    \/ BuildInterrupted(t)
    \/ BuildNoAddress(t)
    \/ BuildFails(t)
    \/ BuildStart(t)
    \/ Assemble(t)
    \/ SignFails(t)
    \/ Signed(t)
    \/ HashFound(t)
    \/ HashBatch(t)
    \/ SubmitStale(t)
    \/ SubmitFresh(t)
    \/ ProcessNewBlock(t)

Next ==
    \/ \E on \in BOOLEAN, n \in 0..MaxThreadsPerCall : GeneratePrcycoins(on, n)
    \/ PeerBlock
    \/ Tick
    \/ NodeChange
    \/ WalletChange
    \/ \E t \in Workers : ThreadStep(t)

\* Threads are scheduled by the OS: a thread that can run keeps running,
\* and time keeps passing.  The supervisor, peers, the node and the wallet
\* get no fairness.
Fairness == /\ \A t \in Workers : WF_vars(ThreadStep(t))
            /\ WF_vars(Tick)

Spec == Init /\ [][Next]_vars /\ Fairness

-----------------------------------------------------------------------------
(* Properties.                                                             *)

\* Within one template the PoW search never hashes a nonce twice: between
\* two batches on the same block nNonce never goes down, so the 32-bit
\* counter never wraps (the limit check at 880 against the increments at
\* 845).
NonceNeverRepeats ==
    [][\A t \in Workers :
         pc[t] = "hash" /\ pc'[t] = "hash" => nNonce'[t] >= nNonce[t]]_vars

\* A thread of a group that GeneratePrcycoins replaced (interrupt_all, 964)
\* eventually ends, whatever it mines.  On the PoW path a build that
\* returns NULL (639, 451-475) goes straight back to the loop (782-785)
\* with no interruption point on the way.
InterruptedWorkerExits ==
    \A t \in Threads : interrupted[t] ~> pc[t] = "exited"

\* A staking thread of a group that GeneratePrcycoins replaced (interrupt_all,
\* 964) eventually ends unless GenerateAddress keeps failing for it: a
\* failure at 639 comes before the interruption point at 208 and sends it
\* straight back to the loop, as on the PoW path; every other path of the
\* PoS loop passes the sleep of the gate loop (731), the interruption point
\* at 208, or the generate-flag checks.
InterruptedStakerExits ==
    \A t \in Threads :
        ~[]<><<BuildNoAddress(t)>>_vars =>
            (interrupted[t] /\ fProofOfStake[t] ~> pc[t] = "exited")

\* Staking does not stall for good on a stale mintable-coins answer: once
\* the wallet has mintable coins, the node is ready and generation stays
\* on, with a staking thread running that was not interrupted, some thread
\* builds again and again.  A false fMintableCoins cached by the
\* five-minute poll (722-727) is refreshed only by the one-minute re-poll
\* inside the gate loop (734-738), which no thread leaves while it is false.
StakingResumes ==
    (<>[](/\ walletMintable /\ nodeReady /\ fGeneratePrcycoins
          /\ \E t \in Workers : /\ fProofOfStake[t] /\ ~interrupted[t]
                              /\ pc[t] \notin {"idle", "exited"}))
        => []<>(\E t \in Workers : pc[t] = "build")

\* A block ProcessNewBlock receives has the height IncrementExtraNonce wrote
\* into its coinbase (787, from the tip read at 777) equal to one more than
\* its previous block (hashPrevBlock, from the tip read at 257).
CoinbaseHeightMatchesPrev ==
    \A b \in processed : b.cbHeight = b.prev + 1

\* Once GeneratePrcycoins(false) has returned, fGeneratePrcycoins stays
\* false until the next call (953 against the write at 714 of a thread
\* that is still starting).
StopIsSticky ==
    calls > 0 /\ ~request => ~fGeneratePrcycoins

\* After a PoW solution is found (826-834) the thread eventually leaves
\* ProcessBlockFound and goes back to searching, rebuilding or exiting.
PoWSubmissionEnds ==
    \A t \in Threads :
        pc[t] = "check" /\ caller[t] = "pow1" ~> pc[t] \in {"loop", "hash", "exited"}

=============================================================================
