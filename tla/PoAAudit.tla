------------------------------- MODULE PoAAudit -------------------------------
(***************************************************************************)
(* The PoA template builder of src/src/miner.cpp: GetListOfPoSInfo         *)
(* (103-158) and CreateNewPoABlock (509-607), over an active chain that    *)
(* grows by PoS blocks and by the PoA blocks this builder makes.  A block  *)
(* is its kind, its audit list (heights of PoSBlockSummary entries; hash   *)
(* and nTime are left out), hashPrevPoABlock as a height (0 for null) and  *)
(* the coinbase reward in quarter coins.                                   *)
(***************************************************************************)
EXTENDS Integers, Sequences, SequencesExt

CONSTANTS
    LAST_POW_BLOCK,
    START_POA_BLOCK,
    MAX_NUM_POS_BLOCKS_AUDITED,
    HardFork,           \* Params().HardFork()
    MaxHeight           \* bound on the chain length

ASSUME START_POA_BLOCK >= 1 /\ MAX_NUM_POS_BLOCKS_AUDITED >= 1

NoBlock == 0            \* a null hashPrevPoABlock

VARIABLE chain          \* chainActive: chain[h] is the block at height h

Tip == Len(chain)

PoWBlock == [kind |-> "pow", audits |-> <<>>, prevPoA |-> NoBlock, reward |-> 0]
PoSBlock == [kind |-> "pos", audits |-> <<>>, prevPoA |-> NoBlock, reward |-> 0]

-----------------------------------------------------------------------------
(* GetListOfPoSInfo.                                                       *)

\* 107-113: walk down from the tip to the most recent PoA block, stopping
\* below START_POA_BLOCK.
RECURSIVE ScanBack(_)
ScanBack(nloopIdx) ==
    IF nloopIdx >= START_POA_BLOCK /\ chain[nloopIdx].kind # "poa"
    THEN ScanBack(nloopIdx - 1)
    ELSE nloopIdx

\* 114-123: the first PoA audits the MAX heights after LAST_POW_BLOCK.
FirstAudits == [i \in 1..MAX_NUM_POS_BLOCKS_AUDITED |-> LAST_POW_BLOCK + i]

\* Mutant: the audit resumes at the last audited height itself.
NextAuditHeightStale(lastAuditedHeight) == lastAuditedHeight

\* 133-134.
NextAuditHeight(lastAuditedHeight) == lastAuditedHeight + 1

\* 136-154: PoS blocks from nextAuditHeight up to the current height, until
\* the list holds MAX entries.
RECURSIVE Collect(_, _, _)
Collect(nextAuditHeight, currentHeight, audits) ==
    IF nextAuditHeight > currentHeight THEN audits
    ELSE LET more == IF chain[nextAuditHeight].kind = "pos"
                     THEN Append(audits, nextAuditHeight) ELSE audits
         IN  IF Len(more) = MAX_NUM_POS_BLOCKS_AUDITED THEN more
             ELSE Collect(nextAuditHeight + 1, currentHeight, more)

\* 103-158: the audit list and the index the scan stopped at.
GetListOfPoSInfo(currentHeight) ==
    LET nloopIdx == ScanBack(currentHeight)
    IN  [nloopIdx |-> nloopIdx,
         audits |->
            IF nloopIdx <= START_POA_BLOCK
            THEN FirstAudits
            ELSE Collect(NextAuditHeight(Last(chain[nloopIdx].audits)),
                         currentHeight, <<>>)]

-----------------------------------------------------------------------------
(* CreateNewPoABlock.                                                      *)

\* 556-563: 0.25 COIN per audited block from the hard fork on, else 0.5.
Reward(nAudited, prevHeight) ==
    nAudited * (IF prevHeight >= HardFork THEN 1 ELSE 2)

\* Mutant: hashPrevPoABlock is taken from the scan index unconditionally.
PrevPoAHashUnguarded(nprevPoAHeight) == nprevPoAHeight

\* 583-587.
PrevPoAHash(nprevPoAHeight) ==
    IF nprevPoAHeight >= START_POA_BLOCK THEN nprevPoAHeight ELSE NoBlock

\* 509-607 with the block accepted on the tip.  Returning NULL (tip below
\* START_POA_BLOCK, empty audit list, a failed commitment) changes nothing.
CreateNewPoABlock ==
    /\ Tip < MaxHeight
    /\ Tip >= START_POA_BLOCK
    /\ LET info == GetListOfPoSInfo(Tip)
       IN  /\ info.audits # <<>>
           /\ chain' = Append(chain, [kind |-> "poa",
                                      audits |-> info.audits,
                                      prevPoA |-> PrevPoAHash(info.nloopIdx),
                                      reward |-> Reward(Len(info.audits), Tip)])

\* A PoS block becomes the tip (staked here or received).
StakeBlock ==
    /\ Tip < MaxHeight
    /\ chain' = Append(chain, PoSBlock)

Init == chain = [h \in 1..LAST_POW_BLOCK |-> PoWBlock]

Next == StakeBlock \/ CreateNewPoABlock

Spec == Init /\ [][Next]_chain

-----------------------------------------------------------------------------
(* Properties.                                                             *)

Ledger == INSTANCE AuditLedger
    WITH blocks <- [h \in 1..Tip |-> chain[h].kind],
         audited <- FlattenSeq([h \in 1..Tip |-> chain[h].audits])

\* The PoA blocks GetListOfPoSInfo lets CreateNewPoABlock build audit the
\* PoS blocks in height order, each exactly once, the oldest unaudited
\* first, as many as exist up to MAX: the first-PoA branch (116) and the
\* continuation from the previous PoA's last audited height (134-153)
\* together implement AuditLedger.
PoAImplementsLedger == Ledger!LedgerSpec

\* hashPrevPoABlock of every PoA block (583-587) names the PoA block just
\* below it, or is null for the first one.
PoAChainLinked ==
    \A p \in 1..Tip :
        chain[p].kind = "poa" =>
            LET below == {q \in 1..p - 1 : chain[q].kind = "poa"}
            IN  chain[p].prevPoA = IF below = {} THEN NoBlock
                                   ELSE CHOOSE q \in below : \A r \in below : r <= q

=============================================================================
