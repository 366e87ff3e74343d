----------------------------- MODULE AuditLedger -----------------------------
(***************************************************************************)
(* What Proof-of-Audit promises, without the code's search: the chain is a *)
(* sequence of block kinds, and the PoA blocks together audit the PoS      *)
(* blocks in height order, each exactly once.  A new PoA block takes the   *)
(* oldest PoS blocks not yet audited, as many as there are up to           *)
(* MAX_NUM_POS_BLOCKS_AUDITED, and at least one, all below it.             *)
(***************************************************************************)
EXTENDS Integers, Sequences, SequencesExt

CONSTANTS
    LAST_POW_BLOCK,
    START_POA_BLOCK,
    MAX_NUM_POS_BLOCKS_AUDITED,
    MaxHeight

VARIABLES
    blocks,   \* blocks[h] is the kind of the block at height h
    audited   \* the heights audited by the PoA blocks, in chain order

ledgerVars == <<blocks, audited>>

Tip == Len(blocks)

\* The PoS blocks no PoA block has audited yet, oldest first.
Unaudited ==
    SelectSeq([h \in 1..Tip |-> h],
              LAMBDA h : blocks[h] = "pos" /\ h \notin ToSet(audited))

AuditSize == IF Len(Unaudited) < MAX_NUM_POS_BLOCKS_AUDITED
             THEN Len(Unaudited) ELSE MAX_NUM_POS_BLOCKS_AUDITED

LedgerInit ==
    /\ blocks = [h \in 1..LAST_POW_BLOCK |-> "pow"]
    /\ audited = <<>>

Stake ==
    /\ Tip < MaxHeight
    /\ blocks' = Append(blocks, "pos")
    /\ UNCHANGED audited

Audit ==
    /\ Tip < MaxHeight
    /\ Tip >= START_POA_BLOCK
    /\ AuditSize > 0
    /\ audited' = audited \o SubSeq(Unaudited, 1, AuditSize)
    /\ blocks' = Append(blocks, "poa")

LedgerNext == Stake \/ Audit

LedgerSpec == LedgerInit /\ [][LedgerNext]_ledgerVars

=============================================================================
