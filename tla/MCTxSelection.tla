---------------------------- MODULE MCTxSelection ----------------------------
(***************************************************************************)
(* Model-checking instance of TxSelection: three mempool entries, key      *)
(* images k1..k4 with k4 spent on chain, sizes and fees that straddle the  *)
(* budgets so that every skip, the mode switch and the size limit occur.   *)
(***************************************************************************)
EXTENDS TxSelection

CONSTANTS k1, k2, k3, k4

In(k) == [ki |-> k, invalid |-> FALSE]
Bad(k) == [ki |-> k, invalid |-> TRUE]

\* Entries the main run enumerates: every mix of size, fee, priority, key
\* images and script outcome, all final and spending confirmed outputs.
\* <<Bad(k3), In(k4)>> passes the scan through the break at 287 with the
\* spent k4 unchecked, so a spent image can reach the duplicate loop.
MCTxRecords ==
    [size : {500, 1000}, fee : {0, 10000}, prio : {0, 2},
     vin : {<<In(k1)>>, <<In(k2)>>, <<Bad(k3), In(k4)>>, <<In(k1), In(k2)>>,
            <<In(k4)>>},
     parent : {NoTx}, final : {TRUE}, scriptOk : {TRUE, FALSE}]
    \cup
    [size : {500}, fee : {10000}, prio : {2}, vin : {<<In(k2)>>},
     parent : {NoTx, 1}, final : {TRUE, FALSE}, scriptOk : {TRUE}]

\* Entries with an input whose outpoint is in the invalid-outputs set,
\* before or after an input whose key image is spent.
MCInvalidRecords ==
    [size : {500}, fee : {10000}, prio : {2},
     vin : {<<In(k1)>>, <<Bad(k2)>>, <<Bad(k2), In(k4)>>, <<In(k4), Bad(k2)>>},
     parent : {NoTx}, final : {TRUE}, scriptOk : {TRUE}]

\* Entries that pay well and fit: only a dependency can keep one out.
MCDependentRecords ==
    [size : {500}, fee : {10000}, prio : {0, 2}, vin : {<<In(k1)>>, <<In(k2)>>},
     parent : {NoTx, 1, 2}, final : {TRUE}, scriptOk : {TRUE}]

\* Entries that pay well, fit and verify: the only obstacle is a key image.
MCKeyImageRecords ==
    [size : {500}, fee : {10000}, prio : {2},
     vin : {<<In(k1)>>, <<In(k2)>>, <<In(k2), In(k1)>>},
     parent : {NoTx}, final : {TRUE}, scriptOk : {TRUE}]

=============================================================================
