------------------------------ MODULE StakeSearch ------------------------------
(***************************************************************************)
(* The PoS stake search of CreateNewBlock (src/src/miner.cpp 204-233) run  *)
(* by several staking threads at once (ThreadStakeMinter and the PoS       *)
(* threads of GeneratePrcycoins).  The function-static                     *)
(* nLastCoinStakeSearchTime and the global nLastCoinStakeSearchInterval    *)
(* are shared without a lock; each line that reads or writes them is its  *)
(* own step.  Adjusted time is a counter that only grows.                  *)
(***************************************************************************)
EXTENDS Integers

CONSTANTS
    Threads,      \* staking threads
    MaxTime       \* bound on GetAdjustedTime()

VARIABLES
    now,                          \* GetAdjustedTime()
    nLastCoinStakeSearchTime,
    nLastCoinStakeSearchInterval,
    pc,                           \* per thread
    nSearchTime,                  \* per thread
    searchWindow                  \* per thread: interval given to CreateCoinStake

vars == <<now, nLastCoinStakeSearchTime, nLastCoinStakeSearchInterval, pc,
          nSearchTime, searchWindow>>

Goto(t, where) == pc' = [pc EXCEPT ![t] = where]

Tick ==
    /\ now < MaxTime
    /\ now' = now + 1
    /\ UNCHANGED <<nLastCoinStakeSearchTime, nLastCoinStakeSearchInterval, pc,
                   nSearchTime, searchWindow>>

\* 208-212: after the interruption point, nTime and then nSearchTime are
\* the adjusted time.
ReadTime(t) ==
    /\ pc[t] = "idle"
    /\ nSearchTime' = [nSearchTime EXCEPT ![t] = now]
    /\ Goto(t, "check")
    /\ UNCHANGED <<now, nLastCoinStakeSearchTime, nLastCoinStakeSearchInterval,
                   searchWindow>>

\* 214: no search when the last search time is ahead; the build returns
\* NULL (229-232) and the worker loops.
CheckWindow(t) ==
    /\ pc[t] = "check"
    /\ Goto(t, IF nSearchTime[t] >= nLastCoinStakeSearchTime THEN "search" ELSE "idle")
    /\ UNCHANGED <<now, nLastCoinStakeSearchTime, nLastCoinStakeSearchInterval,
                   nSearchTime, searchWindow>>

\* 217: CreateCoinStake searches nSearchTime - nLastCoinStakeSearchTime,
\* reading the static again; whether a stake is found does not change the
\* shared state.
Search(t) ==
    /\ pc[t] = "search"
    /\ searchWindow' = [searchWindow EXCEPT ![t] = nSearchTime[t] - nLastCoinStakeSearchTime]
    /\ Goto(t, "update")
    /\ UNCHANGED <<now, nLastCoinStakeSearchTime, nLastCoinStakeSearchInterval,
                   nSearchTime>>

\* 225-226, then the build ends (NULL, or the rest of CreateNewBlock) and
\* the worker comes back for another build.
Update(t) ==
    /\ pc[t] = "update"
    /\ nLastCoinStakeSearchInterval' = nSearchTime[t] - nLastCoinStakeSearchTime
    /\ nLastCoinStakeSearchTime' = nSearchTime[t]
    /\ Goto(t, "idle")
    /\ UNCHANGED <<now, nSearchTime, searchWindow>>

\* 205: the static is initialised with the adjusted time by the first call.
Init ==
    /\ now = 0
    /\ nLastCoinStakeSearchTime = now
    /\ nLastCoinStakeSearchInterval = 0
    /\ pc = [t \in Threads |-> "idle"]
    /\ nSearchTime = [t \in Threads |-> 0]
    /\ searchWindow = [t \in Threads |-> 0]

Next ==
    \/ Tick
    \/ \E t \in Threads : ReadTime(t) \/ CheckWindow(t) \/ Search(t) \/ Update(t)

Spec == Init /\ [][Next]_vars

-----------------------------------------------------------------------------

\* The check at 214 is there so that CreateCoinStake (217) is only asked to
\* search a window that does not reach back before the last search: the
\* window a thread passes is never negative.
StakeWindowNonNegative ==
    \A t \in Threads : pc[t] = "update" => searchWindow[t] >= 0

=============================================================================
