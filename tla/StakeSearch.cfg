\* ThreadStakeMinter and one PoS thread of GeneratePrcycoins; three seconds.
CONSTANTS
    t1 = t1
    t2 = t2
    Threads = {t1, t2}
    MaxTime = 3
SPECIFICATION Spec
INVARIANT StakeWindowNonNegative
