SPECIFICATION FairSpec
CONSTANTS
    Callers = {c1, c2}
    Threads = {t1, t2}
    Nobody = nobody
    Capacity = 1
INVARIANTS
    ExecutorIsSafe
PROPERTIES
    ExecutorServes
