SPECIFICATION FairSpec
CONSTANTS
    a = a
    b = b
    j1 = j1
    j2 = j2
    s1 = s1
    s2 = s2
    Modules = {a, b}
    Jobs = {j1, j2}
    Subs = {s1, s2}
    Sites <- MCSites
INVARIANTS
    CollectionIsSafe
PROPERTIES
    CommitsStand
    CollectionProgresses
