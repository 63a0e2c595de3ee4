SPECIFICATION FairSpec
CONSTANTS
    Modules = {m1, m2}
    Defaults = {m1}
    MaxOps = 3
    MaxGen = 2
    MaxFaults = 1
INVARIANTS
    ActivationIsSound
PROPERTIES
    ClosingOpensNothing
    RestoreServes
