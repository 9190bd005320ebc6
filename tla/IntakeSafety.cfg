CONSTANTS
    Instances = {A, B}
    Contents = {c}
    Keys = {k}
    Files = {f}
    Ids = {r1, r2, r3}
    Txns = {t1, t2}
    MaxTxns = 3
    MaxBundles = 1
    MaxFaults = 1
SPECIFICATION Spec
INVARIANT FilesAreStored
PROPERTY DeletionTravels
SYMMETRY Symmetry
CHECK_DEADLOCK FALSE
