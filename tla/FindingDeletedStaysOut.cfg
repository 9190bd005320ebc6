\* One import at a time: an older bundle read in after a newer one.
CONSTANTS
    Instances = {A, B}
    Contents = {c}
    Keys = {k}
    Files = {f}
    Ids = {r1, r2, r3}
    Txns = {t1}
    MaxTxns = 3
    MaxBundles = 2
    MaxFaults = 1
SPECIFICATION Spec
PROPERTY DeletedStaysOut
SYMMETRY Symmetry
CHECK_DEADLOCK FALSE
