\* two sources, each published twice
SPECIFICATION Spec
CONSTANTS
    Archives = {1, 2}
    MaxGenerations = 2
    Groups = {g1, g2}
    Txns = {t1, t2}
    MaxTxns = 3
SYMMETRY Symmetry
INVARIANTS
    JudgedOnce
    PromotedIsLive
    NoDeadlock
PROPERTIES
    SuppressKeepsCurrent
CHECK_DEADLOCK FALSE
