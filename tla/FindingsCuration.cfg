\* Promises that do not hold, with two sources, each published twice.  TLC stops
\* at the first that is violated; without its line it finds the other.
SPECIFICATION Spec
CONSTANTS
    Archives = {1, 2}
    MaxGenerations = 2
    Groups = {g1, g2}
    Txns = {t1, t2}
    MaxTxns = 3
SYMMETRY Symmetry
INVARIANT
    ErasedStaysErased
PROPERTY
    KeptIsListed
CHECK_DEADLOCK FALSE
