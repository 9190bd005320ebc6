\* Promises that do not hold, with one row, one backup and one snapshot.  TLC
\* stops at the first that is violated; without its line it finds the other.
SPECIFICATION Spec
CONSTANTS
    h1 = h1
    Rows = {r1}
    Hashes = {h1}
    Hash <- OneContent
    Files = {f1, f2}
    None = None
SYMMETRY Symmetry
INVARIANTS
    FailedRestoreRollsBack
    SuccessRecoversAll
CHECK_DEADLOCK FALSE
