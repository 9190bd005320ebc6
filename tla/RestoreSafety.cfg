\* one row, three files: a backup and the snapshots of several restores
SPECIFICATION Spec
CONSTANTS
    h1 = h1
    Rows = {r1}
    Hashes = {h1}
    Hash <- OneContent
    Files = {f1, f2, f3}
    None = None
SYMMETRY Symmetry
INVARIANTS
    TypeOK
    OnlyExposedReturn
    GoodStateIsKept
CHECK_DEADLOCK FALSE
