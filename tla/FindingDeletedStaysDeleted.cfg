\* one row, one backup and one snapshot
SPECIFICATION Spec
CONSTANTS
    h1 = h1
    Rows = {r1}
    Hashes = {h1}
    Hash <- OneContent
    Files = {f1, f2}
    None = None
SYMMETRY Symmetry
INVARIANT DeletedStaysDeleted
CHECK_DEADLOCK FALSE
