\* one client, its shared space and one more
SPECIFICATION Spec
CONSTANTS
    Clients = {c1}
    Spaces = {1, 2}
    Keys = {k1}
    Payloads = {x, y}
    Archives = {a1, a2}
    GrantSets = {{}, {"read", "write"}}
    Txns = {t1, t2}
    MaxTxns = 3
SYMMETRY Symmetry
INVARIANTS
    OneArchivePerKey
PROPERTIES
    ServedWithinGrants
CHECK_DEADLOCK FALSE
