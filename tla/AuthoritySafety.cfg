\* one client whose requests overlap, two records of one scope
SPECIFICATION Spec
CONSTANTS
    Clients = {c1}
    Keys = {k1, k2}
    Records = {r1, r2}
    Scopes = {s1}
    Slots = {p1, p2}
    Grants = {{"active", "propose", "mutate"}, {"propose", "mutate"}}
    MaxWrites = 3
    MaxReads = 2
    Modes = {"confirm", "dry_run", "neither"}
SYMMETRY Symmetry
INVARIANTS
    SupersessionIsAcyclic
    RetryIsReplayed
PROPERTIES
    AppliedToTheStateShown
    RevokedNeverWrites
    RetiredStaysRetired
CHECK_DEADLOCK FALSE
