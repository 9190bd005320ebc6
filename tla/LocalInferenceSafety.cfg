\* two processes with two tasks each
SPECIFICATION FairLaneSpec
CONSTANTS
    Procs = {api, worker}
    Slots = {s1, s2}
    Models = {m1, m2}
    Attempts = 2
    MaxPrompts = 2
    MaxFaults = 1
INVARIANTS
    LaneIsExclusive
PROPERTIES
    QuarantineHolds
    RequestEnds
CHECK_DEADLOCK FALSE
