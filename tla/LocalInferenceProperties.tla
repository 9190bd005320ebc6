----------------------- MODULE LocalInferenceProperties -----------------------
(* What the callers of the lane rely on, over all processes. *)
EXTENDS LocalInference

\* Capacity one: two tasks are between the advisory lock and its release, in
\* whatever processes, only after the database lost a connection that held it.
LaneIsExclusive ==
    ~lost => \A r, q \in Tasks : StageOf(r) \in Owning /\ StageOf(q) \in Owning => r = q

\* "The lane is quarantined": once a process could not confirm that its model
\* left, no task of any process starts a prompt until that process ended or the
\* database lost its connection.
QuarantineHolds ==
    [][~lost /\ (\E p \in Procs : unhealthy[p]) => \A r \in Tasks : ~Send(r)]_laneVars

\* Nobody waits in vain: every request ends, answered or refused, unless a
\* process other than its own keeps the lane in quarantine.
RequestEnds ==
    \A r \in Tasks :
        StageOf(r) # "idle" ~>
            \/ StageOf(r) = "idle"
            \/ \E p \in Procs \ {Proc(r)} : unhealthy[p] /\ lock # Nobody /\ Proc(lock) = p
=============================================================================
