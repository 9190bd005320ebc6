------------------------- MODULE RestoreProperties --------------------------
(***************************************************************************)
(* What restoring a backup keeps true, and what its comments promise.      *)
(***************************************************************************)
EXTENDS Restore

Resurrected == db.live \intersect gone

\* Outside a restore a deleted row is live only if its deletion or a restore
\* failed in a way that is only logged: the ledger append, the reapply, a
\* timeout, a rollback, a crash, or a deletion overtaken by the ledger read.
OnlyExposedReturn == rs.pc = "idle" => Resurrected \subseteq exposed

\* A restore never loses the last good state: whenever the database is
\* unusable, a snapshot of a usable one is in the backup directory, unless
\* retention took it for an old backup.
GoodStateIsKept ==
    db.healthy \/ purged
    \/ \E f \in Files : files[f].kind = "snapshot" /\ files[f].dump.healthy

-----------------------------------------------------------------------------
(* Promises the code does not keep *)

\* archive/tombstones.py: "the secret never becomes retrievable again
\* regardless of which backup was restored".  Here every deletion has reached
\* the ledger, and the request has answered without a timeout, a failed
\* rollback or an error in its reapply.
DeletedStaysDeleted ==
    /\ rs.pc \in {"succeeded", "failed"} /\ rs.fault = "none"
    /\ \A i \in gone : Hash[i] \in ledger
    => Resurrected = {}

\* backup/service.py: "Restore; on failure, roll back from the safety
\* snapshot."
FailedRestoreRollsBack ==
    rs.pc = "failed" /\ rs.fault = "timeout" => db.healthy

\* backup/service.py: "Recovers all data including audit events and
\* configuration".  When a restore answers that it succeeded, the rows of its
\* backup are there, or were deleted.
SuccessRecoversAll ==
    rs.pc = "succeeded" /\ rs.fault = "none"
        => files[rs.file].dump.live \subseteq db.live \union db.removed
=============================================================================
