------------------------------ MODULE Restore -------------------------------
(***************************************************************************)
(* Backups, deletions and the restore of a backup, while the managed       *)
(* switch is off (app/domain/backup/service.py, app/domain/archive/        *)
(* service.py and tombstones.py, app/api/routes/backup.py).                *)
(*                                                                         *)
(* pg_dump reads one snapshot and pg_restore replaces the database, so     *)
(* each is an action; requests of other users come between the stages of   *)
(* a restore.  pg_restore, whose exit code the code ignores, brings back   *)
(* all rows of an archive, or the tables without the rows, or changes      *)
(* nothing, and may lose a core table in each case; a file that was        *)
(* removed leaves the database as it was.  One restore runs at a time.     *)
(* An operator named ..._Bug is a faulty variant of the definition that    *)
(* follows it, kept to show that some property notices it.                 *)
(***************************************************************************)
EXTENDS Naturals, FiniteSets

CONSTANTS
    Rows,       \* raw_archive rows ever inserted
    Hashes,     \* content hashes
    Hash,       \* the content hash of each row
    Files,      \* places for dump files in the backup directory
    None        \* not a file

ASSUME ConstantsAssumption == Hash \in [Rows -> Hashes] /\ None \notin Files

VARIABLES
    db,       \* the database: its live and its erased rows
    born,     \* history: rows inserted so far
    gone,     \* history: rows whose deletion was committed
    exposed,  \* history: rows that a failure of a named kind may bring back
    pending,  \* deletions committed and not yet appended to the ledger
    ledger,   \* content hashes in the external tombstone ledger
    files,    \* what the backup directory holds
    purged,   \* history: retention removed a snapshot that was retained
    rs        \* the running restore request

vars == <<db, born, gone, exposed, pending, ledger, files, purged, rs>>

-----------------------------------------------------------------------------

Database == [healthy : BOOLEAN,      \* the core tables exist
             live    : SUBSET Rows,  \* deleted_at is null
             removed : SUBSET Rows]  \* erased, with a tombstone row

Kinds == {"none", "backup", "snapshot"}
File  == [kind : Kinds, dump : Database]
Faults == {"none", "timeout", "rollback", "reapply"}
Stages == {"idle", "snapshot", "restore", "validate", "rollback", "ledger",
           "reapply", "unlink", "succeeded", "failed"}

\* read is the ledger as the reapply has read it
Request == [pc : Stages, file : Files \union {None}, snap : Files \union {None},
            read : SUBSET Hashes, fault : Faults]

Empty == [healthy |-> TRUE, live |-> {}, removed |-> {}]
NoFile == [kind |-> "none", dump |-> Empty]
Idle == [pc |-> "idle", file |-> None, snap |-> None, read |-> {},
         fault |-> "none"]

TypeOK ==
    /\ db \in Database
    /\ born \subseteq Rows /\ gone \subseteq Rows /\ exposed \subseteq Rows
    /\ pending \subseteq Rows
    /\ ledger \subseteq Hashes
    /\ files \in [Files -> File]
    /\ purged \in BOOLEAN
    /\ rs \in Request
    /\ db.live \union db.removed \subseteq born /\ db.live \intersect db.removed = {}

Goto(stage) == rs' = [rs EXCEPT !.pc = stage]
Free(f)     == files[f].kind = "none"
Unlinked(f) == [files EXCEPT ![f] = NoFile]

\* rows a step brings back in a way no later stage repairs
Exposes(state) == exposed' = exposed \union (state.live \intersect gone)

-----------------------------------------------------------------------------
(* Users *)

Ingest(i) ==
    /\ db.healthy
    /\ i \notin born
    /\ born' = born \union {i}
    /\ db' = [db EXCEPT !.live = @ \union {i}]
    /\ UNCHANGED <<gone, exposed, pending, ledger, files, purged, rs>>

\* cascade_delete_archive_item up to its commit
Delete(i) ==
    /\ db.healthy
    /\ i \in db.live
    /\ db' = [db EXCEPT !.live = @ \ {i}, !.removed = @ \union {i}]
    /\ gone' = gone \union {i}
    /\ pending' = pending \union {i}
    /\ UNCHANGED <<born, exposed, ledger, files, purged, rs>>

\* append_tombstone_ledger
Append(i) ==
    /\ i \in pending
    /\ ledger' = ledger \union {Hash[i]}
    /\ pending' = pending \ {i}
    /\ UNCHANGED <<db, born, gone, exposed, files, purged, rs>>

\* the append fails, which is only logged, or the process dies in front of it
AppendFails(i) ==
    /\ i \in pending
    /\ pending' = pending \ {i}
    /\ exposed' = exposed \union {i}
    /\ UNCHANGED <<db, born, gone, ledger, files, purged, rs>>

\* create_backup
Backup(f) ==
    /\ Free(f) /\ f # rs.file   \* names carry the time and are not used again
    /\ files' = [files EXCEPT ![f] = [kind |-> "backup", dump |-> db]]
    /\ UNCHANGED <<db, born, gone, exposed, pending, ledger, rs, purged>>

\* One iteration of delete_old_backups over "*.dump", which matches the
\* snapshots too.  A running restore is younger than the retention.
DeleteOldBackup(f) ==
    /\ ~Free(f) /\ f # rs.snap
    /\ files' = Unlinked(f)
    /\ purged' = (purged \/ files[f].kind = "snapshot")
    /\ UNCHANGED <<db, born, gone, exposed, pending, ledger, rs>>

-----------------------------------------------------------------------------
(* restore_backup, stage by stage *)

\* path, archive and retirement checks pass; a retained snapshot may be named too
Begin(f) ==
    /\ rs.pc = "idle"
    /\ ~Free(f)
    /\ rs' = [Idle EXCEPT !.pc = "snapshot", !.file = f]
    /\ UNCHANGED <<db, born, gone, exposed, pending, ledger, files, purged>>

TakeSnapshot(f) ==
    /\ rs.pc = "snapshot"
    /\ Free(f) /\ f # rs.file
    /\ files' = [files EXCEPT ![f] = [kind |-> "snapshot", dump |-> db]]
    /\ rs' = [rs EXCEPT !.pc = "restore", !.snap = f]
    /\ UNCHANGED <<db, born, gone, exposed, pending, ledger, purged>>

SnapshotFails ==
    /\ rs.pc = "snapshot"
    /\ Goto("failed")
    /\ UNCHANGED <<db, born, gone, exposed, pending, ledger, files, purged>>

WithoutRows(state) == [state EXCEPT !.live = {}, !.removed = {}]
Broken(state)      == [state EXCEPT !.healthy = FALSE]

\* what pg_restore of a file leaves behind
Restored(f) ==
    LET ends == {db, files[f].dump, WithoutRows(files[f].dump)}
    IN  IF Free(f) THEN {db} ELSE ends \union {Broken(state) : state \in ends}

PgRestore ==
    /\ rs.pc = "restore"
    /\ db' \in Restored(rs.file)
    /\ Goto("validate")
    /\ UNCHANGED <<born, gone, exposed, pending, ledger, files, purged>>

\* the call is outside the handler: a timeout leaves at once
PgRestoreTimesOut ==
    /\ rs.pc = "restore"
    /\ db' \in Restored(rs.file) \union {Broken(db)}
    /\ rs' = [rs EXCEPT !.pc = "failed", !.fault = "timeout"]
    /\ Exposes(db')
    /\ UNCHANGED <<born, gone, pending, ledger, files, purged>>

\* _validate_restored_db, which may also fail to connect
Validate ==
    /\ rs.pc = "validate"
    /\ (db.healthy /\ Goto("ledger")) \/ Goto("rollback")
    /\ UNCHANGED <<db, born, gone, exposed, pending, ledger, files, purged>>

\* the rollback validates: the snapshot is consumed and the restore has failed
RollBack ==
    /\ rs.pc = "rollback"
    /\ db' \in Restored(rs.snap)
    /\ db'.healthy
    /\ files' = Unlinked(rs.snap)
    /\ Exposes(db')
    /\ Goto("failed")
    /\ UNCHANGED <<born, gone, pending, ledger, purged>>

UnlinksAnyway_Bug ==
    /\ rs.pc = "rollback"
    /\ db' \in Restored(rs.snap)
    /\ files' = Unlinked(rs.snap)
    /\ Exposes(db')
    /\ Goto("failed")
    /\ UNCHANGED <<born, gone, pending, ledger, purged>>

\* the rollback times out or does not validate: the snapshot is retained
RollBackFails ==
    /\ rs.pc = "rollback"
    /\ db' \in Restored(rs.snap)
    /\ Exposes(db')
    /\ rs' = [rs EXCEPT !.pc = "failed", !.fault = "rollback"]
    /\ UNCHANGED <<born, gone, pending, ledger, files, purged>>

\* read_tombstone_ledger, in front of any lock
ReadLedger ==
    /\ rs.pc = "ledger"
    /\ rs' = [rs EXCEPT !.pc = "reapply", !.read = ledger]
    /\ exposed' = exposed \union (pending \intersect db.live)
    /\ UNCHANGED <<db, born, gone, pending, ledger, files, purged>>

TombstoneRowsOnly_Bug(seen) ==
    {i \in db.live : \E j \in db.removed : Hash[j] = Hash[i]}

\* the live rows the ledger covers
Covered(seen) == {i \in db.live : Hash[i] \in seen}

KeepsRowLive_Bug ==
    /\ rs.pc = "reapply"
    /\ db' = [db EXCEPT !.removed = @ \union Covered(rs.read)]
    /\ Goto("unlink")
    /\ UNCHANGED <<born, gone, exposed, pending, ledger, files, purged>>

\* reapply_tombstones under the row locks
Reapply ==
    /\ rs.pc = "reapply"
    /\ db' = [db EXCEPT !.live = @ \ Covered(rs.read),
                        !.removed = @ \union Covered(rs.read)]
    /\ Goto("unlink")
    /\ UNCHANGED <<born, gone, exposed, pending, ledger, files, purged>>

\* a failure while reapplying is logged and the restore succeeds
ReapplyFails ==
    /\ rs.pc \in {"ledger", "reapply"}
    /\ Exposes(db)
    /\ rs' = [rs EXCEPT !.pc = "unlink", !.fault = "reapply"]
    /\ UNCHANGED <<db, born, gone, pending, ledger, files, purged>>

Unlink ==
    /\ rs.pc = "unlink"
    /\ files' = Unlinked(rs.snap)
    /\ Goto("succeeded")
    /\ UNCHANGED <<db, born, gone, exposed, pending, ledger, purged>>

\* the response is sent
Answer ==
    /\ rs.pc \in {"succeeded", "failed"}
    /\ rs' = Idle
    /\ UNCHANGED <<db, born, gone, exposed, pending, ledger, files, purged>>

\* the process dies; no start-up code reapplies or cleans up
Crash ==
    /\ rs.pc # "idle"
    /\ rs' = Idle
    /\ Exposes(db)
    /\ UNCHANGED <<db, born, gone, pending, ledger, files, purged>>

-----------------------------------------------------------------------------

Init ==
    /\ db = Empty
    /\ born = {} /\ gone = {} /\ exposed = {} /\ pending = {} /\ ledger = {}
    /\ files = [f \in Files |-> NoFile]
    /\ purged = FALSE
    /\ rs = Idle

Restoring ==
    \/ \E f \in Files : Begin(f) \/ TakeSnapshot(f)
    \/ SnapshotFails \/ PgRestore \/ PgRestoreTimesOut \/ Validate
    \/ RollBack \/ RollBackFails \/ ReadLedger \/ Reapply \/ ReapplyFails
    \/ Unlink \/ Answer \/ Crash

Next ==
    \/ \E i \in Rows : Ingest(i) \/ Delete(i) \/ Append(i) \/ AppendFails(i)
    \/ \E f \in Files : Backup(f) \/ DeleteOldBackup(f)
    \/ Restoring

Spec == Init /\ [][Next]_vars
=============================================================================
