--------------------------- MODULE RestoreProofs ----------------------------
(***************************************************************************)
(* The invariants of Restore for every number of rows and files: type      *)
(* correctness, that deleted rows come back only by a named failure, and   *)
(* that a usable state is kept until retention takes it.                   *)
(***************************************************************************)
EXTENDS RestoreProperties, TLAPS

Users == \E i \in Rows : Ingest(i) \/ Delete(i) \/ Append(i) \/ AppendFails(i)
Directory == \E f \in Files : Backup(f) \/ DeleteOldBackup(f)

\* What a dump holds was once ingested, and no row is in it twice.
Consistent(state) ==
    /\ state.live \union state.removed \subseteq born
    /\ state.live \intersect state.removed = {}

\* the stages that still need the snapshot
Snapped == {"restore", "validate", "rollback", "ledger", "reapply", "unlink"}

Held ==
    /\ TypeOK
    /\ gone \subseteq born
    /\ \A f \in Files : Consistent(files[f].dump)
    /\ rs.pc \in Snapped => rs.snap \in Files
    /\ rs.pc \in {"snapshot", "restore"} => rs.file \in Files

-----------------------------------------------------------------------------

\* The initial state satisfies the typing and the consistency of dumps.
LEMMA HeldInitially == ASSUME Init PROVE Held
  BY DEF Init, Held, TypeOK, Database, Empty, File, Kinds, NoFile, Request, Idle,
     Stages, Faults, Consistent, Snapped

\* Steps of users keep the typing and the consistency of dumps.
LEMMA UsersHold == ASSUME Held, Users PROVE Held'
<1>1. ASSUME NEW i \in Rows, Ingest(i) PROVE Held'
  BY <1>1 DEF Held, Ingest, TypeOK, Database, Consistent
<1>2. ASSUME NEW i \in Rows, Delete(i) PROVE Held'
  BY <1>2 DEF Held, Delete, TypeOK, Database, Consistent
<1>3. ASSUME NEW i \in Rows, Append(i) PROVE Held'
  BY <1>3, ConstantsAssumption DEF Held, Append, TypeOK, Consistent
<1>4. ASSUME NEW i \in Rows, AppendFails(i) PROVE Held'
  BY <1>4 DEF Held, AppendFails, TypeOK, Consistent
<1> QED BY <1>1, <1>2, <1>3, <1>4 DEF Users

\* The files a step of the backup directory leaves behind are files.
LEMMA DirectoryHolds == ASSUME Held, Directory PROVE Held'
<1>1. ASSUME NEW f \in Files, Backup(f) PROVE Held'
  <2>1. files' \in [Files -> File]
    BY <1>1 DEF Held, TypeOK, Backup, File, Kinds
  <2>2. \A g \in Files : Consistent(files'[g].dump)
    BY <1>1 DEF Held, TypeOK, Backup, File, Consistent
  <2> QED BY <1>1, <2>1, <2>2 DEF Held, TypeOK, Backup, Consistent
<1>2. ASSUME NEW f \in Files, DeleteOldBackup(f) PROVE Held'
  <2>1. NoFile \in File /\ NoFile.dump.live = {} /\ NoFile.dump.removed = {}
    BY DEF NoFile, File, Kinds, Empty, Database
  <2>2. files' \in [Files -> File]
    BY <1>2, <2>1 DEF Held, TypeOK, DeleteOldBackup, Unlinked
  <2>3. \A g \in Files : Consistent(files'[g].dump)
    BY <1>2, <2>1 DEF Held, TypeOK, DeleteOldBackup, Unlinked, Consistent
  <2>4. purged' \in BOOLEAN
    BY <1>2 DEF Held, TypeOK, DeleteOldBackup
  <2> QED BY <1>2, <2>2, <2>3, <2>4 DEF Held, TypeOK, DeleteOldBackup, Consistent
<1> QED BY <1>1, <1>2 DEF Directory

\* What pg_restore leaves behind is a consistent database.
LEMMA RestoredIsConsistent ==
  ASSUME Held, NEW f \in Files, NEW state \in Restored(f)
  PROVE  state \in Database /\ Consistent(state)
<1>1. files[f].dump \in Database /\ Consistent(files[f].dump)
  BY DEF Held, TypeOK, File
<1>2. db \in Database /\ Consistent(db)
  BY DEF Held, TypeOK, Consistent
<1> DEFINE ends == {db, files[f].dump, WithoutRows(files[f].dump)}
<1>3. state = db \/ state \in ends \/ \E end \in ends : state = Broken(end)
  BY DEF Restored
<1>4. ASSUME NEW end \in Database, Consistent(end)
      PROVE  /\ WithoutRows(end) \in Database /\ Consistent(WithoutRows(end))
             /\ Broken(end) \in Database /\ Consistent(Broken(end))
  BY <1>4 DEF Database, Consistent, WithoutRows, Broken
<1>5. \A end \in ends : end \in Database /\ Consistent(end)
  BY <1>1, <1>2, <1>4
<1> HIDE DEF ends
<1> QED BY <1>2, <1>3, <1>4, <1>5

\* The stages in front of pg_restore, and the two ways of leaving at once.
LEMMA PreparationHolds ==
  ASSUME Held,
         (\E f \in Files : Begin(f) \/ TakeSnapshot(f)) \/ SnapshotFails
         \/ Answer \/ Crash
  PROVE  Held'
<1>1. Idle \in Request /\ Idle.pc = "idle"
  BY DEF Idle, Request, Stages, Faults
<1>2. ASSUME NEW f \in Files, Begin(f) PROVE Held'
  <2>1. rs' \in Request /\ rs'.pc = "snapshot" /\ rs'.file = f
    BY <1>2, <1>1 DEF Begin, Idle, Request, Stages, Faults
  <2> QED BY <1>2, <2>1 DEF Held, TypeOK, Begin, Consistent, Snapped
<1>3. ASSUME NEW f \in Files, TakeSnapshot(f) PROVE Held'
  <2>1. rs' \in Request /\ rs'.snap = f /\ rs'.file = rs.file /\ rs'.pc = "restore"
    BY <1>3 DEF Held, TypeOK, TakeSnapshot, Request, Stages
  <2>2. files' \in [Files -> File]
    BY <1>3 DEF Held, TypeOK, TakeSnapshot, File, Kinds
  <2>3. \A g \in Files : Consistent(files'[g].dump)
    BY <1>3 DEF Held, TypeOK, TakeSnapshot, File, Consistent
  <2> QED BY <1>3, <2>1, <2>2, <2>3 DEF Held, TypeOK, TakeSnapshot, Consistent
<1>4. ASSUME SnapshotFails PROVE Held'
  BY <1>4 DEF Held, TypeOK, SnapshotFails, Goto, Consistent, Snapped, Request, Stages
<1>5. ASSUME Answer PROVE Held'
  BY <1>5, <1>1 DEF Held, TypeOK, Answer, Consistent, Snapped
<1>6. ASSUME Crash PROVE Held'
  BY <1>6, <1>1 DEF Held, TypeOK, Crash, Exposes, Database, Consistent, Snapped
<1> QED BY <1>2, <1>3, <1>4, <1>5, <1>6

\* pg_restore, its timeout and the two ends of a rollback.
LEMMA ReplacementHolds ==
  ASSUME Held, PgRestore \/ PgRestoreTimesOut \/ RollBack \/ RollBackFails
  PROVE  Held'
<1>1. ASSUME PgRestore PROVE Held'
  <2>1. db' \in Database /\ Consistent(db')
    BY <1>1, RestoredIsConsistent DEF PgRestore, Held
  <2>2. rs' \in Request /\ rs'.pc = "validate" /\ rs'.snap = rs.snap
    BY <1>1 DEF Held, TypeOK, PgRestore, Goto, Request, Stages
  <2> QED BY <1>1, <2>1, <2>2 DEF Held, TypeOK, PgRestore, Consistent, Snapped
<1>2. ASSUME PgRestoreTimesOut PROVE Held'
  <2>1. db' \in Database /\ Consistent(db')
    <3>1. Broken(db) \in Database /\ Consistent(Broken(db))
      BY DEF Held, TypeOK, Database, Consistent, Broken
    <3> QED BY <1>2, <3>1, RestoredIsConsistent DEF PgRestoreTimesOut, Held
  <2>2. rs' \in Request /\ rs'.pc = "failed"
    BY <1>2 DEF Held, TypeOK, PgRestoreTimesOut, Request, Stages, Faults
  <2>3. exposed' \subseteq Rows
    BY <1>2, <2>1 DEF Held, TypeOK, PgRestoreTimesOut, Exposes, Database
  <2> QED
    BY <1>2, <2>1, <2>2, <2>3 DEF Held, TypeOK, PgRestoreTimesOut, Consistent, Snapped
<1>3. ASSUME RollBack \/ RollBackFails PROVE Held'
  <2>1. rs.snap \in Files
    BY <1>3 DEF RollBack, RollBackFails, Held, Snapped
  <2>2. db' \in Database /\ Consistent(db')
    BY <1>3, <2>1, RestoredIsConsistent DEF RollBack, RollBackFails, Held, TypeOK, Consistent
  <2>3. rs' \in Request /\ rs'.pc = "failed"
    BY <1>3 DEF Held, TypeOK, RollBack, RollBackFails, Goto, Request, Stages, Faults
  <2>4. exposed' \subseteq Rows
    BY <1>3, <2>2 DEF Held, TypeOK, RollBack, RollBackFails, Exposes, Database
  <2>5. NoFile \in File /\ NoFile.dump.live = {} /\ NoFile.dump.removed = {}
    BY DEF NoFile, File, Kinds, Empty, Database
  <2>6. files' \in [Files -> File] /\ \A g \in Files : files'[g] \in {files[g], NoFile}
    BY <1>3, <2>5 DEF Held, TypeOK, RollBack, RollBackFails, Unlinked
  <2>7. \A g \in Files : Consistent(files'[g].dump)
    BY <2>5, <2>6 DEF Held, Consistent
  <2> QED
    BY <1>3, <2>2, <2>3, <2>4, <2>6, <2>7
    DEF Held, TypeOK, RollBack, RollBackFails, Consistent, Snapped
<1> QED BY <1>1, <1>2, <1>3

\* The stages after pg_restore.
LEMMA CompletionHolds ==
  ASSUME Held, Validate \/ ReadLedger \/ Reapply \/ ReapplyFails \/ Unlink
  PROVE  Held'
<1>1. ASSUME Validate PROVE Held'
  BY <1>1 DEF Held, TypeOK, Validate, Goto, Request, Stages, Consistent, Snapped
<1>2. ASSUME ReadLedger PROVE Held'
  BY <1>2 DEF Held, TypeOK, ReadLedger, Request, Stages, Consistent, Snapped
<1>3. ASSUME Reapply PROVE Held'
  <2>1. rs' \in Request /\ rs'.pc = "unlink" /\ rs'.snap = rs.snap
    BY <1>3 DEF Held, TypeOK, Reapply, Goto, Request, Stages
  <2>2. db' \in Database /\ Consistent(db')
    BY <1>3 DEF Held, TypeOK, Reapply, Covered, Database, Consistent
  <2> QED BY <1>3, <2>1, <2>2 DEF Held, TypeOK, Reapply, Consistent, Snapped
<1>4. ASSUME ReapplyFails PROVE Held'
  BY <1>4 DEF Held, TypeOK, ReapplyFails, Exposes, Database, Request, Stages, Faults,
     Consistent, Snapped
<1>5. ASSUME Unlink PROVE Held'
  <2>1. rs' \in Request /\ rs'.pc = "succeeded"
    BY <1>5 DEF Held, TypeOK, Unlink, Goto, Request, Stages
  <2>2. NoFile \in File /\ NoFile.dump.live = {} /\ NoFile.dump.removed = {}
    BY DEF NoFile, File, Kinds, Empty, Database
  <2>3. files' \in [Files -> File] /\ \A g \in Files : files'[g] \in {files[g], NoFile}
    BY <1>5, <2>2 DEF Held, TypeOK, Unlink, Unlinked
  <2>4. \A g \in Files : Consistent(files'[g].dump)
    BY <2>2, <2>3 DEF Held, Consistent
  <2> QED BY <1>5, <2>1, <2>3, <2>4 DEF Held, TypeOK, Unlink, Consistent, Snapped
<1> QED BY <1>1, <1>2, <1>3, <1>4, <1>5

\* Every step keeps the typing and the consistency of dumps.
LEMMA StepHolds == ASSUME Held, [Next]_vars PROVE Held'
<1>1. CASE Users \/ Directory
  BY <1>1, UsersHold, DirectoryHolds
<1>2. CASE Restoring
  BY <1>2, PreparationHolds, ReplacementHolds, CompletionHolds DEF Restoring
<1>3. CASE UNCHANGED vars
  BY <1>3 DEF vars, Held, TypeOK, Consistent
<1> QED BY <1>1, <1>2, <1>3 DEF Next, Users, Directory

\* Every reachable state is well typed: no row is both readable and erased.
THEOREM TypeCorrect == Spec => []TypeOK
<1>1. Held => TypeOK BY DEF Held
<1>2. Held /\ [Next]_vars => Held' BY StepHolds
<1> QED BY <1>1, <1>2, HeldInitially, PTL DEF Spec

-----------------------------------------------------------------------------

\* Every committed deletion is known to the ledger, on its way there, or has
\* been exposed; the reapply has read all that matters to it; and outside the
\* stages between pg_restore and the reapply only exposed rows are back.
LedgerCovers ==
    /\ \A i \in gone : Hash[i] \in ledger \/ i \in pending \/ i \in exposed
    /\ rs.pc = "reapply" =>
         \A i \in Resurrected : Hash[i] \in rs.read \/ i \in exposed
    /\ rs.pc \notin {"validate", "rollback", "ledger", "reapply"} =>
         Resurrected \subseteq exposed

\* Steps of users and of the backup directory keep LedgerCovers.
LEMMA OthersCover ==
  ASSUME Held, LedgerCovers, Users \/ Directory PROVE LedgerCovers'
<1>1. ASSUME NEW i \in Rows, Ingest(i) PROVE LedgerCovers'
  <2>1. db'.live = db.live \union {i} /\ i \notin gone
    BY <1>1 DEF Held, TypeOK, Database, Ingest
  <2> QED BY <1>1, <2>1 DEF LedgerCovers, Resurrected, Ingest
<1>2. ASSUME NEW i \in Rows, Delete(i) PROVE LedgerCovers'
  <2>1. db'.live = db.live \ {i}
    BY <1>2 DEF Held, TypeOK, Database, Delete
  <2> QED BY <1>2, <2>1 DEF LedgerCovers, Resurrected, Delete
<1>3. ASSUME NEW i \in Rows, Append(i) PROVE LedgerCovers'
  BY <1>3 DEF LedgerCovers, Resurrected, Append
<1>4. ASSUME NEW i \in Rows, AppendFails(i) PROVE LedgerCovers'
  BY <1>4 DEF LedgerCovers, Resurrected, AppendFails
<1>5. ASSUME NEW f \in Files, Backup(f) \/ DeleteOldBackup(f) PROVE LedgerCovers'
  BY <1>5 DEF LedgerCovers, Resurrected, Backup, DeleteOldBackup
<1> QED BY <1>1, <1>2, <1>3, <1>4, <1>5 DEF Users, Directory

\* The stages of a restore keep LedgerCovers.
LEMMA RestoringCovers ==
  ASSUME Held, LedgerCovers, Restoring PROVE LedgerCovers'
<1>0. rs \in Request
  BY DEF Held, TypeOK
<1>1. ASSUME NEW f \in Files, Begin(f) PROVE LedgerCovers'
  <2>1. rs'.pc = "snapshot"
    BY <1>1 DEF Begin, Idle
  <2> QED BY <1>1, <2>1 DEF LedgerCovers, Resurrected, Begin
<1>2. ASSUME NEW f \in Files, TakeSnapshot(f) PROVE LedgerCovers'
  <2>1. rs'.pc = "restore"
    BY <1>0, <1>2 DEF TakeSnapshot, Request
  <2> QED BY <1>2, <2>1 DEF LedgerCovers, Resurrected, TakeSnapshot
<1>3. ASSUME SnapshotFails PROVE LedgerCovers'
  BY <1>0, <1>3 DEF LedgerCovers, Resurrected, SnapshotFails, Goto, Request
<1>4. ASSUME PgRestore PROVE LedgerCovers'
  BY <1>0, <1>4 DEF LedgerCovers, Resurrected, PgRestore, Goto, Request
<1>5. ASSUME PgRestoreTimesOut \/ RollBack \/ RollBackFails PROVE LedgerCovers'
  <2>1. rs'.pc = "failed"
    BY <1>0, <1>5 DEF PgRestoreTimesOut, RollBack, RollBackFails, Goto, Request
  <2>2. exposed' = exposed \union (db'.live \intersect gone)
    BY <1>5 DEF PgRestoreTimesOut, RollBack, RollBackFails, Exposes
  <2>3. UNCHANGED <<gone, ledger, pending>>
    BY <1>5 DEF PgRestoreTimesOut, RollBack, RollBackFails
  <2> QED BY <2>1, <2>2, <2>3 DEF LedgerCovers, Resurrected
<1>6. ASSUME Validate PROVE LedgerCovers'
  <2>1. rs'.pc \in {"ledger", "rollback"}
    BY <1>0, <1>6 DEF Validate, Goto, Request
  <2> QED BY <1>6, <2>1 DEF LedgerCovers, Resurrected, Validate
<1>7. ASSUME ReadLedger PROVE LedgerCovers'
  <2>1. rs'.pc = "reapply" /\ rs'.read = ledger
    BY <1>0, <1>7 DEF ReadLedger, Request
  <2> QED BY <1>7, <2>1 DEF LedgerCovers, Resurrected, ReadLedger
<1>8. ASSUME Reapply PROVE LedgerCovers'
  <2>1. rs'.pc = "unlink"
    BY <1>0, <1>8 DEF Reapply, Goto, Request
  <2>2. db'.live = db.live \ Covered(rs.read)
    BY <1>8 DEF Held, TypeOK, Database, Reapply
  <2> QED BY <1>8, <2>1, <2>2 DEF LedgerCovers, Resurrected, Reapply, Covered
<1>9. ASSUME ReapplyFails \/ Crash PROVE LedgerCovers'
  <2>1. rs'.pc \in {"unlink", "idle"}
    <3>1. CASE ReapplyFails
      BY <1>0, <3>1 DEF ReapplyFails, Request
    <3>2. CASE Crash
      BY <3>2 DEF Crash, Idle
    <3> QED BY <1>9, <3>1, <3>2
  <2>2. exposed' = exposed \union (db.live \intersect gone)
    BY <1>9 DEF ReapplyFails, Crash, Exposes
  <2>3. UNCHANGED <<db, gone, ledger, pending>>
    BY <1>9 DEF ReapplyFails, Crash
  <2> QED BY <2>1, <2>2, <2>3 DEF LedgerCovers, Resurrected
<1>10. ASSUME Unlink \/ Answer PROVE LedgerCovers'
  <2>1. rs.pc \in {"unlink", "succeeded", "failed"} /\ rs'.pc \in {"succeeded", "idle"}
    BY <1>0, <1>10 DEF Unlink, Answer, Goto, Idle, Request
  <2> QED BY <1>10, <2>1 DEF LedgerCovers, Resurrected, Unlink, Answer
<1> QED
  BY <1>1, <1>2, <1>3, <1>4, <1>5, <1>6, <1>7, <1>8, <1>9, <1>10 DEF Restoring

\* A deleted row is live again only by a failure the code names.
THEOREM DeletedRowsReturnOnlyExposed == Spec => []OnlyExposedReturn
<1>1. Init => LedgerCovers
  BY DEF Init, LedgerCovers, Resurrected, Empty, Idle
<1>2. ASSUME Held, LedgerCovers, [Next]_vars PROVE LedgerCovers'
  <2>1. CASE UNCHANGED vars
    BY <1>2, <2>1 DEF vars, LedgerCovers, Resurrected
  <2> QED
    BY <1>2, <2>1, OthersCover, RestoringCovers DEF Next, Users, Directory
<1>3. LedgerCovers => OnlyExposedReturn
  BY DEF LedgerCovers, OnlyExposedReturn
<1>4. Held /\ [Next]_vars => Held' BY StepHolds
<1>5. LedgerCovers /\ Held /\ [Next]_vars => LedgerCovers' BY <1>2
<1> QED BY <1>1, <1>3, <1>4, <1>5, HeldInitially, PTL DEF Spec

-----------------------------------------------------------------------------

GoodSnapshot ==
    purged \/ \E f \in Files : files[f].kind = "snapshot" /\ files[f].dump.healthy

\* From the snapshot to the verdict the good state is in the directory; once
\* the database has been judged healthy it is in the database.
Recoverable ==
    /\ rs.pc \in {"restore", "validate", "rollback"} => GoodSnapshot
    /\ rs.pc \in {"ledger", "reapply", "unlink", "succeeded"} => db.healthy
    /\ db.healthy \/ GoodSnapshot

\* Steps of users and of the backup directory keep a good state.
LEMMA OthersKeepGoodState ==
  ASSUME Held, Recoverable, Users \/ Directory PROVE Recoverable'
<1>1. ASSUME Users PROVE Recoverable'
  <2>1. db'.healthy = db.healthy
    BY <1>1 DEF Held, TypeOK, Database, Users, Ingest, Delete, Append, AppendFails
  <2>2. UNCHANGED <<files, purged, rs>>
    BY <1>1 DEF Users, Ingest, Delete, Append, AppendFails
  <2> QED BY <2>1, <2>2 DEF Recoverable, GoodSnapshot
<1>2. ASSUME NEW f \in Files, Backup(f) PROVE Recoverable'
  <2>1. GoodSnapshot => GoodSnapshot'
    BY <1>2 DEF Held, TypeOK, GoodSnapshot, Backup, Free
  <2> QED BY <1>2, <2>1 DEF Recoverable, Backup
<1>3. ASSUME NEW f \in Files, DeleteOldBackup(f) PROVE Recoverable'
  <2>1. GoodSnapshot => GoodSnapshot'
    BY <1>3 DEF Held, TypeOK, GoodSnapshot, DeleteOldBackup, Unlinked
  <2> QED BY <1>3, <2>1 DEF Recoverable, DeleteOldBackup
<1> QED BY <1>1, <1>2, <1>3 DEF Directory

\* The stages of a restore keep a good state.
LEMMA RestoringKeepsGoodState ==
  ASSUME Held, Recoverable, Restoring PROVE Recoverable'
<1>0. rs \in Request
  BY DEF Held, TypeOK
<1>1. ASSUME NEW f \in Files, Begin(f) PROVE Recoverable'
  <2>1. rs'.pc = "snapshot"
    BY <1>1 DEF Begin, Idle
  <2> QED BY <1>1, <2>1 DEF Recoverable, GoodSnapshot, Begin
<1>2. ASSUME NEW f \in Files, TakeSnapshot(f) PROVE Recoverable'
  <2>1. rs'.pc = "restore"
    BY <1>0, <1>2 DEF TakeSnapshot, Request
  <2>2. files'[f].kind = "snapshot" /\ files'[f].dump = db
    BY <1>2 DEF Held, TypeOK, TakeSnapshot
  <2>3. \A g \in Files \ {f} : files'[g] = files[g]
    BY <1>2 DEF Held, TypeOK, TakeSnapshot
  <2>4. files[f].kind = "none"
    BY <1>2 DEF TakeSnapshot, Free
  <2>5. purged' = purged /\ db' = db
    BY <1>2 DEF TakeSnapshot
  <2>6. CASE db.healthy
    BY <2>1, <2>2, <2>5, <2>6 DEF Recoverable, GoodSnapshot
  <2>7. CASE GoodSnapshot
    <3>1. GoodSnapshot'
      BY <2>3, <2>4, <2>5, <2>7 DEF GoodSnapshot
    <3> QED BY <2>1, <3>1 DEF Recoverable
  <2> QED BY <2>6, <2>7 DEF Recoverable
<1>3. ASSUME PgRestore \/ PgRestoreTimesOut PROVE Recoverable'
  <2>1. rs.pc = "restore" /\ rs'.pc \in {"validate", "failed"}
    BY <1>0, <1>3 DEF PgRestore, PgRestoreTimesOut, Goto, Request
  <2>2. UNCHANGED <<files, purged>>
    BY <1>3 DEF PgRestore, PgRestoreTimesOut
  <2> QED BY <2>1, <2>2 DEF Recoverable, GoodSnapshot
<1>4. ASSUME Validate PROVE Recoverable'
  <2>1. rs.pc = "validate"
    BY <1>4 DEF Validate
  <2>2. UNCHANGED <<files, purged, db>>
    BY <1>4 DEF Validate
  <2>3. CASE Goto("rollback")
    <3>1. rs'.pc = "rollback"
      BY <1>0, <2>3 DEF Goto, Request
    <3> QED BY <2>1, <2>2, <3>1 DEF Recoverable, GoodSnapshot
  <2>4. CASE db.healthy /\ Goto("ledger")
    <3>1. rs'.pc = "ledger"
      BY <1>0, <2>4 DEF Goto, Request
    <3> QED BY <2>2, <2>4, <3>1 DEF Recoverable, GoodSnapshot
  <2> QED BY <1>4, <2>3, <2>4 DEF Validate
<1>5. ASSUME RollBack PROVE Recoverable'
  <2>1. db'.healthy /\ rs'.pc = "failed"
    BY <1>0, <1>5 DEF RollBack, Goto, Request
  <2> QED BY <2>1 DEF Recoverable
<1>6. ASSUME RollBackFails PROVE Recoverable'
  <2>1. rs.pc = "rollback" /\ rs'.pc = "failed"
    BY <1>0, <1>6 DEF RollBackFails, Goto, Request
  <2> QED BY <1>6, <2>1 DEF Recoverable, GoodSnapshot, RollBackFails
<1>7. ASSUME SnapshotFails \/ Answer \/ Crash PROVE Recoverable'
  <2>1. rs'.pc \in {"idle", "failed"}
    BY <1>0, <1>7 DEF SnapshotFails, Answer, Crash, Goto, Idle, Request
  <2>2. UNCHANGED <<files, purged, db>>
    BY <1>7 DEF SnapshotFails, Answer, Crash
  <2> QED BY <2>1, <2>2 DEF Recoverable, GoodSnapshot
<1>8. ASSUME ReadLedger \/ Reapply \/ ReapplyFails \/ Unlink PROVE Recoverable'
  <2>1. /\ rs.pc \in {"ledger", "reapply", "unlink"}
        /\ rs'.pc \in {"reapply", "unlink", "succeeded"}
    BY <1>0, <1>8 DEF ReadLedger, Reapply, ReapplyFails, Unlink, Goto, Request
  <2>2. db'.healthy = db.healthy
    BY <1>8 DEF Held, TypeOK, Database, ReadLedger, Reapply, ReapplyFails, Unlink
  <2> QED BY <2>1, <2>2 DEF Recoverable
<1> QED BY <1>1, <1>2, <1>3, <1>4, <1>5, <1>6, <1>7, <1>8 DEF Restoring

\* A usable state of the database is kept until retention removes it.
THEOREM GoodStateKept == Spec => []GoodStateIsKept
<1>1. Init => Recoverable
  BY DEF Init, Recoverable, Empty, Idle
<1>2. ASSUME Held, Recoverable, [Next]_vars PROVE Recoverable'
  <2>1. CASE UNCHANGED vars
    BY <1>2, <2>1 DEF vars, Recoverable, GoodSnapshot
  <2> QED
    BY <1>2, <2>1, OthersKeepGoodState, RestoringKeepsGoodState DEF Next, Users, Directory
<1>3. Recoverable => GoodStateIsKept
  BY DEF Recoverable, GoodSnapshot, GoodStateIsKept
<1>4. Held /\ [Next]_vars => Held' BY StepHolds
<1>5. Recoverable /\ Held /\ [Next]_vars => Recoverable' BY <1>2
<1> QED BY <1>1, <1>3, <1>4, <1>5, HeldInitially, PTL DEF Spec
=============================================================================
