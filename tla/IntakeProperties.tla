--------------------------- MODULE IntakeProperties ---------------------------
(* What those who bring sources in, and take them out, rely on. *)
EXTENDS Intake

\* A deletion travels with a bundle (portability.py: "applies the bundle's
\* tombstones first").  When its import ends, nothing that was there when it
\* looked for the deleted hashes is live under one of them, whatever others
\* stored, deleted or imported meanwhile and however often it committed on the
\* way; and it never stores an item whose hash the bundle itself records as deleted,
\* which a deletion between the two reads of an export produces.
DeletionTravels ==
    [][\A t \in Txns :
         /\ CommitBundle(t) =>
              \A r \in txn[t].seen : rows'[r].live => rows[r].hash \notin Req(t).bundle.deleted
         /\ StoreItem(t) => \A x \in txn[t].new : x.hash \notin Req(t).bundle.deleted]_vars

\* The watched folder loses nothing and repeats only after a fault: a file in
\* processed/ was stored, and a file was stored more than once only if the
\* watcher failed between storing it and moving it.
FilesAreStored ==
    \A f \in Files :
        LET copies == Cardinality({r \in Ids : rows[r] # NoRow /\ rows[r].file = f}) IN
        /\ file[f] = "processed" => copies > 0
        /\ copies <= 1 + broken[f]

-----------------------------------------------------------------------------
(* A promise the code does not keep *)

\* portability.py: "their tombstones ARE exported so a receiving instance will not
\* resurrect deleted content on import".  An item whose hash is in the ledger of
\* the installation is not stored there; but the import looks at the deletions of
\* its own bundle and at the rows, never at the ledger, so an older bundle that
\* is read in after a newer one brings back what the newer one deleted.
DeletedStaysOut ==
    [][\A t \in Txns : StoreItem(t) =>
         \A x \in txn[t].new : x.hash \notin tombstones[Where(t)]]_vars
=============================================================================
