------------------------------- MODULE Intake -------------------------------
(***************************************************************************)
(* How sources come in, and move between installations of Recalium: pasted *)
(* text and API requests with idempotency keys (ingest/service.py),        *)
(* exports of other assistants (imports/service.py), the watched folder    *)
(* (ingest/watcher.py), and bundles that carry sources and deletions from  *)
(* one installation to another (api/routes/portability.py).                *)
(*                                                                         *)
(* A look-up and the insert that follows it are separate statements of a   *)
(* READ COMMITTED transaction.  The import of a bundle applies its         *)
(* deletions first, but each stored item commits everything before it.     *)
(* Bundles are carried by hand: any number of times, in any order.  A      *)
(* content is a model value; its hash depends on the way it came in.       *)
(***************************************************************************)
EXTENDS Naturals, FiniteSets

CONSTANTS
    Instances,  \* installations, each with its own database
    Contents,   \* texts and conversations
    Keys,       \* idempotency keys
    Files,      \* names in the watched folder of the first installation
    Ids,        \* raw archive rows, a bound on what is ever stored
    Txns,       \* transactions that may be open at once
    MaxTxns,    \* bound: transactions begun
    MaxBundles, \* bound: bundles exported
    MaxFaults   \* bound: crashes of the watcher, moves that fail

\* "none" is the file of a row that came from no file
ASSUME IntakeAssumption ==
    /\ Instances # {} /\ IsFiniteSet(Ids) /\ "none" \notin Files
    /\ MaxTxns \in Nat /\ MaxBundles \in Nat /\ MaxFaults \in Nat

VARIABLES
    rows,       \* raw_archive of all installations
    tombstones, \* tombstones of each installation
    bundles,    \* bundles exported so far
    export,     \* the export in progress at each installation
    txn,        \* transactions in progress; "seen" is history: the rows that
                \* were there when the import of a bundle looked for its deletions
    begun,      \* transactions begun so far
    file,       \* where each watched file is
    watcher,    \* the file the watcher is at
    faults,     \* faults so far
    broken      \* for each file, faults between its commit and its move

database == <<rows, tombstones>>
carriage == <<bundles, export>>
folder   == <<file, watcher, faults, broken>>
vars     == <<database, carriage, folder, txn, begun>>

-----------------------------------------------------------------------------

\* ingest hashes the text, an import the conversation it was rendered from
Hashes == {"text", "conversation"} \X Contents
NoKey  == "none"
NoHash == << >>   \* of an item whose bundle gives it none

Row == [where : Instances, content : Contents, hash : Hashes, live : BOOLEAN,
        key : Keys \union {NoKey}, file : Files \union {"none"}]
NoRow == [where |-> "nowhere"]

Item   == [content : Contents, hash : Hashes \union {NoHash}]
Bundle == [items : SUBSET Item, deleted : SUBSET Hashes]

Requests ==
         [op : {"ingest"}, where : Instances, content : Contents, key : Keys \union {NoKey}]
  \union [op : {"import"}, where : Instances, contents : (SUBSET Contents) \ {{}}]
  \union [op : {"delete"}, where : Instances, row : Ids]
  \union [op : {"bundle"}, where : Instances, bundle : Bundle]

NoRequest == [op |-> "none"]

Over == [at |-> "idle", req |-> NoRequest, todo |-> {}, new |-> {}, erase |-> {}, seen |-> {}]

TypeOK ==
    /\ rows \in [Ids -> Row \union {NoRow}]
    /\ tombstones \in [Instances -> SUBSET Hashes]
    /\ bundles \subseteq Bundle
    /\ export \in [Instances -> [at : {"idle", "items"}, items : SUBSET Item]]
    /\ \A t \in Txns :
         /\ txn[t].at \in {"idle", "lookup", "store", "tombstones", "item", "erase"}
         /\ txn[t].req \in {NoRequest} \union Requests
         /\ txn[t].todo \subseteq Item /\ txn[t].new \subseteq Item
         /\ txn[t].erase \subseteq Ids /\ txn[t].seen \subseteq Ids
    /\ begun \in 0..MaxTxns
    /\ file \in [Files -> {"absent", "watched", "processed", "failed"}]
    /\ watcher \in [at : {"idle", "read", "stored"}, file : Files \union {"none"}]
    /\ faults \in 0..MaxFaults
    /\ broken \in [Files -> 0..MaxFaults]

At(t)    == txn[t].at
Req(t)   == txn[t].req
Where(t) == txn[t].req.where

Update(t, r)   == txn' = [txn EXCEPT ![t] = r]
Goto(t, stage) == Update(t, [txn[t] EXCEPT !.at = stage])
End(t)         == Update(t, Over)

Stored(i) == {r \in Ids : rows[r] # NoRow /\ rows[r].where = i}
Live(i)   == {r \in Stored(i) : rows[r].live}
Fresh     == {r \in Ids : rows[r] = NoRow}

TextHash(c) == <<"text", c>>

NewRow(i, item, key, f) ==
    [where |-> i, content |-> item.content, hash |-> item.hash, live |-> TRUE,
     key |-> key, file |-> f]

-----------------------------------------------------------------------------
(* ingest_text_content and import_conversations *)

Ready(t) == At(t) = "idle" /\ begun < MaxTxns /\ begun' = begun + 1

\* pasted text, an API request or an uploaded file
BeginIngest(t) ==
    /\ Ready(t)
    /\ \E i \in Instances, c \in Contents, k \in Keys \union {NoKey} :
         Update(t, [Over EXCEPT !.at = "lookup",
                      !.req = [op |-> "ingest", where |-> i, content |-> c, key |-> k]])
    /\ UNCHANGED <<database, carriage, folder>>

\* the export of another assistant
BeginImport(t) ==
    /\ Ready(t)
    /\ \E i \in Instances, C \in (SUBSET Contents) \ {{}} :
         Update(t, [Over EXCEPT !.at = "lookup",
                      !.req = [op |-> "import", where |-> i, contents |-> C],
                      !.todo = {[content |-> c, hash |-> <<"conversation", c>>] : c \in C}])
    /\ UNCHANGED <<database, carriage, folder>>

BeginDelete(t) ==
    /\ Ready(t)
    /\ \E i \in Instances : \E r \in Live(i) :
         Update(t, [Over EXCEPT !.at = "erase",
                      !.req = [op |-> "delete", where |-> i, row |-> r]])
    /\ UNCHANGED <<database, carriage, folder>>

\* nothing of a bundle is verified, so the hashes of its items may be missing
BeginBundle(t) ==
    /\ Ready(t)
    /\ \E i \in Instances, b \in bundles :
       \E items \in {b.items, {[x EXCEPT !.hash = NoHash] : x \in b.items}} :
         Update(t, [Over EXCEPT !.at = "tombstones", !.todo = items,
                      !.req = [op |-> "bundle", where |-> i, bundle |-> b]])
    /\ UNCHANGED <<database, carriage, folder>>

\* a key that is there is answered again, or refused if the content differs
LookUpKey(t) ==
    /\ At(t) = "lookup" /\ Req(t).op = "ingest"
    /\ IF \E r \in Live(Where(t)) : Req(t).key # NoKey /\ rows[r].key = Req(t).key
         THEN End(t)
         ELSE Update(t, [txn[t] EXCEPT !.at = "store",
                 !.new = {[content |-> Req(t).content, hash |-> TextHash(Req(t).content)]}])
    /\ UNCHANGED <<database, carriage, folder, begun>>

\* a conversation that is there and not deleted is skipped
LookUpConversation(t) ==
    /\ At(t) = "lookup" /\ Req(t).op = "import"
    /\ \E item \in txn[t].todo :
         LET rest  == txn[t].todo \ {item}
             found == \E r \in Live(Where(t)) : rows[r].hash = item.hash
         IN Update(t, [txn[t] EXCEPT !.todo = rest,
                         !.new = IF found THEN @ ELSE @ \union {item},
                         !.at = IF rest = {} THEN "store" ELSE "lookup"])
    /\ UNCHANGED <<database, carriage, folder, begun>>

\* the rows of one commit, each with its audit event and job
StoreAll(i, items, key, f, erased) ==
    \E place \in [items -> Fresh] :
      /\ \A x, y \in items : place[x] = place[y] => x = y
      /\ rows' = [r \in Ids |->
                    CASE \E x \in items : place[x] = r ->
                           NewRow(i, CHOOSE x \in items : place[x] = r, key, f)
                      [] r \in erased -> [rows[r] EXCEPT !.live = FALSE]
                      [] OTHER -> rows[r]]

Store(t) ==
    /\ At(t) = "store" /\ Req(t).op \in {"ingest", "import"}
    /\ StoreAll(Where(t), txn[t].new,
                IF Req(t).op = "ingest" THEN Req(t).key ELSE NoKey, "none", {})
    /\ End(t)
    /\ UNCHANGED <<tombstones, carriage, folder, begun>>

-----------------------------------------------------------------------------
(* cascade_delete_archive_item, which waits for the lock of its row *)

Locked(r) == \E t \in Txns : r \in txn[t].erase

Delete(t) ==
    /\ At(t) = "erase"
    /\ ~Locked(Req(t).row)
    /\ LET r == rows[Req(t).row] IN
       IF ~r.live THEN UNCHANGED database
       ELSE /\ rows' = [rows EXCEPT ![Req(t).row].live = FALSE]
            /\ tombstones' = [tombstones EXCEPT ![Where(t)] = @ \union {r.hash}]
    /\ End(t)
    /\ UNCHANGED <<carriage, folder, begun>>

-----------------------------------------------------------------------------
(* export_bundle: the items, and later the deletions *)

ExportItems(i) ==
    /\ export[i].at = "idle"
    /\ Cardinality(bundles) < MaxBundles
    /\ export' = [export EXCEPT ![i] =
                    [at |-> "items",
                     items |-> {[content |-> rows[r].content, hash |-> rows[r].hash] : r \in Live(i)}]]
    /\ UNCHANGED <<database, bundles, folder, txn, begun>>

ExportDeletions(i) ==
    /\ export[i].at = "items"
    /\ Cardinality(bundles) < MaxBundles
    /\ bundles' = bundles \union {[items |-> export[i].items, deleted |-> tombstones[i]]}
    /\ export' = [export EXCEPT ![i] = [at |-> "idle", items |-> {}]]
    /\ UNCHANGED <<database, folder, txn, begun>>

-----------------------------------------------------------------------------
(* import_bundle *)

\* _apply_bundle_tombstones: the rows it locks and will erase
Doomed(t) == {r \in Live(Where(t)) : rows[r].hash \in Req(t).bundle.deleted}

LockDoomed(t) ==
    /\ At(t) = "tombstones"
    /\ \A r \in Doomed(t) : ~Locked(r)
    /\ Update(t, [txn[t] EXCEPT !.erase = Doomed(t), !.seen = Stored(Where(t)), !.at = "item"])
    /\ UNCHANGED <<database, carriage, folder, begun>>

Buried(t) ==
    tombstones' = [tombstones EXCEPT ![Where(t)] = @ \union Req(t).bundle.deleted]

IfAbsent_Bug(t, item) == \E r \in Stored(Where(t)) : rows[r].hash = item.hash

\* an item the bundle itself deletes, or whose hash is there, even deleted; an
\* item without a hash has neither
Skipped(t, item) ==
    \/ item.hash \in Req(t).bundle.deleted
    \/ \E r \in Stored(Where(t)) : rows[r].hash = item.hash

NextItem(t) ==
    /\ At(t) = "item"
    /\ \E item \in txn[t].todo :
         IF Skipped(t, item)
           THEN Update(t, [txn[t] EXCEPT !.todo = @ \ {item}])
           ELSE Update(t, [txn[t] EXCEPT !.todo = @ \ {item}, !.at = "store", !.new = {item}])
    /\ UNCHANGED <<database, carriage, folder, begun>>

\* ingest_text_content hashes the text anew and commits the whole transaction
StoreItem(t) ==
    /\ At(t) = "store" /\ Req(t).op = "bundle"
    /\ StoreAll(Where(t), {[content |-> x.content, hash |-> TextHash(x.content)] : x \in txn[t].new},
                NoKey, "none", txn[t].erase)
    /\ Buried(t)
    /\ Update(t, [txn[t] EXCEPT !.at = "item", !.new = {}, !.erase = {}])
    /\ UNCHANGED <<carriage, folder, begun>>

\* its savepoint is rolled back, and the next item follows: the export of a
\* short conversation is below the ten characters an ingest asks for
RefuseItem(t) ==
    /\ At(t) = "store" /\ Req(t).op = "bundle"
    /\ Update(t, [txn[t] EXCEPT !.at = "item", !.new = {}])
    /\ UNCHANGED <<database, carriage, folder, begun>>

CommitBundle(t) ==
    /\ At(t) = "item" /\ txn[t].todo = {}
    /\ rows' = [r \in Ids |-> IF r \in txn[t].erase THEN [rows[r] EXCEPT !.live = FALSE] ELSE rows[r]]
    /\ Buried(t)
    /\ End(t)
    /\ UNCHANGED <<carriage, folder, begun>>

\* an error or a dead process: what was not committed is gone
Abort(t) ==
    /\ At(t) # "idle"
    /\ End(t)
    /\ UNCHANGED <<database, carriage, folder, begun>>

-----------------------------------------------------------------------------
(* file_watcher_loop of the first installation *)

First == CHOOSE i \in Instances : TRUE

Idle == [at |-> "idle", file |-> "none"]

Drop(f) ==
    /\ file[f] = "absent"
    /\ file' = [file EXCEPT ![f] = "watched"]
    /\ UNCHANGED <<database, carriage, txn, begun, watcher, faults, broken>>

Swapped_Bug == "processed"

ErrorFolder == "failed"

\* an unreadable file is moved away at once
ReadFile(f) ==
    /\ watcher = Idle /\ file[f] = "watched"
    /\ \/ watcher' = [at |-> "read", file |-> f] /\ UNCHANGED file
       \/ file' = [file EXCEPT ![f] = ErrorFolder] /\ UNCHANGED watcher
    /\ UNCHANGED <<database, carriage, txn, begun, faults, broken>>

StoreFile(c) ==
    /\ watcher.at = "read"
    /\ StoreAll(First, {[content |-> c, hash |-> TextHash(c)]}, NoKey, watcher.file, {})
    /\ watcher' = [watcher EXCEPT !.at = "stored"]
    /\ UNCHANGED <<tombstones, carriage, txn, begun, file, faults, broken>>

\* the content is refused or the database fails, before or after the commit
RefuseFile ==
    /\ watcher.at \in {"read", "stored"}
    /\ file' = [file EXCEPT ![watcher.file] = ErrorFolder]
    /\ watcher' = Idle
    /\ UNCHANGED <<database, carriage, txn, begun, faults, broken>>

MoveFile ==
    /\ watcher.at = "stored"
    /\ file' = [file EXCEPT ![watcher.file] = "processed"]
    /\ watcher' = Idle
    /\ UNCHANGED <<database, carriage, txn, begun, faults, broken>>

\* _move_file only logs an error, and a crash has the same effect: the file
\* stays where the next poll finds it
Interrupt ==
    /\ watcher # Idle
    /\ faults < MaxFaults
    /\ faults' = faults + 1
    /\ broken' = IF watcher.at = "stored" THEN [broken EXCEPT ![watcher.file] = @ + 1] ELSE broken
    /\ watcher' = Idle
    /\ UNCHANGED <<database, carriage, txn, begun, file>>

-----------------------------------------------------------------------------

Init ==
    /\ rows = [r \in Ids |-> NoRow]
    /\ tombstones = [i \in Instances |-> {}]
    /\ bundles = {}
    /\ export = [i \in Instances |-> [at |-> "idle", items |-> {}]]
    /\ txn = [t \in Txns |-> Over]
    /\ begun = 0
    /\ file = [f \in Files |-> "absent"]
    /\ watcher = Idle
    /\ faults = 0
    /\ broken = [f \in Files |-> 0]

Step(t) ==
    \/ BeginIngest(t) \/ BeginImport(t) \/ BeginDelete(t) \/ BeginBundle(t)
    \/ LookUpKey(t) \/ LookUpConversation(t) \/ Store(t) \/ Delete(t)
    \/ LockDoomed(t) \/ NextItem(t) \/ StoreItem(t) \/ RefuseItem(t)
    \/ CommitBundle(t) \/ Abort(t)

Next ==
    \/ \E t \in Txns : Step(t)
    \/ \E i \in Instances : ExportItems(i) \/ ExportDeletions(i)
    \/ \E f \in Files : Drop(f) \/ ReadFile(f)
    \/ \E c \in Contents : StoreFile(c)
    \/ RefuseFile \/ MoveFile \/ Interrupt

Spec == Init /\ [][Next]_vars
=============================================================================
