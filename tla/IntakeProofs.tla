---------------------------- MODULE IntakeProofs ----------------------------
(***************************************************************************)
(* The ways in, for every number of installations, contents, files, rows   *)
(* and transactions: a deletion travels with its bundle, and the watched   *)
(* folder loses nothing and repeats only after a fault.                    *)
(***************************************************************************)
EXTENDS IntakeProperties, FiniteSetTheorems, TLAPS

Transaction ==
    [at : {"idle", "lookup", "store", "tombstones", "item", "erase"},
     req : {NoRequest} \union Requests, todo : SUBSET Item, new : SUBSET Item,
     erase : SUBSET Ids, seen : SUBSET Ids]

\* The types of the tables and of the folder, without the transactions.
Tables ==
    /\ rows \in [Ids -> Row \union {NoRow}]
    /\ tombstones \in [Instances -> SUBSET Hashes]
    /\ bundles \subseteq Bundle
    /\ export \in [Instances -> [at : {"idle", "items"}, items : SUBSET Item]]
    /\ begun \in 0..MaxTxns
    /\ file \in [Files -> {"absent", "watched", "processed", "failed"}]
    /\ watcher \in [at : {"idle", "read", "stored"}, file : Files \union {"none"}]
    /\ faults \in 0..MaxFaults
    /\ broken \in [Files -> 0..MaxFaults]

\* An item whose hash is known: of all but those of a bundle.
Hashed == [content : Contents, hash : Hashes]

\* Each stage belongs to one operation, but for the start and the store.
Requested(x) ==
    /\ x.at # "idle" => x.req \in Requests
    /\ x.at = "lookup" => x.req.op \in {"ingest", "import"}
    /\ x.at = "store" => x.req.op \in {"ingest", "import", "bundle"}
    /\ x.at \in {"tombstones", "item"} => x.req.op = "bundle"
    /\ x.at = "erase" => x.req.op = "delete"
    /\ x.erase # {} => x.at \in {"item", "store"} /\ x.req.op = "bundle"
    /\ x.at \in {"lookup", "store"} /\ x.req.op # "bundle" => x.todo \union x.new \subseteq Hashed

Sound(x) == x \in Transaction /\ Requested(x)

Types == Tables /\ txn \in [Txns -> Transaction] /\ \A t \in Txns : Sound(txn[t])

\* An import of a bundle is about to erase every live row that it saw under a
\* deleted hash, or has erased it, and stores nothing under such a hash.
Travelling(x) ==
    x.at \in {"item", "store"} /\ x.req.op = "bundle" =>
        /\ \A r \in x.seen :
             /\ rows[r] # NoRow
             /\ rows[r].live /\ rows[r].hash \in x.req.bundle.deleted => r \in x.erase
        /\ x.at = "store" => \A i \in x.new : i.hash \notin x.req.bundle.deleted

\* What a transaction will delete or erase is there.
Named(x) ==
    /\ x.at = "erase" => rows[x.req.row] # NoRow
    /\ \A r \in x.erase : rows[r] # NoRow

Carried == \A t \in Txns : Travelling(txn[t]) /\ Named(txn[t])

\* The rows that came from a file.
Copies(f) == {r \in Ids : rows[r] # NoRow /\ rows[r].file = f}

\* a file has been stored and was not stored again
Done(f) == file[f] = "processed" \/ (watcher.at = "stored" /\ watcher.file = f)

\* a file that is not stored again, or was filed away by an error
Filed(f) == Done(f) \/ file[f] = "failed"

\* The file the watcher is at is in the folder, a file is stored at most once
\* more than it was interrupted, and once at least if it is done.
Watched ==
    /\ watcher.at = "idle" => watcher = Idle
    /\ watcher.at # "idle" => watcher.file \in Files /\ file[watcher.file] = "watched"
    /\ \A f \in Files :
         /\ broken[f] <= faults
         /\ Done(f) => Copies(f) # {}
         /\ Cardinality(Copies(f)) <= broken[f] + (IF Filed(f) THEN 1 ELSE 0)

-----------------------------------------------------------------------------
(* Operators *)

LEMMA FirstIsThere == First \in Instances
BY IntakeAssumption DEF First

\* The hash of a text.
LEMMA TextHashIsHash == \A c \in Contents : TextHash(c) \in Hashes
BY DEF TextHash, Hashes

\* An item with a hash is an item.
LEMMA HashedIsItem == Hashed \subseteq Item
BY DEF Hashed, Item

\* A place without a row is no row.
LEMMA NoRowIsNone == NoRow \notin Row
<1>1. \A r \in Row : DOMAIN r = {"where", "content", "hash", "live", "key", "file"}
  BY DEF Row
<1>2. DOMAIN NoRow = {"where"}
  BY DEF NoRow
<1> QED BY <1>1, <1>2

\* What a request of each operation names.
LEMMA RequestFields ==
  ASSUME NEW m \in Requests
  PROVE  /\ m.op \in {"ingest", "import", "delete", "bundle"} /\ m.where \in Instances
         /\ m.op = "ingest" => m.content \in Contents /\ m.key \in Keys \union {NoKey}
         /\ m.op = "delete" => m.row \in Ids
         /\ m.op = "bundle" => m.bundle \in Bundle
BY DEF Requests

\* A transaction that is over is sound, and carries nothing.
LEMMA OverIsSound == Sound(Over) /\ Over.at = "idle" /\ Over.erase = {}
<1>1. Over \in Transaction /\ Over.at = "idle" /\ Over.erase = {}
  BY DEF Over, Transaction, NoRequest
<1> QED BY <1>1 DEF Sound, Requested

\* Rows only grow: none goes away or changes its hash or its file, and none
\* comes back to life.
Grows ==
    \A r \in Ids : rows[r] # NoRow =>
        /\ rows'[r] # NoRow /\ rows'[r].hash = rows[r].hash /\ rows'[r].file = rows[r].file
        /\ rows'[r].live => rows[r].live

\* New rows come from one file only.
Adds(f) == \A r \in Ids : rows[r] = NoRow => rows'[r] = NoRow \/ rows'[r].file = f

\* There is one of them.
AddsOne(f) ==
    \E p \in Ids : /\ rows[p] = NoRow /\ rows'[p] # NoRow /\ rows'[p].file = f
                   /\ \A r \in Ids : r # p /\ rows[r] = NoRow => rows'[r] = NoRow

Changes == rows' \in [Ids -> Row \union {NoRow}] /\ Grows

\* Without a change the rows grow, too.
LEMMA SameRows ==
  ASSUME Types, rows' = rows
  PROVE  Changes /\ \A f : Adds(f)
BY DEF Types, Tables, Changes, Grows, Adds

\* A commit of new rows adds what it stores, and erases what it locked.
LEMMA StoresRows ==
  ASSUME Types, NEW i \in Instances, NEW items, items \subseteq Hashed,
         NEW key \in Keys \union {NoKey}, NEW f \in Files \union {"none"},
         NEW erased, erased \subseteq Ids, \A r \in erased : rows[r] # NoRow,
         StoreAll(i, items, key, f, erased)
  PROVE  /\ Changes /\ Adds(f)
         /\ \A r \in erased : ~rows'[r].live
         /\ (\E x : items = {x}) => AddsOne(f)
<1>1. PICK place \in [items -> Fresh] :
        rows' = [r \in Ids |->
                   CASE \E x \in items : place[x] = r ->
                          NewRow(i, CHOOSE x \in items : place[x] = r, key, f)
                     [] r \in erased -> [rows[r] EXCEPT !.live = FALSE]
                     [] OTHER -> rows[r]]
  BY DEF StoreAll
<1>2. rows \in [Ids -> Row \union {NoRow}]
  BY DEF Types, Tables
<1>3. \A x \in items : place[x] \in Ids /\ rows[place[x]] = NoRow
  BY DEF Fresh
<1>4. ASSUME NEW r \in Ids, \E x \in items : place[x] = r
      PROVE  /\ rows[r] = NoRow /\ r \notin erased
             /\ rows'[r] \in Row /\ rows'[r] # NoRow /\ rows'[r].file = f
  <2>1. PICK y \in items : y = CHOOSE x \in items : place[x] = r
    BY <1>4
  <2>2. rows[r] = NoRow
    BY <1>3, <1>4
  <2>3. r \notin erased
    BY <2>2
  <2>4. rows'[r] = NewRow(i, y, key, f)
    BY <1>1, <1>4, <2>1, <2>3
  <2>5. NewRow(i, y, key, f) \in Row /\ NewRow(i, y, key, f).file = f
    BY DEF NewRow, Row, Hashed
  <2> QED BY <2>2, <2>3, <2>4, <2>5, NoRowIsNone
<1>5. ASSUME NEW r \in Ids, ~\E x \in items : place[x] = r, r \in erased
      PROVE  /\ rows[r] \in Row /\ rows'[r] \in Row /\ ~rows'[r].live
             /\ rows'[r].hash = rows[r].hash /\ rows'[r].file = rows[r].file
  <2>1. rows'[r] = [rows[r] EXCEPT !.live = FALSE]
    BY <1>1, <1>5
  <2>2. rows[r] \in Row
    BY <1>2, <1>5
  <2> QED BY <2>1, <2>2 DEF Row
<1>6. ASSUME NEW r \in Ids, ~\E x \in items : place[x] = r, r \notin erased
      PROVE  rows'[r] = rows[r]
  BY <1>1, <1>6
<1>7. rows' \in [Ids -> Row \union {NoRow}]
  <2>1. \A r \in Ids : rows'[r] \in Row \union {NoRow}
    BY <1>2, <1>4, <1>5, <1>6
  <2>2. \E g : rows' = [r \in Ids |-> g[r]]
    <3> DEFINE g == [r \in Ids |-> rows'[r]]
    <3>1. rows' = [r \in Ids |-> g[r]]
      BY <1>1
    <3> QED BY <3>1
  <2> QED BY <2>1, <2>2
<1>8. Grows
  BY <1>4, <1>5, <1>6, NoRowIsNone DEF Grows
<1>9. Adds(f)
  BY <1>2, <1>4, <1>5, <1>6, NoRowIsNone DEF Adds
<1>10. \A r \in erased : ~rows'[r].live
  BY <1>4, <1>5
<1>11. ASSUME NEW x, items = {x}
       PROVE  AddsOne(f)
  <2> DEFINE p == place[x]
  <2>1. p \in Ids /\ rows[p] = NoRow /\ rows'[p] # NoRow /\ rows'[p].file = f
    BY <1>3, <1>4, <1>11
  <2>2. \A r \in Ids : r # p /\ rows[r] = NoRow => rows'[r] = NoRow
    BY <1>6, <1>11
  <2> QED BY <2>1, <2>2 DEF AddsOne
<1> QED BY <1>7, <1>8, <1>9, <1>10, <1>11 DEF Changes

-----------------------------------------------------------------------------
(* The transactions *)

\* A step keeps all transactions sound and what they carry true, if it makes a
\* sound one of its own and lets the rows grow.
LEMMA Keeps ==
  ASSUME Types, Carried, NEW t \in Txns, NEW r, Update(t, r), Sound(r), Tables', Grows,
         (Travelling(r) /\ Named(r))'
  PROVE  Types' /\ Carried'
<1>1. /\ txn' \in [Txns -> Transaction]
      /\ txn'[t] = r /\ \A u \in Txns : u # t => txn'[u] = txn[u]
  BY DEF Types, Update, Sound
<1>2. \A u \in Txns : Sound(txn[u])'
  BY <1>1 DEF Types, Sound, Requested
<1>3. ASSUME NEW u \in Txns, u # t
      PROVE  (Travelling(txn[u]) /\ Named(txn[u]))'
  <2>1. Travelling(txn[u]) /\ Named(txn[u]) /\ txn'[u] = txn[u]
    BY <1>1, <1>3 DEF Carried
  <2>2. txn[u].seen \subseteq Ids /\ txn[u].erase \subseteq Ids
        /\ (txn[u].at = "erase" => txn[u].req.row \in Ids)
    BY RequestFields DEF Types, Sound, Transaction, Requested
  <2> QED BY <2>1, <2>2 DEF Travelling, Named, Grows
<1>4. (Travelling(txn[t]) /\ Named(txn[t]))'
  BY <1>1 DEF Travelling, Named
<1> QED BY <1>1, <1>2, <1>3, <1>4 DEF Types, Carried

\* A step of a transaction leaves the folder alone, and what it stores comes
\* from no file.
Apart == UNCHANGED folder /\ Grows /\ Adds("none")

\* A transaction that ends carries nothing any more.
LEMMA Ends ==
  ASSUME Types, Carried, NEW t \in Txns, End(t), Tables', Grows
  PROVE  Types' /\ Carried'
<1>1. PICK r : r = Over
  OBVIOUS
<1>2. Update(t, r) /\ Sound(r) /\ r.at = "idle" /\ r.erase = {}
  BY <1>1, OverIsSound DEF End
<1>3. (Travelling(r) /\ Named(r))'
  BY <1>2 DEF Travelling, Named
<1> QED BY <1>2, <1>3, Keeps

\* A step on its own transaction only.
LEMMA OwnStep ==
  ASSUME Types, Carried, NEW t \in Txns, NEW r, Update(t, r), Sound(r),
         UNCHANGED <<database, carriage, folder>>, begun' \in 0..MaxTxns,
         Travelling(r), Named(r)
  PROVE  Types' /\ Carried' /\ Apart
<1>1. Tables' /\ rows' = rows
  BY DEF Types, Tables, database, carriage, folder
<1>2. Changes /\ Adds("none")
  BY <1>1, SameRows
<1>3. (Travelling(r) /\ Named(r))'
  BY <1>1 DEF Travelling, Named
<1> QED BY <1>1, <1>2, <1>3, Keeps DEF Changes, Apart

\* A request that begins names what it will do.
LEMMA Begins ==
  ASSUME Types, Carried, NEW t \in Txns, NEW r \in Transaction, Update(t, r), Ready(t),
         r.req \in Requests, r.erase = {},
         \/ /\ r.at = "lookup" /\ r.req.op \in {"ingest", "import"}
            /\ r.todo \subseteq Hashed /\ r.new = {}
         \/ r.at = "tombstones" /\ r.req.op = "bundle"
         \/ r.at = "erase" /\ r.req.op = "delete" /\ rows[r.req.row] # NoRow,
         UNCHANGED <<database, carriage, folder>>
  PROVE  Types' /\ Carried' /\ Apart
<1>1. begun' \in 0..MaxTxns
  BY IntakeAssumption DEF Types, Tables, Ready
<1>2. Sound(r)
  BY DEF Sound, Requested
<1>3. Travelling(r) /\ Named(r)
  BY DEF Travelling, Named
<1> QED BY <1>1, <1>2, <1>3, OwnStep

LEMMA RequestsBegin ==
  ASSUME Types, Carried, NEW t \in Txns,
         BeginIngest(t) \/ BeginImport(t) \/ BeginDelete(t) \/ BeginBundle(t)
  PROVE  Types' /\ Carried' /\ Apart
<1>0. Ready(t) /\ UNCHANGED <<database, carriage, folder>>
  BY DEF BeginIngest, BeginImport, BeginDelete, BeginBundle
<1>1. CASE BeginIngest(t)
  <2>1. PICK m \in Requests :
          m.op = "ingest" /\ Update(t, [Over EXCEPT !.at = "lookup", !.req = m])
    BY <1>1 DEF BeginIngest, Requests
  <2>2. PICK r : r = [Over EXCEPT !.at = "lookup", !.req = m]
    OBVIOUS
  <2>3. /\ r \in Transaction /\ r.at = "lookup" /\ r.req = m /\ r.erase = {}
        /\ r.todo = {} /\ r.new = {}
    BY <2>2 DEF Over, Transaction
  <2> QED BY <1>0, <2>1, <2>2, <2>3, Begins
<1>2. CASE BeginImport(t)
  <2>1. PICK m \in Requests, todo \in SUBSET Hashed :
          /\ m.op = "import"
          /\ Update(t, [Over EXCEPT !.at = "lookup", !.req = m, !.todo = todo])
    <3>1. PICK i \in Instances, C \in (SUBSET Contents) \ {{}} :
            Update(t, [Over EXCEPT !.at = "lookup",
                         !.req = [op |-> "import", where |-> i, contents |-> C],
                         !.todo = {[content |-> c, hash |-> <<"conversation", c>>] : c \in C}])
      BY <1>2 DEF BeginImport
    <3>2. [op |-> "import", where |-> i, contents |-> C] \in Requests
      BY DEF Requests
    <3>3. {[content |-> c, hash |-> <<"conversation", c>>] : c \in C} \in SUBSET Hashed
      BY DEF Hashed, Hashes
    <3> QED BY <3>1, <3>2, <3>3
  <2>2. PICK r : r = [Over EXCEPT !.at = "lookup", !.req = m, !.todo = todo]
    OBVIOUS
  <2>3. /\ r \in Transaction /\ r.at = "lookup" /\ r.req = m /\ r.erase = {}
        /\ r.todo = todo /\ r.new = {}
    BY <2>2, HashedIsItem DEF Over, Transaction
  <2> QED BY <1>0, <2>1, <2>2, <2>3, Begins
<1>3. CASE BeginDelete(t)
  <2>1. PICK m \in Requests :
          /\ m.op = "delete" /\ rows[m.row] # NoRow
          /\ Update(t, [Over EXCEPT !.at = "erase", !.req = m])
    BY <1>3 DEF BeginDelete, Requests, Live, Stored
  <2>2. PICK r : r = [Over EXCEPT !.at = "erase", !.req = m]
    OBVIOUS
  <2>3. r \in Transaction /\ r.at = "erase" /\ r.req = m /\ r.erase = {}
    BY <2>2 DEF Over, Transaction
  <2> QED BY <1>0, <2>1, <2>2, <2>3, Begins
<1>4. CASE BeginBundle(t)
  <2>1. PICK m \in Requests, todo \in SUBSET Item :
          /\ m.op = "bundle"
          /\ Update(t, [Over EXCEPT !.at = "tombstones", !.todo = todo, !.req = m])
    <3>1. PICK i \in Instances, b \in bundles :
            \E items \in {b.items, {[x EXCEPT !.hash = NoHash] : x \in b.items}} :
              Update(t, [Over EXCEPT !.at = "tombstones", !.todo = items,
                           !.req = [op |-> "bundle", where |-> i, bundle |-> b]])
      BY <1>4 DEF BeginBundle
    <3>2. [op |-> "bundle", where |-> i, bundle |-> b] \in Requests
      BY DEF Requests, Types, Tables
    <3>3. b.items \in SUBSET Item
      BY DEF Types, Tables, Bundle
    <3>4. {[x EXCEPT !.hash = NoHash] : x \in b.items} \in SUBSET Item
      BY <3>3 DEF Item
    <3> QED BY <3>1, <3>2, <3>3, <3>4
  <2>2. PICK r : r = [Over EXCEPT !.at = "tombstones", !.todo = todo, !.req = m]
    OBVIOUS
  <2>3. r \in Transaction /\ r.at = "tombstones" /\ r.req = m /\ r.erase = {}
    BY <2>2 DEF Over, Transaction
  <2> QED BY <1>0, <2>1, <2>2, <2>3, Begins
<1> QED BY <1>1, <1>2, <1>3, <1>4

\* What is known of a transaction at a stage.
LEMMA AtStage ==
  ASSUME Types, Carried, NEW t \in Txns, At(t) # "idle"
  PROVE  /\ txn[t] \in Transaction /\ Requested(txn[t])
         /\ Travelling(txn[t]) /\ Named(txn[t])
         /\ Req(t) = txn[t].req /\ txn[t].req \in Requests /\ Where(t) \in Instances
BY RequestFields DEF Types, Carried, Sound, Requested, At, Req, Where

\* A transaction that only ends leaves the database as it is.
LEMMA EndsAlone ==
  ASSUME Types, Carried, NEW t \in Txns, End(t), UNCHANGED <<database, carriage, folder, begun>>
  PROVE  Types' /\ Carried' /\ Apart
<1>1. Tables' /\ rows' = rows
  BY DEF Types, Tables, database, carriage, folder
<1>2. Changes /\ Adds("none")
  BY <1>1, SameRows
<1> QED BY <1>1, <1>2, Ends DEF Changes, Apart

\* A look-up finds no key, or the new conversations one by one.
LEMMA LooksUp ==
  ASSUME Types, Carried, NEW t \in Txns, LookUpKey(t) \/ LookUpConversation(t)
  PROVE  Types' /\ Carried' /\ Apart
<1>1. /\ txn[t] \in Transaction /\ Requested(txn[t]) /\ txn[t].at = "lookup"
      /\ txn[t].req \in Requests /\ Req(t) = txn[t].req
      /\ UNCHANGED <<database, carriage, folder, begun>>
      /\ UNCHANGED <<database, carriage, folder>> /\ begun' \in 0..MaxTxns
  BY AtStage DEF LookUpKey, LookUpConversation, At, Types, Tables
<1>2. txn[t].todo \subseteq Hashed /\ txn[t].new \subseteq Hashed /\ txn[t].erase = {}
  BY <1>1 DEF Requested
<1>3. CASE End(t)
  BY <1>1, <1>3, EndsAlone
<1>4. CASE LookUpKey(t) /\ ~End(t)
  <2>1. PICK r : r = [txn[t] EXCEPT !.at = "store",
                        !.new = {[content |-> Req(t).content, hash |-> TextHash(Req(t).content)]}]
    OBVIOUS
  <2>2. Update(t, r) /\ txn[t].req.op = "ingest"
    BY <1>1, <1>4, <2>1 DEF LookUpKey
  <2>3. {[content |-> Req(t).content, hash |-> TextHash(Req(t).content)]} \in SUBSET Hashed
    BY <1>1, <2>2, RequestFields, TextHashIsHash DEF Hashed
  <2>4. /\ r \in Transaction /\ r.at = "store" /\ r.req = txn[t].req /\ r.erase = {}
        /\ r.todo \union r.new \subseteq Hashed
    BY <1>1, <1>2, <2>1, <2>3, HashedIsItem DEF Transaction
  <2>5. Sound(r) /\ Travelling(r) /\ Named(r)
    BY <1>1, <2>2, <2>4 DEF Sound, Requested, Travelling, Named
  <2> QED BY <1>1, <2>2, <2>5, OwnStep
<1>5. CASE LookUpConversation(t)
  <2>1. PICK todo \in SUBSET Hashed, new \in SUBSET Hashed, stage \in {"store", "lookup"} :
          Update(t, [txn[t] EXCEPT !.todo = todo, !.new = new, !.at = stage])
    <3>1. PICK item \in txn[t].todo :
            LET rest  == txn[t].todo \ {item}
                found == \E q \in Live(Where(t)) : rows[q].hash = item.hash
            IN Update(t, [txn[t] EXCEPT !.todo = rest,
                            !.new = IF found THEN @ ELSE @ \union {item},
                            !.at = IF rest = {} THEN "store" ELSE "lookup"])
      BY <1>5 DEF LookUpConversation
    <3> DEFINE rest  == txn[t].todo \ {item}
               found == \E q \in Live(Where(t)) : rows[q].hash = item.hash
               new == IF found THEN txn[t].new ELSE txn[t].new \union {item}
               stage == IF rest = {} THEN "store" ELSE "lookup"
    <3>2. Update(t, [txn[t] EXCEPT !.todo = rest, !.new = new, !.at = stage])
      BY <3>1
    <3>3. rest \in SUBSET Hashed /\ new \in SUBSET Hashed /\ stage \in {"store", "lookup"}
      BY <1>2
    <3> QED BY <3>2, <3>3
  <2>2. PICK r : r = [txn[t] EXCEPT !.todo = todo, !.new = new, !.at = stage]
    OBVIOUS
  <2>3. txn[t].req.op = "import"
    BY <1>1, <1>5 DEF LookUpConversation
  <2>4. /\ r \in Transaction /\ r.at = stage /\ r.req = txn[t].req /\ r.erase = {}
        /\ r.todo \union r.new \subseteq Hashed
    BY <1>1, <1>2, <2>2, HashedIsItem DEF Transaction
  <2>5. Sound(r) /\ Travelling(r) /\ Named(r)
    BY <1>1, <2>3, <2>4 DEF Sound, Requested, Travelling, Named
  <2> QED BY <1>1, <2>1, <2>2, <2>5, OwnStep
<1> QED BY <1>3, <1>4, <1>5

\* The commit of new rows.
LEMMA Stores ==
  ASSUME Types, Carried, NEW t \in Txns, Store(t)
  PROVE  Types' /\ Carried' /\ Apart
<1>1. /\ txn[t] \in Transaction /\ txn[t].req \in Requests /\ Where(t) \in Instances
      /\ Req(t) = txn[t].req
  BY AtStage DEF Store, At
<1>2. PICK key \in Keys \union {NoKey} :
        StoreAll(Where(t), txn[t].new, key, "none", {})
  <2>1. Req(t).op = "ingest" => Req(t).key \in Keys \union {NoKey}
    BY <1>1, RequestFields
  <2>2. (IF Req(t).op = "ingest" THEN Req(t).key ELSE NoKey) \in Keys \union {NoKey}
    BY <2>1
  <2> QED BY <2>2 DEF Store
<1>3. txn[t].new \subseteq Hashed
  BY AtStage DEF Store, At, Req, Requested
<1>4. Changes /\ Adds("none")
  BY <1>1, <1>2, <1>3, StoresRows
<1>5. End(t) /\ UNCHANGED <<tombstones, carriage, folder, begun>>
  BY DEF Store
<1>6. Tables'
  BY <1>4, <1>5 DEF Types, Tables, Changes, carriage, folder
<1> QED BY <1>4, <1>5, <1>6, Ends DEF Changes, Apart

\* A deletion leaves the row of its source, and its hash in the ledger.
LEMMA Deletes ==
  ASSUME Types, Carried, NEW t \in Txns, Delete(t)
  PROVE  Types' /\ Carried' /\ Apart
<1>1. /\ txn[t].req \in Requests /\ txn[t].req.op = "delete" /\ Where(t) \in Instances
      /\ Req(t) = txn[t].req /\ rows[txn[t].req.row] # NoRow
  BY AtStage DEF Delete, At, Requested, Named
<1>2. End(t) /\ UNCHANGED <<carriage, folder, begun>>
  BY DEF Delete
<1>3. PICK k : k = txn[t].req.row
  OBVIOUS
<1>4. k \in Ids /\ rows[k] \in Row /\ rows \in [Ids -> Row \union {NoRow}]
      /\ tombstones \in [Instances -> SUBSET Hashes]
  BY <1>1, <1>3, RequestFields DEF Types, Tables
<1>5. CASE UNCHANGED database
  BY <1>2, <1>5, EndsAlone
<1>6. CASE /\ rows' = [rows EXCEPT ![k].live = FALSE]
           /\ tombstones' = [tombstones EXCEPT ![Where(t)] = @ \union {rows[k].hash}]
  <2>1. PICK dead : dead = [rows[k] EXCEPT !.live = FALSE]
    OBVIOUS
  <2>2. dead \in Row /\ ~dead.live /\ dead.hash = rows[k].hash /\ dead.file = rows[k].file
        /\ rows[k].hash \in Hashes
    BY <1>4, <2>1 DEF Row
  <2>3. rows' = [rows EXCEPT ![k] = dead]
    BY <1>6, <2>1
  <2>4. Changes /\ Adds("none")
    BY <1>1, <1>3, <1>4, <2>2, <2>3, NoRowIsNone DEF Changes, Grows, Adds
  <2>5. Tables'
    <3>1. tombstones' \in [Instances -> SUBSET Hashes]
      BY <1>1, <1>4, <1>6, <2>2
    <3> QED BY <1>2, <2>4, <3>1 DEF Types, Tables, Changes, carriage, folder
  <2> QED BY <1>2, <2>4, <2>5, Ends DEF Changes, Apart
<1> QED BY <1>1, <1>3, <1>5, <1>6 DEF Delete

\* The import of a bundle locks every live row that the bundle deletes.
LEMMA LocksDoomed ==
  ASSUME Types, Carried, NEW t \in Txns, LockDoomed(t)
  PROVE  Types' /\ Carried' /\ Apart
<1>1. /\ txn[t] \in Transaction /\ Requested(txn[t]) /\ txn[t].at = "tombstones"
      /\ txn[t].req \in Requests /\ txn[t].req.op = "bundle" /\ Req(t) = txn[t].req
  BY AtStage DEF LockDoomed, At, Requested
<1>2. PICK r : r = [txn[t] EXCEPT !.erase = Doomed(t), !.seen = Stored(Where(t)), !.at = "item"]
  OBVIOUS
<1>3. Update(t, r) /\ UNCHANGED <<database, carriage, folder>> /\ begun' \in 0..MaxTxns
  BY <1>2 DEF LockDoomed, Types, Tables
<1>4. Doomed(t) \in SUBSET Ids /\ Stored(Where(t)) \in SUBSET Ids
  BY DEF Doomed, Live, Stored
<1>5. /\ r \in Transaction /\ r.at = "item" /\ r.req = txn[t].req /\ r.erase = Doomed(t)
      /\ r.seen = Stored(Where(t))
  BY <1>1, <1>2, <1>4 DEF Transaction
<1>6. Sound(r)
  BY <1>1, <1>5 DEF Sound, Requested
<1>7. Travelling(r) /\ Named(r)
  BY <1>1, <1>5 DEF Travelling, Named, Doomed, Live, Stored
<1> QED BY <1>3, <1>6, <1>7, OwnStep

\* An item is skipped, or about to be stored, or given up.
LEMMA TakesItem ==
  ASSUME Types, Carried, NEW t \in Txns, NextItem(t) \/ RefuseItem(t)
  PROVE  Types' /\ Carried' /\ Apart
<1>1. /\ txn[t] \in Transaction /\ Requested(txn[t]) /\ txn[t].at \in {"item", "store"}
      /\ txn[t].req \in Requests /\ txn[t].req.op = "bundle" /\ Req(t) = txn[t].req
      /\ Travelling(txn[t]) /\ Named(txn[t])
      /\ UNCHANGED <<database, carriage, folder>> /\ begun' \in 0..MaxTxns
  BY AtStage DEF NextItem, RefuseItem, At, Types, Tables, Requested
<1>2. PICK todo \in SUBSET Item, new \in SUBSET Item, stage \in {"item", "store"} :
        /\ Update(t, [txn[t] EXCEPT !.todo = todo, !.at = stage, !.new = new])
        /\ stage = "store" => \A i \in new : i.hash \notin Req(t).bundle.deleted
  <2>1. txn[t].todo \in SUBSET Item /\ txn[t].new \in SUBSET Item
    BY <1>1 DEF Transaction
  <2>2. CASE RefuseItem(t)
    <3>1. [txn[t] EXCEPT !.at = "item", !.new = {}]
            = [txn[t] EXCEPT !.todo = txn[t].todo, !.at = "item", !.new = {}]
      BY <1>1 DEF Transaction
    <3>2. Update(t, [txn[t] EXCEPT !.todo = txn[t].todo, !.at = "item", !.new = {}])
      BY <2>2, <3>1 DEF RefuseItem
    <3> QED BY <2>1, <3>2
  <2>3. CASE NextItem(t)
    <3>1. PICK item \in txn[t].todo :
            IF Skipped(t, item)
              THEN Update(t, [txn[t] EXCEPT !.todo = @ \ {item}])
              ELSE Update(t, [txn[t] EXCEPT !.todo = @ \ {item}, !.at = "store", !.new = {item}])
      BY <2>3 DEF NextItem
    <3>2. txn[t].todo \ {item} \in SUBSET Item /\ {item} \in SUBSET Item
      BY <2>1
    <3>3. CASE ~Skipped(t, item)
      <4>1. item.hash \notin Req(t).bundle.deleted
        BY <3>3 DEF Skipped
      <4>2. Update(t, [txn[t] EXCEPT !.todo = txn[t].todo \ {item}, !.at = "store", !.new = {item}])
        BY <3>1, <3>3
      <4> QED BY <3>2, <4>1, <4>2
    <3>4. CASE Skipped(t, item)
      <4>1. txn[t].at = "item"
        BY <2>3 DEF NextItem, At
      <4>2. [txn[t] EXCEPT !.todo = txn[t].todo \ {item}]
              = [txn[t] EXCEPT !.todo = txn[t].todo \ {item}, !.at = "item", !.new = txn[t].new]
        BY <1>1, <4>1 DEF Transaction
      <4>3. Update(t, [txn[t] EXCEPT !.todo = txn[t].todo \ {item}, !.at = "item",
                         !.new = txn[t].new])
        BY <3>1, <3>4, <4>2
      <4> QED BY <2>1, <3>2, <4>3
    <3> QED BY <3>3, <3>4
  <2> QED BY <2>2, <2>3
<1>3. PICK r : r = [txn[t] EXCEPT !.todo = todo, !.at = stage, !.new = new]
  OBVIOUS
<1>4. /\ r \in Transaction /\ r.at = stage /\ r.req = txn[t].req /\ r.erase = txn[t].erase
      /\ r.seen = txn[t].seen /\ r.new = new
  BY <1>1, <1>3 DEF Transaction
<1>5. Sound(r)
  BY <1>1, <1>4 DEF Sound, Requested
<1>6. Travelling(r) /\ Named(r)
  BY <1>1, <1>2, <1>4 DEF Travelling, Named
<1> QED BY <1>1, <1>2, <1>3, <1>5, <1>6, OwnStep

\* The deletions of a bundle in the ledger.
LEMMA Buries ==
  ASSUME Types, Carried, NEW t \in Txns, At(t) # "idle", txn[t].req.op = "bundle", Buried(t)
  PROVE  tombstones' \in [Instances -> SUBSET Hashes]
<1>1. Where(t) \in Instances /\ Req(t).bundle \in Bundle
  BY AtStage, RequestFields
<1>2. Req(t).bundle.deleted \in SUBSET Hashes
  BY <1>1 DEF Bundle
<1> QED BY <1>1, <1>2 DEF Buried, Types, Tables

\* A stored item commits the erasures before it.
LEMMA StoresItem ==
  ASSUME Types, Carried, NEW t \in Txns, StoreItem(t)
  PROVE  Types' /\ Carried' /\ Apart
<1>1. /\ txn[t] \in Transaction /\ Requested(txn[t]) /\ txn[t].at = "store"
      /\ txn[t].req \in Requests /\ txn[t].req.op = "bundle" /\ Req(t) = txn[t].req
      /\ Travelling(txn[t]) /\ Named(txn[t]) /\ Where(t) \in Instances /\ At(t) # "idle"
  BY AtStage DEF StoreItem, At
<1>2. PICK items : items = {[content |-> x.content, hash |-> TextHash(x.content)] : x \in txn[t].new}
  OBVIOUS
<1>3. items \subseteq Hashed
  BY <1>1, <1>2, TextHashIsHash DEF Item, Hashed, Transaction
<1>4. StoreAll(Where(t), items, NoKey, "none", txn[t].erase)
  BY <1>2 DEF StoreItem
<1>5. txn[t].erase \subseteq Ids /\ txn[t].seen \subseteq Ids
      /\ \A r \in txn[t].erase : rows[r] # NoRow
  BY <1>1 DEF Transaction, Named
<1>6. Changes /\ Adds("none") /\ \A r \in txn[t].erase : ~rows'[r].live
  BY <1>1, <1>3, <1>4, <1>5, StoresRows
<1>7. UNCHANGED <<carriage, folder, begun>> /\ Buried(t)
  BY DEF StoreItem
<1>8. Tables'
  BY <1>1, <1>6, <1>7, Buries DEF Types, Tables, Changes, carriage, folder
<1>9. PICK r : r = [txn[t] EXCEPT !.at = "item", !.new = {}, !.erase = {}]
  OBVIOUS
<1>10. Update(t, r)
  BY <1>9 DEF StoreItem
<1>11. /\ r \in Transaction /\ r.at = "item" /\ r.req = txn[t].req /\ r.erase = {}
       /\ r.seen = txn[t].seen
  BY <1>1, <1>9 DEF Transaction
<1>12. Sound(r)
  BY <1>1, <1>11 DEF Sound, Requested
<1>13. (Travelling(r) /\ Named(r))'
  BY <1>1, <1>5, <1>6, <1>11 DEF Travelling, Named, Changes, Grows
<1> QED BY <1>6, <1>7, <1>8, <1>10, <1>12, <1>13, Keeps DEF Changes, Apart

\* The end of an import erases what is left to erase.
LEMMA CommitsBundle ==
  ASSUME Types, Carried, NEW t \in Txns, CommitBundle(t)
  PROVE  Types' /\ Carried' /\ Apart
<1>1. /\ txn[t] \in Transaction /\ txn[t].req.op = "bundle" /\ Named(txn[t]) /\ At(t) # "idle"
  BY AtStage DEF CommitBundle, At, Requested
<1>2. rows' = [r \in Ids |-> IF r \in txn[t].erase THEN [rows[r] EXCEPT !.live = FALSE] ELSE rows[r]]
  BY DEF CommitBundle
<1>3. \A r \in Ids : r \in txn[t].erase =>
        /\ rows[r] \in Row /\ rows'[r] = [rows[r] EXCEPT !.live = FALSE]
        /\ rows'[r] \in Row /\ ~rows'[r].live
        /\ rows'[r].hash = rows[r].hash /\ rows'[r].file = rows[r].file
  <2>1. \A r \in Ids : r \in txn[t].erase =>
          rows[r] \in Row /\ rows'[r] = [rows[r] EXCEPT !.live = FALSE]
    BY <1>1, <1>2 DEF Named, Types, Tables
  <2> QED BY <2>1 DEF Row
<1>4. \A r \in Ids : r \notin txn[t].erase => rows'[r] = rows[r]
  BY <1>2
<1>5. rows' \in [Ids -> Row \union {NoRow}]
  <2>1. \A r \in Ids : rows'[r] \in Row \union {NoRow}
    BY <1>3, <1>4 DEF Types, Tables
  <2>2. rows' = [r \in Ids |-> rows'[r]]
    BY <1>2
  <2> QED BY <2>1, <2>2
<1>6. Changes /\ Adds("none")
  BY <1>3, <1>4, <1>5, NoRowIsNone DEF Changes, Grows, Adds
<1>7. End(t) /\ UNCHANGED <<carriage, folder, begun>> /\ Buried(t)
  BY DEF CommitBundle
<1>8. Tables'
  BY <1>1, <1>6, <1>7, Buries DEF Types, Tables, Changes, carriage, folder
<1> QED BY <1>6, <1>7, <1>8, Ends DEF Changes, Apart

\* Every step of a transaction.
LEMMA TxnSteps ==
  ASSUME Types, Carried, NEW t \in Txns, Step(t)
  PROVE  Types' /\ Carried' /\ Apart
<1>1. CASE Abort(t)
  BY <1>1, EndsAlone DEF Abort
<1> QED BY <1>1, RequestsBegin, LooksUp, Stores, Deletes, LocksDoomed, TakesItem, StoresItem,
           CommitsBundle DEF Step

-----------------------------------------------------------------------------
(* Exports, and the watched folder *)

\* An export reads the rows, and later the ledger.
LEMMA Exports ==
  ASSUME Types, NEW i \in Instances, ExportItems(i) \/ ExportDeletions(i)
  PROVE  Tables' /\ UNCHANGED <<database, folder, txn>>
<1>1. UNCHANGED <<database, folder, txn, begun>>
  BY DEF ExportItems, ExportDeletions
<1>2. CASE ExportItems(i)
  <2>1. PICK items : items = {[content |-> rows[r].content, hash |-> rows[r].hash] : r \in Live(i)}
    OBVIOUS
  <2>2. items \in SUBSET Item
    <3>1. \A r \in Live(i) : rows[r] \in Row
      BY DEF Live, Stored, Types, Tables
    <3> QED BY <2>1, <3>1 DEF Row, Item
  <2>3. export' = [export EXCEPT ![i] = [at |-> "items", items |-> items]] /\ bundles' = bundles
    BY <1>2, <2>1 DEF ExportItems
  <2>4. [at |-> "items", items |-> items] \in [at : {"idle", "items"}, items : SUBSET Item]
    BY <2>2
  <2> QED BY <1>1, <2>3, <2>4 DEF Types, Tables, database, folder
<1>3. CASE ExportDeletions(i)
  <2>1. [items |-> export[i].items, deleted |-> tombstones[i]] \in Bundle
    BY DEF Bundle, Types, Tables
  <2>2. [at |-> "idle", items |-> {}] \in [at : {"idle", "items"}, items : SUBSET Item]
    OBVIOUS
  <2>3. /\ bundles' = bundles \union {[items |-> export[i].items, deleted |-> tombstones[i]]}
        /\ export' = [export EXCEPT ![i] = [at |-> "idle", items |-> {}]]
    BY <1>3 DEF ExportDeletions
  <2> QED BY <1>1, <2>1, <2>2, <2>3 DEF Types, Tables, database, folder
<1> QED BY <1>1, <1>2, <1>3

\* Transactions that do not move carry what they did, while rows grow.
LEMMA Carries ==
  ASSUME Types, Carried, txn' = txn, Tables', Grows
  PROVE  Types' /\ Carried'
<1>1. \A u \in Txns : Sound(txn[u])'
  BY DEF Types, Sound, Requested
<1>2. ASSUME NEW u \in Txns
      PROVE  (Travelling(txn[u]) /\ Named(txn[u]))'
  <2>1. Travelling(txn[u]) /\ Named(txn[u]) /\ txn'[u] = txn[u]
    BY DEF Carried
  <2>2. txn[u].seen \subseteq Ids /\ txn[u].erase \subseteq Ids
        /\ (txn[u].at = "erase" => txn[u].req.row \in Ids)
    BY RequestFields DEF Types, Sound, Transaction, Requested
  <2> QED BY <2>1, <2>2 DEF Travelling, Named, Grows
<1> QED BY <1>1, <1>2 DEF Types, Carried

\* The rows of a file are finitely many.
LEMMA CopiesAreFinite ==
  ASSUME NEW f
  PROVE  IsFiniteSet(Copies(f)) /\ Cardinality(Copies(f)) \in Nat
<1>1. Copies(f) \subseteq Ids
  BY DEF Copies
<1>2. IsFiniteSet(Copies(f))
  BY <1>1, IntakeAssumption, FS_Subset
<1> QED BY <1>2, FS_CardinalityType

\* Rows that come from no file, or from another, are no copies of a file.
LEMMA CopiesStay ==
  ASSUME Grows, NEW g, Adds(g), NEW f, f # g
  PROVE  Copies(f)' = Copies(f)
BY DEF Copies, Grows, Adds

\* What leaves the folder alone, and stores nothing from it, changes nothing of it.
LEMMA FolderStays ==
  ASSUME Types, Watched, Grows, Adds("none"), UNCHANGED folder
  PROVE  Watched'
<1>1. \A f \in Files : Copies(f)' = Copies(f)
  BY CopiesStay, IntakeAssumption
<1>2. \A f \in Files : Cardinality(Copies(f))' = Cardinality(Copies(f))
  BY <1>1
<1>3. UNCHANGED <<file, watcher, faults, broken>>
  BY DEF folder
<1>4. \A f \in Files : (Done(f)' <=> Done(f)) /\ (Filed(f)' <=> Filed(f))
  BY <1>3 DEF Done, Filed
<1> QED BY <1>1, <1>2, <1>3, <1>4 DEF Watched, Idle

\* A step in the folder that stores nothing.
FolderStep ==
    \/ \E f \in Files : Drop(f) \/ ReadFile(f)
    \/ RefuseFile \/ MoveFile \/ Interrupt

\* The types of the folder.
LEMMA FolderTypes ==
  ASSUME Types, Watched, FolderStep
  PROVE  Tables' /\ UNCHANGED <<rows, txn>>
<1>1. UNCHANGED <<database, carriage, txn, begun>> /\ UNCHANGED <<rows, txn>>
  BY DEF FolderStep, Drop, ReadFile, RefuseFile, MoveFile, Interrupt, database
<1>2. Idle \in [at : {"idle", "read", "stored"}, file : Files \union {"none"}]
  BY DEF Idle
<1>3. /\ file' \in [Files -> {"absent", "watched", "processed", "failed"}]
      /\ watcher' \in [at : {"idle", "read", "stored"}, file : Files \union {"none"}]
      /\ faults' \in 0..MaxFaults /\ broken' \in [Files -> 0..MaxFaults]
  <2>1. ASSUME NEW f \in Files, Drop(f)
        PROVE  /\ file' \in [Files -> {"absent", "watched", "processed", "failed"}]
               /\ watcher' \in [at : {"idle", "read", "stored"}, file : Files \union {"none"}]
               /\ faults' \in 0..MaxFaults /\ broken' \in [Files -> 0..MaxFaults]
    BY <2>1 DEF Drop, Types, Tables
  <2>2. ASSUME NEW f \in Files, ReadFile(f)
        PROVE  /\ file' \in [Files -> {"absent", "watched", "processed", "failed"}]
               /\ watcher' \in [at : {"idle", "read", "stored"}, file : Files \union {"none"}]
               /\ faults' \in 0..MaxFaults /\ broken' \in [Files -> 0..MaxFaults]
    BY <2>2 DEF ReadFile, ErrorFolder, Types, Tables
  <2>3. CASE RefuseFile
    BY <1>2, <2>3 DEF RefuseFile, ErrorFolder, Types, Tables
  <2>4. CASE MoveFile
    BY <1>2, <2>4 DEF MoveFile, Types, Tables
  <2>5. CASE Interrupt
    <3>1. faults' = faults + 1 /\ faults < MaxFaults /\ watcher' = Idle /\ file' = file
      BY <2>5 DEF Interrupt
    <3>2. faults' \in 0..MaxFaults
      BY <3>1, IntakeAssumption DEF Types, Tables
    <3>3. \A f \in Files : broken[f] \in 0..MaxFaults /\ broken[f] <= faults
      BY DEF Watched, Types, Tables
    <3>4. \A f \in Files : broken[f] + 1 \in 0..MaxFaults
      BY <3>1, <3>3, IntakeAssumption DEF Types, Tables
    <3>5. broken' = broken \/ broken' = [broken EXCEPT ![watcher.file] = broken[watcher.file] + 1]
      BY <2>5 DEF Interrupt
    <3>6. broken \in [Files -> 0..MaxFaults]
      BY DEF Types, Tables
    <3>7. broken' \in [Files -> 0..MaxFaults]
      BY <3>4, <3>5, <3>6
    <3> QED BY <1>2, <3>1, <3>2, <3>7 DEF Types, Tables
  <2> QED BY <2>1, <2>2, <2>3, <2>4, <2>5 DEF FolderStep
<1> QED BY <1>1, <1>3 DEF Types, Tables, database, carriage

\* Without a new row, the count of a file's copies stays right.
LEMMA FolderSteps ==
  ASSUME Types, Watched, FolderStep
  PROVE  Watched'
<1>1. Tables' /\ rows' = rows
  BY FolderTypes
<1>2. \A f \in Files : Copies(f)' = Copies(f) /\ Cardinality(Copies(f))' = Cardinality(Copies(f))
  BY <1>1 DEF Copies
<1>3. \A f \in Files : Cardinality(Copies(f)) \in Nat
  BY CopiesAreFinite
<1>4. /\ file \in [Files -> {"absent", "watched", "processed", "failed"}]
      /\ watcher \in [at : {"idle", "read", "stored"}, file : Files \union {"none"}]
      /\ faults \in Nat /\ broken \in [Files -> Nat]
  BY IntakeAssumption DEF Types, Tables
<1>5. /\ Idle.at = "idle"
      /\ watcher.at = "idle" => watcher = Idle
      /\ watcher.at # "idle" => watcher.file \in Files /\ file[watcher.file] = "watched"
  BY DEF Watched, Idle
<1>6. \A f \in Files :
         /\ broken[f] <= faults
         /\ Done(f) => Copies(f) # {}
         /\ Cardinality(Copies(f)) <= broken[f] + (IF Filed(f) THEN 1 ELSE 0)
  BY DEF Watched
<1>7. ASSUME \A f \in Files : (Done(f)' => Done(f)) /\ (Filed(f) => Filed(f)'), UNCHANGED <<broken, faults>>,
             watcher'.at = "idle" => watcher' = Idle,
             watcher'.at # "idle" => watcher'.file \in Files /\ file'[watcher'.file] = "watched"
      PROVE  Watched'
  <2>1. \A f \in Files :
           /\ broken'[f] <= faults'
           /\ Done(f)' => Copies(f)' # {}
           /\ Cardinality(Copies(f))' <= broken'[f] + (IF Filed(f)' THEN 1 ELSE 0)
    BY <1>2, <1>3, <1>4, <1>6, <1>7
  <2> QED BY <1>7, <2>1 DEF Watched, Idle
<1>8. ASSUME NEW f \in Files, Drop(f)
      PROVE  Watched'
  <2>1. /\ file[f] = "absent" /\ file' = [file EXCEPT ![f] = "watched"]
        /\ UNCHANGED <<watcher, faults, broken>>
    BY <1>8 DEF Drop
  <2>2. \A g \in Files : (Done(g)' => Done(g)) /\ (Filed(g) => Filed(g)')
    BY <1>4, <2>1 DEF Done, Filed
  <2> QED BY <1>4, <1>5, <1>7, <2>1, <2>2
<1>9. ASSUME NEW f \in Files, ReadFile(f)
      PROVE  Watched'
  <2>1. watcher = Idle /\ file[f] = "watched" /\ UNCHANGED <<faults, broken>>
    BY <1>9 DEF ReadFile
  <2>2. CASE watcher' = [at |-> "read", file |-> f] /\ UNCHANGED file
    <3>1. \A g \in Files : (Done(g)' => Done(g)) /\ (Filed(g) => Filed(g)')
      BY <1>5, <2>1, <2>2 DEF Done, Filed
    <3> QED BY <1>7, <2>1, <2>2, <3>1
  <2>3. CASE file' = [file EXCEPT ![f] = "failed"] /\ UNCHANGED watcher
    <3>1. \A g \in Files : (Done(g)' => Done(g)) /\ (Filed(g) => Filed(g)')
      BY <1>4, <2>1, <2>3 DEF Done, Filed
    <3> QED BY <1>5, <1>7, <2>1, <2>3, <3>1
  <2> QED BY <1>9, <2>2, <2>3 DEF ReadFile, ErrorFolder
<1>10. CASE RefuseFile
  <2>1. /\ watcher.at \in {"read", "stored"} /\ watcher' = Idle /\ UNCHANGED <<faults, broken>>
        /\ file' = [file EXCEPT ![watcher.file] = "failed"]
    BY <1>10 DEF RefuseFile, ErrorFolder
  <2>2. \A g \in Files : (Done(g)' => Done(g)) /\ (Filed(g) => Filed(g)')
    BY <1>4, <1>5, <2>1 DEF Done, Filed
  <2> QED BY <1>5, <1>7, <2>1, <2>2
<1>11. CASE MoveFile
  <2>1. /\ watcher.at = "stored" /\ watcher' = Idle /\ UNCHANGED <<faults, broken>>
        /\ file' = [file EXCEPT ![watcher.file] = "processed"]
    BY <1>11 DEF MoveFile
  <2>2. \A g \in Files : (Done(g)' => Done(g)) /\ (Filed(g) => Filed(g)')
    BY <1>4, <1>5, <2>1 DEF Done, Filed
  <2> QED BY <1>5, <1>7, <2>1, <2>2
<1>12. CASE Interrupt
  <2>1. watcher # Idle /\ faults' = faults + 1 /\ watcher' = Idle /\ file' = file
        /\ broken' = IF watcher.at = "stored"
                       THEN [broken EXCEPT ![watcher.file] = broken[watcher.file] + 1]
                       ELSE broken
    BY <1>12 DEF Interrupt
  <2>2. ASSUME NEW g \in Files
        PROVE  /\ broken'[g] <= faults'
               /\ Done(g)' => Copies(g) # {}
               /\ Cardinality(Copies(g)) <= broken'[g] + (IF Filed(g)' THEN 1 ELSE 0)
    <3>1. /\ broken[g] \in Nat /\ Cardinality(Copies(g)) \in Nat /\ broken[g] <= faults
          /\ Done(g) => Copies(g) # {}
          /\ Cardinality(Copies(g)) <= broken[g] + (IF Filed(g) THEN 1 ELSE 0)
      BY <1>3, <1>4, <1>6
    <3>2. CASE watcher.at = "stored" /\ watcher.file = g
      <4>1. Filed(g) /\ ~Done(g)' /\ broken'[g] = broken[g] + 1
        BY <1>4, <1>5, <2>1, <3>2 DEF Done, Filed
      <4> QED BY <1>4, <2>1, <3>1, <4>1
    <3>3. CASE ~(watcher.at = "stored" /\ watcher.file = g)
      <4>1. (Done(g)' <=> Done(g)) /\ (Filed(g)' <=> Filed(g)) /\ broken'[g] = broken[g]
        BY <1>4, <1>5, <2>1, <3>3 DEF Done, Filed
      <4> QED BY <1>4, <2>1, <3>1, <4>1
    <3> QED BY <3>2, <3>3
  <2>3. \A g \in Files :
           /\ broken'[g] <= faults'
           /\ Done(g)' => Copies(g)' # {}
           /\ Cardinality(Copies(g))' <= broken'[g] + (IF Filed(g)' THEN 1 ELSE 0)
    BY <1>2, <2>2
  <2> QED BY <1>5, <2>1, <2>3 DEF Watched, Idle
<1> QED BY <1>8, <1>9, <1>10, <1>11, <1>12 DEF FolderStep

\* A file that is stored has one copy more.
LEMMA StoresFile ==
  ASSUME Types, Carried, Watched, NEW c \in Contents, StoreFile(c)
  PROVE  Types' /\ Carried' /\ Watched'
<1>1. PICK x : x = [content |-> c, hash |-> TextHash(c)]
  OBVIOUS
<1>2. x \in Hashed
  BY <1>1, TextHashIsHash DEF Hashed
<1>3. /\ watcher.at = "read" /\ watcher' = [watcher EXCEPT !.at = "stored"]
      /\ UNCHANGED <<tombstones, carriage, txn, begun, file, faults, broken>>
  BY DEF StoreFile
<1>4. PICK f : f = watcher.file
  OBVIOUS
<1>5. f \in Files /\ file[f] = "watched"
  BY <1>3, <1>4 DEF Watched
<1>6. StoreAll(First, {x}, NoKey, f, {})
  BY <1>1, <1>4 DEF StoreFile
<1>7. Changes /\ Adds(f) /\ AddsOne(f)
  <2>1. PICK items : items = {x}
    OBVIOUS
  <2>2. PICK erased : erased = {}
    OBVIOUS
  <2>3. PICK i \in Instances : i = First
    BY FirstIsThere
  <2>4. /\ items \subseteq Hashed /\ erased \subseteq Ids /\ \E y : items = {y}
        /\ NoKey \in Keys \union {NoKey} /\ f \in Files \union {"none"}
        /\ \A r \in erased : rows[r] # NoRow
    BY <1>2, <1>5, <2>1, <2>2
  <2>5. StoreAll(i, items, NoKey, f, erased)
    BY <1>6, <2>1, <2>2, <2>3
  <2> QED BY <2>4, <2>5, StoresRows, Zenon
<1>8. watcher' \in [at : {"idle", "read", "stored"}, file : Files \union {"none"}]
      /\ watcher'.at = "stored" /\ watcher'.file = f
  BY <1>3, <1>4 DEF Types, Tables
<1>9. Tables'
  BY <1>3, <1>7, <1>8 DEF Types, Tables, Changes, carriage
<1>10. Types' /\ Carried'
  BY <1>3, <1>7, <1>9, Carries DEF Changes
<1>11. PICK p \in Ids : /\ rows[p] = NoRow /\ rows'[p] # NoRow /\ rows'[p].file = f
                        /\ \A r \in Ids : r # p /\ rows[r] = NoRow => rows'[r] = NoRow
  BY <1>7 DEF AddsOne
<1>12. Copies(f)' = Copies(f) \union {p} /\ p \notin Copies(f)
  BY <1>7, <1>11 DEF Copies, Changes, Grows
<1>13. Cardinality(Copies(f))' = Cardinality(Copies(f)) + 1
  <2>1. Cardinality(Copies(f) \union {p}) = Cardinality(Copies(f)) + 1
    BY <1>12, CopiesAreFinite, FS_AddElement
  <2> QED BY <1>12, <2>1
<1>14. ~Filed(f) /\ Done(f)' /\ Filed(f)'
  BY <1>3, <1>5, <1>8 DEF Done, Filed
<1>15. ASSUME NEW g \in Files
       PROVE  /\ broken'[g] <= faults'
              /\ Done(g)' => Copies(g)' # {}
              /\ Cardinality(Copies(g))' <= broken'[g] + (IF Filed(g)' THEN 1 ELSE 0)
  <2>1. /\ broken[g] \in Nat /\ Cardinality(Copies(g)) \in Nat /\ broken[g] <= faults
        /\ Done(g) => Copies(g) # {}
        /\ Cardinality(Copies(g)) <= broken[g] + (IF Filed(g) THEN 1 ELSE 0)
    BY CopiesAreFinite, IntakeAssumption DEF Watched, Types, Tables
  <2>2. CASE g = f
    BY <1>3, <1>12, <1>13, <1>14, <2>1, <2>2
  <2>3. CASE g # f
    <3>1. Copies(g)' = Copies(g)
      BY <1>7, <2>3, CopiesStay DEF Changes
    <3>2. (Done(g)' <=> Done(g)) /\ (Filed(g)' <=> Filed(g))
      BY <1>3, <1>4, <1>8, <2>3 DEF Done, Filed
    <3> QED BY <1>3, <2>1, <3>1, <3>2
  <2> QED BY <2>2, <2>3
<1>16. Watched'
  BY <1>3, <1>5, <1>8, <1>15 DEF Watched
<1> QED BY <1>10, <1>16

-----------------------------------------------------------------------------
(* The theorems *)

LEMMA Initially ==
  ASSUME Init
  PROVE  Types /\ Carried /\ Watched
<1>1. Types
  <2>1. /\ Idle \in [at : {"idle", "read", "stored"}, file : Files \union {"none"}]
        /\ 0 \in 0..MaxTxns /\ 0 \in 0..MaxFaults
    BY IntakeAssumption DEF Idle
  <2>2. Tables
    BY <2>1 DEF Init, Tables
  <2> QED BY <2>2, OverIsSound DEF Init, Types, Sound
<1>2. Carried
  BY OverIsSound DEF Init, Carried, Travelling, Named
<1>3. Watched
  <2>1. Idle.at = "idle"
    BY DEF Idle
  <2>2. ASSUME NEW f \in Files
        PROVE  /\ ~Done(f) /\ broken[f] = 0 /\ faults = 0
               /\ Cardinality(Copies(f)) = 0
    <3>1. ~Done(f) /\ broken[f] = 0 /\ faults = 0
      BY <2>1 DEF Init, Done
    <3>2. Copies(f) = {}
      BY DEF Init, Copies
    <3> QED BY <3>1, <3>2, FS_EmptySet
  <2>3. watcher = Idle
    BY DEF Init
  <2> QED BY <2>1, <2>2, <2>3 DEF Watched
<1> QED BY <1>1, <1>2, <1>3

LEMMA Steps ==
  ASSUME Types, Carried, Watched, [Next]_vars
  PROVE  Types' /\ Carried' /\ Watched'
<1>1. CASE \E t \in Txns : Step(t)
  <2>1. Types' /\ Carried' /\ Apart
    BY <1>1, TxnSteps
  <2> QED BY <2>1, FolderStays DEF Apart
<1>2. CASE \E i \in Instances : ExportItems(i) \/ ExportDeletions(i)
  <2>1. Tables' /\ UNCHANGED <<database, folder, txn>>
    BY <1>2, Exports
  <2>2. Changes /\ Adds("none")
    BY <2>1, SameRows DEF database
  <2> QED BY <2>1, <2>2, Carries, FolderStays DEF Changes
<1>3. CASE FolderStep
  <2>1. Tables' /\ UNCHANGED <<rows, txn>>
    BY <1>3, FolderTypes
  <2> QED BY <1>3, <2>1, SameRows, Carries, FolderSteps DEF Changes
<1>4. CASE \E c \in Contents : StoreFile(c)
  BY <1>4, StoresFile
<1>5. CASE UNCHANGED vars
  <2>1. UNCHANGED <<database, carriage, folder, txn, begun>> /\ UNCHANGED <<rows, txn, folder>>
    BY <1>5 DEF vars, database
  <2>2. Tables'
    BY <2>1 DEF Types, Tables, database, carriage, folder
  <2> QED BY <2>1, <2>2, SameRows, Carries, FolderStays DEF Changes
<1> QED BY <1>1, <1>2, <1>3, <1>4, <1>5 DEF Next, FolderStep

\* What the imports carry, and what became of the watched files, hold in every
\* state.
THEOREM Provenance == Spec => [](Types /\ Carried /\ Watched)
<1>1. Init => Types /\ Carried /\ Watched
  BY Initially
<1>2. Types /\ Carried /\ Watched /\ [Next]_vars => (Types /\ Carried /\ Watched)'
  BY Steps
<1> QED BY <1>1, <1>2, PTL DEF Spec

\* Every variable of the intake keeps its type.
THEOREM TypeCorrect == Spec => []TypeOK
<1>1. Types /\ Carried /\ Watched => TypeOK
  BY DEF Types, Tables, Transaction, TypeOK
<1> QED BY <1>1, Provenance, PTL

\* The watched folder loses nothing, and repeats only after a fault.
THEOREM FoldersAreStored == Spec => []FilesAreStored
<1>1. ASSUME Types, Watched
      PROVE  FilesAreStored
  <2> SUFFICES ASSUME NEW f \in Files
               PROVE  /\ file[f] = "processed" => Cardinality(Copies(f)) > 0
                      /\ Cardinality(Copies(f)) <= 1 + broken[f]
    BY DEF FilesAreStored, Copies
  <2>1. /\ broken[f] \in Nat /\ Cardinality(Copies(f)) \in Nat
        /\ Done(f) => Copies(f) # {}
        /\ Cardinality(Copies(f)) <= broken[f] + (IF Filed(f) THEN 1 ELSE 0)
    BY <1>1, CopiesAreFinite, IntakeAssumption DEF Watched, Types, Tables
  <2>2. Copies(f) # {} => Cardinality(Copies(f)) # 0
    BY CopiesAreFinite, FS_EmptySet
  <2>3. Cardinality(Copies(f)) <= 1 + broken[f]
    BY <2>1
  <2>4. file[f] = "processed" => Copies(f) # {}
    BY <2>1 DEF Done
  <2> QED BY <2>1, <2>2, <2>3, <2>4
<1> QED BY <1>1, Provenance, PTL

\* A deletion travels with a bundle, whatever happens while it is read in.
THEOREM DeletionsTravel == Spec => DeletionTravels
<1> DEFINE Within ==
      \A t \in Txns :
         /\ CommitBundle(t) =>
              \A r \in txn[t].seen : rows'[r].live => rows[r].hash \notin Req(t).bundle.deleted
         /\ StoreItem(t) => \A x \in txn[t].new : x.hash \notin Req(t).bundle.deleted
<1>1. ASSUME Types, Carried
      PROVE  Within
  <2> SUFFICES ASSUME NEW t \in Txns
               PROVE  /\ CommitBundle(t) =>
                           \A r \in txn[t].seen :
                              rows'[r].live => rows[r].hash \notin Req(t).bundle.deleted
                      /\ StoreItem(t) =>
                           \A x \in txn[t].new : x.hash \notin Req(t).bundle.deleted
    OBVIOUS
  <2>1. ASSUME CommitBundle(t)
        PROVE  \A r \in txn[t].seen :
                  rows'[r].live => rows[r].hash \notin Req(t).bundle.deleted
    <3>1. /\ txn[t] \in Transaction /\ txn[t].at = "item" /\ txn[t].req.op = "bundle"
          /\ Req(t) = txn[t].req /\ Travelling(txn[t])
      BY <1>1, <2>1, AtStage DEF CommitBundle, At, Requested
    <3> SUFFICES ASSUME NEW r \in txn[t].seen, rows'[r].live, rows[r].hash \in Req(t).bundle.deleted
                 PROVE  FALSE
      OBVIOUS
    <3>2. r \in Ids /\ rows[r] # NoRow /\ (rows[r].live => r \in txn[t].erase)
      BY <3>1 DEF Travelling, Transaction
    <3>3. rows[r] \in Row
      BY <1>1, <3>2 DEF Types, Tables
    <3>4. rows'[r] = IF r \in txn[t].erase THEN [rows[r] EXCEPT !.live = FALSE] ELSE rows[r]
      BY <2>1, <3>2 DEF CommitBundle
    <3> QED BY <3>2, <3>3, <3>4 DEF Row
  <2>2. ASSUME StoreItem(t)
        PROVE  \A x \in txn[t].new : x.hash \notin Req(t).bundle.deleted
    <3>1. /\ txn[t].at = "store" /\ txn[t].req.op = "bundle"
          /\ Req(t) = txn[t].req /\ Travelling(txn[t])
      BY <1>1, <2>2, AtStage DEF StoreItem, At
    <3> QED BY <3>1 DEF Travelling
  <2> QED BY <2>1, <2>2
<1>2. Spec => [][Within]_vars
  BY <1>1, Provenance, PTL
<1> QED BY <1>2 DEF DeletionTravels

=============================================================================
