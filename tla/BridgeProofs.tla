---------------------------- MODULE BridgeProofs ----------------------------
(***************************************************************************)
(* The bridge, for every number of clients, spaces, keys, sources and      *)
(* transactions: what is served and stored is granted when it is committed *)
(* and a repeated request stays one source.                                *)
(***************************************************************************)
EXTENDS BridgeProperties, WellFoundedInduction, TLAPS

\* The types of the tables, without the transactions.
Tables ==
    /\ active \in [Clients -> BOOLEAN]
    /\ spaces \in [Spaces -> SpaceRow \union {Absent}]
    /\ grants \in [Clients -> [Spaces -> SUBSET Rights]]
    /\ bindings \in [Clients \X Kinds -> Spaces \union {NoSpace}]
    /\ aliases \in [Clients \X Kinds \X Keys -> Spaces \union {NoSpace}]
    /\ receipts \in [Clients \X Spaces \X Keys -> Receipt \union {NoReceipt}]
    /\ archives \in [Archives -> Archive \union {NoArchive}]
    /\ managed \in BOOLEAN
    /\ acks \subseteq Ack
    /\ begun \in 0..MaxTxns

\* an alias is bound to a space of its kind
BoundToKind ==
    \A b \in Clients \X Kinds : bindings[b] # NoSpace => spaces[bindings[b]].kind = b[2]

Past(x)   == x.at \notin {"idle", "snapshot", "client"}
Writes(x) == x.req.op = "provision"

\* Each stage belongs to one operation, or to the ones that share it.
Requested(x) ==
    /\ x.at # "idle" => x.req \in Requests
    /\ x.at \in {"alias", "key", "accept"} => x.req.op = "ingest"
    /\ x.at \in {"snapshot", "search", "items", "respond"} => x.req.op = "retrieve"
    /\ x.at = "commit" => x.req.op = "provision"
    /\ x.at \in {"plan", "grants"} => x.req.op # "provision"

\* What a transaction has chosen and locked when it reaches a stage.
Locking(x) ==
    /\ x.at = "spaces" <=> x.todo # {}
    /\ x.locked # {} => x.at \notin {"idle", "snapshot", "client", "alias", "plan"}
    /\ x.items # {} => x.at \in {"items", "respond"}
    /\ Past(x) /\ x.at # "alias" /\ x.req.op = "ingest" => x.dest # NoSpace
    /\ x.at \in {"key", "accept"} => x.dest \in x.locked
    /\ x.at = "spaces" /\ Writes(x) => x.todo = {x.req.space}
    /\ x.at = "commit" => x.req.space \in x.locked

Sound(x) == x \in Transaction /\ Requested(x) /\ Locking(x)

Types ==
    /\ Tables
    /\ txn \in [Txns -> Transaction] /\ \A t \in Txns : Sound(txn[t])

-----------------------------------------------------------------------------
(* The locks, two transactions at a time *)

\* an alias request that has its alias
ByAlias(x) == Past(x) /\ x.at # "alias" /\ x.req.op = "ingest" /\ x.req.space = NoSpace

\* Two transactions write under no lock that both hold.
Apart(x, y) ==
    /\ Past(x) /\ Past(y) /\ x.req.client = y.req.client => ~Writes(x) /\ ~Writes(y)
    /\ Past(x) /\ Past(y) /\ x.locked \cap y.locked # {} => ~Writes(x) /\ ~Writes(y)
    /\ ByAlias(x) /\ ByAlias(y) =>
         <<x.req.client, x.req.to, x.req.key>> # <<y.req.client, y.req.to, y.req.key>>
    /\ x.at = "accept" /\ y.at = "accept" =>
         <<x.req.client, x.dest, x.req.key>> # <<y.req.client, y.dest, y.req.key>>

Exclusive == \A t, u \in Txns : t # u => Apart(txn[t], txn[u])

\* What a transaction found under its locks is still so.
Enters(x) == \A s \in x.todo \union x.locked : MayEnter(x.req.client, s)

Holds(x) ==
    x.at \in {"key", "accept", "search", "items", "respond"} =>
        \A s \in x.locked :
            (IF x.req.op = "ingest" THEN "write" ELSE "read") \in grants[x.req.client][s]

Serves(x) == \A a \in x.items : archives[a].live /\ archives[a].space \in x.locked

Permits(x) ==
    Past(x) =>
        IF Writes(x) THEN x.at = "commit" => ProvisionStands(x.req)
                     ELSE active[x.req.client] /\ Enters(x) /\ Holds(x) /\ Serves(x)

\* An alias is where it was when the request resolved it, and a key has no
\* receipt of another payload.
Pinned(x) ==
    ByAlias(x) =>
        aliases[<<x.req.client, x.req.to, x.req.key>>] = IF x.pinned THEN x.dest ELSE NoSpace

Keyed(x) ==
    x.at = "accept" =>
        LET r == receipts[<<x.req.client, x.dest, x.req.key>>]
        IN r = NoReceipt \/ r.payload = x.req.payload

Standing == \A t \in Txns : Permits(txn[t]) /\ Pinned(txn[t]) /\ Keyed(txn[t])

\* Every answer is what the receipt and the alias of its request say.
Answered ==
    \A a \in acks :
        /\ receipts[<<a.req.client, a.space, a.req.key>>] =
             [payload |-> a.req.payload, archive |-> a.archive]
        /\ a.req.to \in Kinds /\ a.req.space = NoSpace =>
             aliases[<<a.req.client, a.req.to, a.req.key>>] = a.space

Served == Exclusive /\ Standing /\ BoundToKind /\ Answered

-----------------------------------------------------------------------------
(* Operators *)

\* The first of a set of ids is the least of them.
LEMMA LeastOf ==
  ASSUME NEW S, S \subseteq Nat, S # {}
  PROVE  First(S) \in S
<1>1. PICK x \in S : \A y \in S : ~(<<y, x>> \in OpToRel(<, Nat))
  BY NatLessThanWellFounded, WFMin
<1>2. \A y \in S : (<<y, x>> \in OpToRel(<, Nat)) <=> y < x
  BY DEF OpToRel
<1>3. \A y \in S : ~(y < x)
  BY <1>1, <1>2, Zenon
<1>4. \A y \in S : x <= y
  BY <1>3
<1> QED BY <1>4 DEF First

\* What a request of each operation names.
LEMMA RequestFields ==
  ASSUME NEW m \in Requests
  PROVE  /\ m.op \in {"ingest", "retrieve", "provision"} /\ m.client \in Clients
         /\ m \in IngestRequest \union RetrieveRequest \union ProvisionRequest
         /\ m.op = "ingest" =>
              /\ m \in IngestRequest /\ m.to \in Kinds \union {"direct"}
              /\ m.key \in Keys /\ m.payload \in Payloads
              /\ m.space \in Spaces \union {NoSpace}
              /\ m.space = NoSpace => m.to \in Kinds
         /\ m.op = "retrieve" => m.spaces \in SUBSET Spaces
         /\ m.op = "provision" =>
              m.space \in Spaces /\ m.kind \in Kinds /\ m.rights \in GrantSets /\ m.bind \in BOOLEAN
BY DEF Requests, IngestRequest, RetrieveRequest, ProvisionRequest

\* The spaces a transaction of each operation wants.
LEMMA Wants ==
  ASSUME NEW t
  PROVE  /\ txn[t].req.op = "ingest" => Wanted(t) = {txn[t].dest}
         /\ txn[t].req.op = "provision" => Wanted(t) = {txn[t].req.space}
         /\ txn[t].req.op = "retrieve" =>
              Wanted(t) = IF txn[t].req.spaces = {} THEN Spaces ELSE txn[t].req.spaces
BY DEF Wanted, Req

\* A transaction that is over is sound, holds nothing and needs nothing.
LEMMA OverStands ==
  /\ Sound(Over) /\ Over.at = "idle"
  /\ Permits(Over) /\ Pinned(Over) /\ Keyed(Over)
  /\ \A x : Apart(Over, x) /\ Apart(x, Over)
<1>1. /\ Over \in Transaction /\ Over.at = "idle" /\ Over.locked = {}
      /\ Over.todo = {} /\ Over.items = {}
  BY DEF Over, Transaction, Stages, NoRequest, NoSnapshot
<1> QED
  BY <1>1 DEF Sound, Requested, Locking, Permits, Pinned, Keyed, Apart, Past, ByAlias

\* Sharing a lock is mutual.
LEMMA ApartIsMutual == \A x, y : Apart(x, y) <=> Apart(y, x)
BY DEF Apart

\* Who goes on under the same locks, or fewer, stays apart from the others.
LEMMA StaysApart ==
  ASSUME NEW x, NEW y, NEW r, Apart(x, y), Past(x), r.req = x.req, r.dest = x.dest,
         r.at # "accept", r.locked \subseteq x.locked, ByAlias(r) => ByAlias(x)
  PROVE  Apart(r, y)
BY DEF Apart, ByAlias, Writes

\* The fields of a transaction.
LEMMA Fields ==
  ASSUME NEW x \in Transaction
  PROVE  /\ x.at \in Stages /\ x.dest \in Spaces \union {NoSpace} /\ x.pinned \in BOOLEAN
         /\ x.todo \in SUBSET Spaces /\ x.locked \in SUBSET Spaces
         /\ x.found \in SUBSET Archives /\ x.items \in SUBSET Archives
         /\ x.seen \in Snapshot \union {NoSnapshot}
BY DEF Transaction

\* A step that only reads keeps everything, if what it makes of its transaction
\* is sound, apart from the others and true of the tables.
LEMMA ReadsKeep ==
  ASSUME Types, Served, NEW t \in Txns, NEW r, Update(t, r),
         UNCHANGED <<access, memory, managed, acks>>, begun' \in 0..MaxTxns,
         Sound(r), \A u \in Txns : u # t => Apart(r, txn[u]),
         Permits(r), Pinned(r), Keyed(r)
  PROVE  Types' /\ Served'
<1>1. /\ txn' \in [Txns -> Transaction]
      /\ txn'[t] = r /\ \A u \in Txns : u # t => txn'[u] = txn[u]
  BY DEF Types, Update, Sound
<1>2. \A u \in Txns : Sound(txn[u])'
  BY <1>1 DEF Types, Sound, Requested, Locking, Writes, Past
<1>3. Types'
  BY <1>1, <1>2 DEF Types, Tables, access, memory
<1>4. Exclusive'
  <2>1. \A u, v \in Txns : u # v => Apart(txn'[u], txn'[v])
    BY <1>1, ApartIsMutual DEF Served, Exclusive
  <2> QED BY <2>1 DEF Exclusive, Apart, Past, Writes, ByAlias
<1>5. \A u \in Txns : Permits(txn'[u]) /\ Pinned(txn'[u]) /\ Keyed(txn'[u])
  BY <1>1 DEF Served, Standing
<1>6. \A u \in Txns : Permits(txn[u])'
  BY <1>5 DEF Permits, Enters, MayEnter, Holds, Serves, ProvisionStands, access, memory,
              Past, Writes
<1>7. \A u \in Txns : Pinned(txn[u])' /\ Keyed(txn[u])'
  BY <1>5 DEF Pinned, Keyed, memory, ByAlias, Past
<1>8. Standing'
  BY <1>6, <1>7 DEF Standing
<1> QED BY <1>3, <1>4, <1>8 DEF Served, BoundToKind, Answered, access, memory

-----------------------------------------------------------------------------
(* Who waits for nobody has the lock for itself *)

LEMMA FreeLocks ==
  ASSUME NEW t \in Txns, NEW u \in Txns, u # t
  PROVE  /\ ClientBlockers(t) = {} /\ Past(txn[u]) /\ txn[u].req.client = txn[t].req.client =>
              ~Writes(txn[t]) /\ ~Writes(txn[u])
         /\ \A s : SpaceBlockers(t, s) = {} /\ Past(txn[u]) /\ s \in txn[u].locked =>
              ~Writes(txn[t]) /\ ~Writes(txn[u])
         /\ AliasBlockers(t) = {} /\ ByAlias(txn[u]) =>
              <<txn[u].req.client, txn[u].req.to, txn[u].req.key>>
                # <<txn[t].req.client, txn[t].req.to, txn[t].req.key>>
         /\ KeyBlockers(t) = {} /\ txn[u].at = "accept" =>
              <<txn[u].req.client, txn[u].dest, txn[u].req.key>>
                # <<txn[t].req.client, txn[t].dest, txn[t].req.key>>
<1>1. Past(txn[u]) <=> u \in Holders \ {t}
  BY DEF Past, Holders, At
<1>2. ClientBlockers(t) = {} => ~(u \in Holders \ {t} /\ Client(u) = Client(t) /\ (Writing(t) \/ Writing(u)))
  BY DEF ClientBlockers
<1>3. \A s : SpaceBlockers(t, s) = {} =>
        ~(u \in Holders \ {t} /\ s \in txn[u].locked /\ (Writing(t) \/ Writing(u)))
  BY DEF SpaceBlockers
<1>4. AliasBlockers(t) = {} =>
        ~(/\ u \in Holders \ {t} /\ Req(u).op = "ingest" /\ At(u) # "alias"
          /\ <<Client(u), Req(u).to, Req(u).key>> = <<Client(t), Req(t).to, Req(t).key>>
          /\ Req(u).space = NoSpace)
  BY DEF AliasBlockers
<1>5. KeyBlockers(t) = {} =>
        ~(/\ u \in Holders \ {t} /\ At(u) = "accept"
          /\ <<Client(u), txn[u].dest, Req(u).key>> = <<Client(t), txn[t].dest, Req(t).key>>)
  BY DEF KeyBlockers
<1>6. txn[u].at = "accept" => u \in Holders \ {t}
  BY DEF Holders, At
<1> QED
  BY <1>1, <1>2, <1>3, <1>4, <1>5, <1>6 DEF Client, Req, At, Writing, Writes, ByAlias

-----------------------------------------------------------------------------
(* Steps that only read *)

\* What such a step leaves alone.
Rows == <<access, memory, managed, acks>>

\* A transaction that ends gives up what it holds.
LEMMA Ends ==
  ASSUME Types, Served, NEW t \in Txns, End(t), UNCHANGED <<Rows, begun>>
  PROVE  Types' /\ Served'
<1>1. begun' \in 0..MaxTxns
  BY DEF Types, Tables
<1> QED BY <1>1, OverStands, ReadsKeep DEF End, Rows

\* A request that begins holds nothing yet.
LEMMA Begins ==
  ASSUME Types, Served, NEW t \in Txns, Begin(t)
  PROVE  Types' /\ Served'
<1>1. PICK m \in Requests, stage \in {"snapshot", "client"} :
        /\ Update(t, [Over EXCEPT !.at = stage, !.req = m])
        /\ stage = "snapshot" => m.op = "retrieve"
  BY DEF Begin
<1> DEFINE r == [Over EXCEPT !.at = stage, !.req = m]
<1>2. /\ r.at = stage /\ r.req = m /\ r.locked = {} /\ r.todo = {} /\ r.items = {}
      /\ r \in Transaction
  BY RequestFields DEF Over, Transaction, Stages, NoRequest, NoSnapshot
<1>3. Update(t, r)
  BY <1>1
<1>4. begun' \in 0..MaxTxns /\ UNCHANGED Rows
  BY BridgeAssumption DEF Begin, Types, Tables, Rows
<1> HIDE DEF r
<1>5. Sound(r)
  BY <1>1, <1>2 DEF Sound, Requested, Locking, Past
<1>6. \A u \in Txns : Apart(r, txn[u])
  BY <1>2 DEF Apart, Past, ByAlias
<1>7. Permits(r) /\ Pinned(r) /\ Keyed(r)
  BY <1>2 DEF Permits, Pinned, Keyed, ByAlias, Past
<1> QED BY <1>3, <1>4, <1>5, <1>6, <1>7, ReadsKeep DEF Rows

\* A snapshot locks nothing.
LEMMA TakesSnapshot ==
  ASSUME Types, Served, NEW t \in Txns, TakeSnapshot(t)
  PROVE  Types' /\ Served'
<1> DEFINE seen == [active |-> active[Client(t)], grants |-> grants[Client(t)],
                    archives |-> archives]
           r == [txn[t] EXCEPT !.at = "client", !.seen = seen]
<1>1. /\ txn[t] \in Transaction /\ Requested(txn[t]) /\ Locking(txn[t])
      /\ txn[t].at = "snapshot"
  BY DEF Types, Sound, TakeSnapshot, At
<1>2. Client(t) \in Clients
  BY <1>1, RequestFields DEF Client, Requested
<1>3. seen \in Snapshot
  BY <1>2 DEF Snapshot, Types, Tables
<1> HIDE DEF seen
<1>4. /\ r.at = "client" /\ r.req = txn[t].req /\ r.locked = txn[t].locked
      /\ r.todo = txn[t].todo /\ r.items = txn[t].items
      /\ r \in Transaction
  BY <1>1, <1>3 DEF Transaction, Stages
<1>5. Update(t, r) /\ UNCHANGED Rows /\ begun' \in 0..MaxTxns
  BY DEF TakeSnapshot, seen, Types, Tables, Rows
<1> HIDE DEF r
<1>6. Sound(r)
  BY <1>1, <1>4 DEF Sound, Requested, Locking, Past
<1>7. \A u \in Txns : Apart(r, txn[u])
  BY <1>4 DEF Apart, Past, ByAlias
<1>8. Permits(r) /\ Pinned(r) /\ Keyed(r)
  BY <1>4 DEF Permits, Pinned, Keyed, ByAlias, Past
<1> QED BY <1>5, <1>6, <1>7, <1>8, ReadsKeep DEF Rows

\* Under the lock of the client nobody else changes what it may do.
LEMMA LocksClient ==
  ASSUME Types, Served, NEW t \in Txns, LockClient(t)
  PROVE  Types' /\ Served'
<1>1. /\ txn[t] \in Transaction /\ Requested(txn[t]) /\ Locking(txn[t])
      /\ txn[t].at = "client" /\ ClientBlockers(t) = {} /\ txn[t].req \in Requests
  BY DEF Types, Sound, LockClient, Ready, At, Blockers, Requested
<1>2. txn[t].locked = {} /\ txn[t].todo = {} /\ txn[t].items = {}
  BY <1>1 DEF Locking
<1>3. UNCHANGED <<Rows, begun>> /\ UNCHANGED Rows /\ begun' \in 0..MaxTxns
  BY DEF LockClient, Types, Tables, Rows
<1>4. \A r : r.req = txn[t].req /\ r.locked = {} /\ r.at # "accept" /\ ~ByAlias(r)
        => \A u \in Txns : u # t => Apart(r, txn[u])
  BY <1>1, FreeLocks DEF Apart, Past, Writes
<1>5. CASE Writing(t)
  <2> DEFINE r == [txn[t] EXCEPT !.at = "spaces", !.todo = Wanted(t)]
  <2>1. Wanted(t) = {txn[t].req.space} /\ txn[t].req.space \in Spaces /\ txn[t].req.op = "provision"
    <3>1. txn[t].req.op = "provision"
      BY <1>5 DEF Writing, Req
    <3>2. Wanted(t) = {txn[t].req.space}
      BY <3>1, Wants
    <3> QED BY <1>1, <3>1, <3>2, RequestFields
  <2>2. /\ r.at = "spaces" /\ r.req = txn[t].req /\ r.locked = {} /\ r.todo = {txn[t].req.space}
        /\ r.items = {} /\ r \in Transaction
    <3>1. {txn[t].req.space} \in SUBSET Spaces
      BY <2>1
    <3> QED BY <1>1, <1>2, <2>1, <3>1 DEF Transaction, Stages
  <2>3. Update(t, r)
    BY <1>5 DEF LockClient
  <2> HIDE DEF r
  <2>4. Sound(r)
    BY <1>1, <2>1, <2>2 DEF Sound, Requested, Locking, Past, Writes
  <2>5. ~ByAlias(r) /\ Permits(r) /\ Pinned(r) /\ Keyed(r)
    BY <2>1, <2>2 DEF Permits, Pinned, Keyed, ByAlias, Past, Writes
  <2>6. \A u \in Txns : u # t => Apart(r, txn[u])
    BY <1>4, <2>2, <2>5
  <2> QED BY <1>3, <2>3, <2>4, <2>5, <2>6, ReadsKeep DEF Rows
<1>6. CASE ~Writing(t) /\ ~Authenticated(t)
  <2>1. End(t)
    BY <1>6 DEF LockClient
  <2> QED BY <1>3, <2>1, Ends
<1>7. CASE ~Writing(t) /\ Authenticated(t)
  <2> DEFINE stage == IF Req(t).op = "ingest" THEN "alias" ELSE "plan"
             r == [txn[t] EXCEPT !.at = stage]
  <2>1. /\ txn[t].req.op # "provision" /\ active[txn[t].req.client]
        /\ stage = IF txn[t].req.op = "ingest" THEN "alias" ELSE "plan"
    BY <1>7 DEF Writing, Authenticated, Req, Client
  <2>2. Update(t, r)
    BY <1>7 DEF LockClient, Goto
  <2>3. stage \in Stages
    BY DEF Stages
  <2> HIDE DEF stage
  <2>4. /\ r.at = stage /\ r.req = txn[t].req /\ r.locked = {} /\ r.todo = {}
        /\ r.items = {} /\ r \in Transaction
    BY <1>1, <1>2, <2>3 DEF Transaction
  <2> HIDE DEF r
  <2>5. txn[t].req.op = "ingest" \/ txn[t].req.op = "retrieve"
    BY <1>1, <2>1, RequestFields
  <2>6. Sound(r)
    BY <1>1, <2>1, <2>4, <2>5 DEF Sound, Requested, Locking, Past, Writes
  <2>7. ~ByAlias(r) /\ Pinned(r) /\ Keyed(r)
    BY <2>1, <2>4 DEF Pinned, Keyed, ByAlias
  <2>8. Permits(r)
    BY <2>1, <2>4 DEF Permits, Enters, Holds, Serves, Writes
  <2>9. \A u \in Txns : u # t => Apart(r, txn[u])
    BY <1>4, <2>1, <2>4, <2>7
  <2> QED BY <1>3, <2>2, <2>6, <2>7, <2>8, <2>9, ReadsKeep DEF Rows
<1> QED BY <1>5, <1>6, <1>7

\* An alias request learns where it was stored before, and under the lock of the
\* alias that stays so.
LEMMA Resolves ==
  ASSUME Types, Served, NEW t \in Txns, Resolve(t)
  PROVE  Types' /\ Served'
<1> DEFINE named == txn[t].req.space
           to == IF named # NoSpace THEN [dest |-> named, pinned |-> FALSE] ELSE Resolved(t)
           r == [txn[t] EXCEPT !.at = "plan", !.dest = to.dest, !.pinned = to.pinned]
<1>1. /\ txn[t] \in Transaction /\ Requested(txn[t]) /\ Locking(txn[t])
      /\ txn[t].at = "alias" /\ AliasBlockers(t) = {} /\ txn[t].req \in Requests
      /\ txn[t].req.op = "ingest"
  BY DEF Types, Sound, Resolve, Ready, At, Blockers, Requested
<1>2. txn[t].locked = {} /\ txn[t].todo = {} /\ txn[t].items = {}
  BY <1>1 DEF Locking
<1>3. UNCHANGED <<Rows, begun>> /\ UNCHANGED Rows /\ begun' \in 0..MaxTxns
  BY DEF Resolve, Types, Tables, Rows
<1>4. CASE to.dest = NoSpace
  <2>1. End(t)
    BY <1>4 DEF Resolve, Req
  <2> QED BY <1>3, <2>1, Ends
<1>5. CASE to.dest # NoSpace
  <2>1. Update(t, r)
    BY <1>5 DEF Resolve, Req
  <2>2. /\ to.dest \in Spaces /\ to.pinned \in BOOLEAN
        /\ named = NoSpace =>
             aliases[<<txn[t].req.client, txn[t].req.to, txn[t].req.key>>]
               = IF to.pinned THEN to.dest ELSE NoSpace
    <3>1. /\ named \in Spaces \union {NoSpace}
          /\ txn[t].req.client \in Clients /\ txn[t].req.key \in Keys
          /\ named = NoSpace => txn[t].req.to \in Kinds
      BY <1>1, RequestFields
    <3>2. CASE named # NoSpace
      BY <3>1, <3>2
    <3>3. CASE named = NoSpace
      <4>1. /\ PinnedSpace(t) = aliases[<<txn[t].req.client, txn[t].req.to, txn[t].req.key>>]
            /\ PinnedSpace(t) \in Spaces \union {NoSpace}
            /\ Bound(t) \in Spaces \union {NoSpace}
        BY <3>1, <3>3 DEF PinnedSpace, Bound, Req, Client, Types, Tables
      <4> QED BY <1>5, <3>3, <4>1 DEF Resolved
    <3> QED BY <3>2, <3>3
  <2> HIDE DEF to
  <2>3. /\ r.at = "plan" /\ r.req = txn[t].req /\ r.locked = {} /\ r.todo = {} /\ r.items = {}
        /\ r.dest = to.dest /\ r.pinned = to.pinned /\ r \in Transaction
    BY <1>1, <1>2, <2>2 DEF Transaction, Stages
  <2> HIDE DEF r
  <2>4. Sound(r)
    BY <1>1, <1>5, <2>3 DEF Sound, Requested, Locking, Past, Writes
  <2>5. \A u \in Txns : u # t => Apart(r, txn[u])
    <3>1. Past(txn[t]) /\ \A u \in Txns : u # t => Apart(txn[t], txn[u])
      BY <1>1 DEF Served, Exclusive, Past
    <3>2. \A u \in Txns : u # t => (ByAlias(txn[u]) =>
            <<txn[u].req.client, txn[u].req.to, txn[u].req.key>>
              # <<r.req.client, r.req.to, r.req.key>>)
      BY <1>1, <2>3, FreeLocks
    <3> QED BY <2>3, <3>1, <3>2 DEF Apart, Past, Writes
  <2>6. Permits(r)
    <3>1. active[txn[t].req.client]
      BY <1>1 DEF Served, Standing, Permits, Past, Writes
    <3> QED BY <1>1, <2>3, <3>1 DEF Permits, Enters, Holds, Serves, Writes
  <2>7. Pinned(r) /\ Keyed(r)
    BY <2>2, <2>3 DEF Pinned, Keyed, ByAlias
  <2> QED BY <1>3, <2>1, <2>4, <2>5, <2>6, <2>7, ReadsKeep DEF Rows
<1> QED BY <1>4, <1>5

\* A step under the locks it has, or fewer, that looks at no key.
LEMMA GoesOn ==
  ASSUME Types, Served, NEW t \in Txns, NEW r, Update(t, r), UNCHANGED <<Rows, begun>>,
         Sound(r), Past(txn[t]), txn[t].at # "alias", r.at # "accept", r.req = txn[t].req,
         r.dest = txn[t].dest, r.pinned = txn[t].pinned, r.locked \subseteq txn[t].locked,
         Permits(r)
  PROVE  Types' /\ Served'
<1>1. UNCHANGED Rows /\ begun' \in 0..MaxTxns
  BY DEF Types, Tables, Rows
<1>2. ByAlias(r) => ByAlias(txn[t])
  BY DEF ByAlias
<1>3. \A u \in Txns : u # t => Apart(r, txn[u])
  BY <1>2, StaysApart DEF Served, Exclusive
<1>4. Pinned(r) /\ Keyed(r)
  BY <1>2 DEF Served, Standing, Pinned, Keyed
<1> QED BY <1>1, <1>3, <1>4, ReadsKeep DEF Rows

\* The spaces a request finds are ones it may enter.
LEMMA FindsSpaces ==
  ASSUME Types, Served, NEW t \in Txns, FindSpaces(t)
  PROVE  Types' /\ Served'
<1> DEFINE stage == IF Found(t) = {} THEN "grants" ELSE "spaces"
           r == [txn[t] EXCEPT !.at = stage, !.todo = Found(t)]
<1>1. /\ txn[t] \in Transaction /\ Requested(txn[t]) /\ Locking(txn[t])
      /\ txn[t].at = "plan" /\ txn[t].req \in Requests /\ txn[t].req.op # "provision"
  BY DEF Types, Sound, FindSpaces, At, Requested
<1>2. txn[t].locked = {} /\ txn[t].items = {}
  BY <1>1 DEF Locking
<1>3. Found(t) \subseteq Wanted(t) /\ \A s \in Found(t) : MayEnter(txn[t].req.client, s)
  BY DEF Found, Client
<1>4. Found(t) \in SUBSET Spaces
  <2>1. txn[t].req.op = "ingest" => txn[t].dest \in Spaces
    BY <1>1, Fields DEF Locking, Past
  <2>2. \/ txn[t].req.op = "ingest"
        \/ txn[t].req.op = "retrieve" /\ txn[t].req.spaces \in SUBSET Spaces
    BY <1>1, RequestFields
  <2>3. CASE txn[t].req.op = "ingest"
    BY <1>3, <2>1, <2>3, Wants
  <2>4. CASE txn[t].req.op = "retrieve"
    <3>1. Wanted(t) = IF txn[t].req.spaces = {} THEN Spaces ELSE txn[t].req.spaces
      BY <2>4, Wants
    <3> QED BY <1>3, <2>2, <2>4, <3>1
  <2> QED BY <2>2, <2>3, <2>4
<1>5. stage \in Stages /\ (stage = "spaces" <=> Found(t) # {}) /\ stage \in {"spaces", "grants"}
  BY DEF Stages
<1>6. Update(t, r) /\ UNCHANGED <<Rows, begun>>
  BY DEF FindSpaces, Rows
<1> HIDE DEF stage
<1>7. /\ r.at = stage /\ r.req = txn[t].req /\ r.locked = {} /\ r.todo = Found(t) /\ r.items = {}
      /\ r.dest = txn[t].dest /\ r.pinned = txn[t].pinned /\ r \in Transaction
  BY <1>1, <1>2, <1>4, <1>5 DEF Transaction
<1> HIDE DEF r
<1>8. Sound(r)
  BY <1>1, <1>5, <1>7 DEF Sound, Requested, Locking, Past, Writes
<1>9. Permits(r)
  <2>1. active[txn[t].req.client]
    BY <1>1 DEF Served, Standing, Permits, Past, Writes
  <2>2. Enters(r)
    BY <1>3, <1>7 DEF Enters
  <2>3. Holds(r) /\ Serves(r)
    BY <1>5, <1>7 DEF Holds, Serves
  <2> QED BY <1>1, <1>7, <2>1, <2>2, <2>3 DEF Permits, Writes
<1>10. Past(txn[t]) /\ txn[t].at # "alias" /\ r.at # "accept"
  BY <1>1, <1>5, <1>7 DEF Past
<1> QED BY <1>2, <1>6, <1>7, <1>8, <1>9, <1>10, GoesOn

\* The lock of a space keeps its owner out, and a provisioning alone.
LEMMA LocksSpace ==
  ASSUME Types, Served, NEW t \in Txns, LockSpace(t)
  PROVE  Types' /\ Served'
<1> DEFINE s == First(txn[t].todo)
           rest == txn[t].todo \ {s}
           next == [txn[t] EXCEPT !.todo = rest, !.locked = @ \union {s}]
<1>1. /\ txn[t] \in Transaction /\ Requested(txn[t]) /\ Locking(txn[t])
      /\ txn[t].at = "spaces" /\ SpaceBlockers(t, s) = {} /\ txn[t].req \in Requests
  BY DEF Types, Sound, LockSpace, Ready, At, Blockers, Requested
<1>2. txn[t].todo # {} /\ txn[t].todo \in SUBSET Spaces /\ txn[t].locked \in SUBSET Spaces
      /\ txn[t].items = {} /\ Past(txn[t])
  BY <1>1, Fields DEF Locking, Past
<1>3. s \in txn[t].todo
  BY <1>2, LeastOf, BridgeAssumption
<1>4. UNCHANGED <<Rows, begun>> /\ UNCHANGED Rows /\ begun' \in 0..MaxTxns
  BY DEF LockSpace, Types, Tables, Rows
<1>5. rest \in SUBSET Spaces /\ txn[t].locked \union {s} \in SUBSET Spaces
  BY <1>2, <1>3
<1>6. ASSUME NEW stage \in {"spaces", "grants", "commit"},
             Update(t, [next EXCEPT !.at = stage]),
             stage = "spaces" <=> rest # {}, stage # "commit" <=> ~Writing(t),
             stage = "commit" => ProvisionStands(Req(t))
      PROVE  Types' /\ Served'
  <2> DEFINE r == [next EXCEPT !.at = stage]
  <2>1. Update(t, r) /\ stage \in Stages
    BY <1>6 DEF Stages
  <2>2. /\ r.at = stage /\ r.req = txn[t].req /\ r.locked = txn[t].locked \union {s}
        /\ r.todo = rest /\ r.items = {} /\ r.dest = txn[t].dest /\ r.pinned = txn[t].pinned
        /\ r \in Transaction
    <3> HIDE DEF rest, s
    <3> QED BY <1>1, <1>2, <1>5, <2>1 DEF Transaction
  <2> HIDE DEF r
  <2>3. Writes(r) <=> Writing(t)
    BY <2>2 DEF Writing, Req, Writes
  <2>4. Writing(t) => txn[t].todo = {txn[t].req.space}
    BY <1>1, <2>2, <2>3 DEF Locking, Writes
  <2>5. Requested(r)
    BY <1>1, <1>6, <2>2, <2>3 DEF Requested, Writes
  <2>6. Locking(r)
    <3>1. r.at = "commit" => r.req.space \in r.locked
      BY <1>3, <1>6, <2>2, <2>4
    <3>2. r.req.op = "ingest" => r.dest # NoSpace
      BY <1>1, <1>2, <2>2 DEF Locking
    <3>3. ~(r.at = "spaces" /\ Writes(r))
      BY <1>6, <2>2, <2>3
    <3>4. r.at = "spaces" <=> r.todo # {}
      BY <1>6, <2>2
    <3>5. r.at \in {"spaces", "grants", "commit"} /\ r.items = {}
      BY <1>6, <2>2
    <3> QED BY <3>1, <3>2, <3>3, <3>4, <3>5 DEF Locking
  <2>7. \A u \in Txns : u # t => Apart(r, txn[u])
    <3> SUFFICES ASSUME NEW u \in Txns, u # t
                 PROVE  Apart(r, txn[u])
      OBVIOUS
    <3>1. Apart(txn[t], txn[u])
      BY DEF Served, Exclusive
    <3>2. Past(txn[u]) /\ s \in txn[u].locked => ~Writes(txn[t]) /\ ~Writes(txn[u])
      BY <1>1, FreeLocks
    <3>3. Past(txn[u]) /\ r.locked \cap txn[u].locked # {} => ~Writes(r) /\ ~Writes(txn[u])
      BY <1>2, <2>2, <3>1, <3>2 DEF Apart, Writes
    <3>4. r.at # "accept" /\ (ByAlias(r) => ByAlias(txn[t]))
      BY <1>1, <1>2, <1>6, <2>2 DEF ByAlias
    <3> QED BY <1>2, <2>2, <3>1, <3>3, <3>4 DEF Apart, Writes, ByAlias
  <2>8. Permits(r)
    <3>1. CASE Writing(t)
      BY <1>6, <2>2, <2>3, <3>1 DEF Permits, Req
    <3>2. CASE ~Writing(t)
      <4>1. active[txn[t].req.client] /\ Enters(txn[t])
        BY <1>2, <2>2, <2>3, <3>2 DEF Served, Standing, Permits, Writes
      <4>2. Enters(r)
        BY <1>3, <2>2, <4>1 DEF Enters
      <4>3. Holds(r) /\ Serves(r)
        BY <1>6, <2>2 DEF Holds, Serves
      <4> QED BY <2>2, <2>3, <3>2, <4>1, <4>2, <4>3 DEF Permits
    <3> QED BY <3>1, <3>2
  <2>9. Pinned(r) /\ Keyed(r)
    <3>1. Pinned(txn[t]) /\ (ByAlias(r) => ByAlias(txn[t]))
      BY <1>1, <1>2, <2>2 DEF Served, Standing, ByAlias
    <3> QED BY <1>6, <2>2, <3>1 DEF Pinned, Keyed
  <2>10. Sound(r)
    BY <2>2, <2>5, <2>6 DEF Sound
  <2> QED BY <1>4, <2>1, <2>7, <2>8, <2>9, <2>10, ReadsKeep DEF Rows
<1>7. CASE Writing(t) /\ ~ProvisionStands(Req(t))
  <2>1. End(t)
    BY <1>7 DEF LockSpace
  <2> QED BY <1>4, <2>1, Ends
<1>8. CASE Writing(t) /\ ProvisionStands(Req(t))
  <2>1. Update(t, [next EXCEPT !.at = "commit"])
    BY <1>8 DEF LockSpace
  <2>2. rest = {}
    BY <1>1, <1>3, <1>8 DEF Locking, Writing, Writes, Req
  <2> HIDE DEF next, rest
  <2> QED BY <1>6, <1>8, <2>1, <2>2
<1>9. CASE ~Writing(t) /\ rest # {}
  <2>1. Update(t, next)
    BY <1>9 DEF LockSpace
  <2>2. next = [next EXCEPT !.at = "spaces"]
    <3> HIDE DEF rest, s
    <3> QED BY <1>1 DEF Transaction
  <2> HIDE DEF next, rest
  <2>3. Update(t, [next EXCEPT !.at = "spaces"])
    BY <2>1, <2>2
  <2> QED BY <1>6, <1>9, <2>3
<1>10. CASE ~Writing(t) /\ rest = {}
  <2>1. Update(t, [next EXCEPT !.at = "grants"])
    BY <1>10 DEF LockSpace
  <2> HIDE DEF next, rest
  <2> QED BY <1>6, <1>10, <2>1
<1> QED BY <1>7, <1>8, <1>9, <1>10

\* The grants a request locks are there, and cover what it needs.
LEMMA LocksGrants ==
  ASSUME Types, Served, NEW t \in Txns, LockGrants(t)
  PROVE  Types' /\ Served'
<1>1. /\ txn[t] \in Transaction /\ Requested(txn[t]) /\ Locking(txn[t])
      /\ txn[t].at = "grants" /\ txn[t].req \in Requests /\ txn[t].req.op # "provision"
      /\ Past(txn[t])
  BY DEF Types, Sound, LockGrants, At, Requested, Past
<1>2. UNCHANGED <<Rows, begun>>
  BY DEF LockGrants, Rows
<1>3. CASE ~Admitted(t)
  <2>1. End(t)
    BY <1>3 DEF LockGrants
  <2> QED BY <1>2, <2>1, Ends
<1>4. CASE Admitted(t)
  <2> DEFINE stage == IF Req(t).op = "ingest" THEN "key" ELSE "search"
             r == [txn[t] EXCEPT !.at = stage, !.locked = Granted(t)]
  <2>1. Update(t, r)
    BY <1>4 DEF LockGrants
  <2>2. /\ Granted(t) \subseteq txn[t].locked
        /\ \A s \in Granted(t) :
             (IF txn[t].req.op = "ingest" THEN "write" ELSE "read") \in grants[txn[t].req.client][s]
    BY DEF Granted, Right, Req, Client
  <2>3. txn[t].req.op = "ingest" => txn[t].dest \in Granted(t)
    BY <1>4 DEF Admitted, Req
  <2>4. Granted(t) \in SUBSET Spaces
    BY <1>1, <2>2, Fields
  <2>5. stage = (IF txn[t].req.op = "ingest" THEN "key" ELSE "search") /\ stage \in Stages
    BY DEF Req, Stages
  <2> HIDE DEF stage
  <2>6. /\ r.at = stage /\ r.req = txn[t].req /\ r.locked = Granted(t) /\ r.todo = txn[t].todo
        /\ r.items = txn[t].items /\ r.dest = txn[t].dest /\ r.pinned = txn[t].pinned
        /\ r \in Transaction
    BY <1>1, <2>4, <2>5 DEF Transaction
  <2> HIDE DEF r
  <2>7. r.todo = {} /\ r.items = {}
    BY <1>1, <2>6 DEF Locking
  <2>8. txn[t].req.op = "ingest" \/ txn[t].req.op = "retrieve"
    BY <1>1, RequestFields
  <2>9. Requested(r)
    BY <1>1, <2>5, <2>6, <2>8 DEF Requested
  <2>10. Locking(r)
    BY <1>1, <2>3, <2>5, <2>6, <2>7, <2>8 DEF Locking, Past
  <2>11. Permits(r)
    <3>1. active[txn[t].req.client] /\ Enters(txn[t])
      BY <1>1 DEF Served, Standing, Permits, Writes
    <3>2. Enters(r) /\ Serves(r)
      BY <2>2, <2>6, <2>7, <3>1 DEF Enters, Serves
    <3>3. Holds(r)
      BY <2>2, <2>6 DEF Holds
    <3> QED BY <1>1, <2>6, <3>1, <3>2, <3>3 DEF Permits, Writes
  <2>12. txn[t].at # "alias" /\ r.at # "accept"
    BY <1>1, <2>5, <2>6
  <2> QED BY <1>1, <1>2, <2>1, <2>2, <2>6, <2>9, <2>10, <2>11, <2>12, GoesOn DEF Sound
<1> QED BY <1>3, <1>4

\* Under the lock of its key a request knows the receipt it may write.
LEMMA LocksKey ==
  ASSUME Types, Served, NEW t \in Txns, LockKey(t)
  PROVE  Types' /\ Served'
<1> DEFINE r == [txn[t] EXCEPT !.at = "accept"]
<1>1. /\ txn[t] \in Transaction /\ Requested(txn[t]) /\ Locking(txn[t])
      /\ txn[t].at = "key" /\ KeyBlockers(t) = {} /\ txn[t].req \in Requests
      /\ txn[t].req.op = "ingest" /\ Past(txn[t])
  BY DEF Types, Sound, LockKey, Ready, At, Blockers, Requested, Past
<1>2. UNCHANGED <<Rows, begun>> /\ UNCHANGED Rows /\ begun' \in 0..MaxTxns
  BY DEF LockKey, Types, Tables, Rows
<1>3. CASE End(t)
  BY <1>2, <1>3, Ends
<1>4. CASE /\ Goto(t, "accept")
           /\ ReceiptOf(t) = NoReceipt \/ Replayable(t)
  <2>1. Update(t, r)
    BY <1>4 DEF Goto
  <2>2. /\ r.at = "accept" /\ r.req = txn[t].req /\ r.locked = txn[t].locked
        /\ r.todo = txn[t].todo /\ r.items = txn[t].items /\ r.dest = txn[t].dest
        /\ r.pinned = txn[t].pinned /\ r \in Transaction
    BY <1>1 DEF Transaction, Stages
  <2> HIDE DEF r
  <2>3. Sound(r)
    BY <1>1, <2>2 DEF Sound, Requested, Locking, Past
  <2>4. ByAlias(r) <=> ByAlias(txn[t])
    BY <1>1, <2>2 DEF ByAlias, Past
  <2>5. \A u \in Txns : u # t => Apart(r, txn[u])
    <3>1. \A u \in Txns : u # t => Apart(txn[t], txn[u])
      BY DEF Served, Exclusive
    <3>2. \A u \in Txns : u # t /\ txn[u].at = "accept" =>
            <<txn[u].req.client, txn[u].dest, txn[u].req.key>>
              # <<r.req.client, r.dest, r.req.key>>
      BY <1>1, <2>2, FreeLocks
    <3> QED BY <1>1, <2>2, <2>4, <3>1, <3>2 DEF Apart, Writes
  <2>6. Permits(r)
    <3>1. active[txn[t].req.client] /\ Enters(txn[t]) /\ Holds(txn[t]) /\ Serves(txn[t])
      BY <1>1 DEF Served, Standing, Permits, Writes
    <3> QED BY <1>1, <2>2, <3>1 DEF Permits, Writes, Enters, Holds, Serves
  <2>7. Pinned(r)
    BY <2>2, <2>4 DEF Served, Standing, Pinned
  <2>8. Keyed(r)
    BY <1>4, <2>2 DEF Keyed, ReceiptOf, Replayable, Req, Client
  <2> QED BY <1>2, <2>1, <2>3, <2>5, <2>6, <2>7, <2>8, ReadsKeep DEF Rows
<1> QED BY <1>3, <1>4 DEF LockKey

\* A search finds sources, and locks none.
LEMMA Searches ==
  ASSUME Types, Served, NEW t \in Txns, Search(t)
  PROVE  Types' /\ Served'
<1>1. /\ txn[t] \in Transaction /\ Requested(txn[t]) /\ Locking(txn[t])
      /\ txn[t].at = "search" /\ txn[t].req \in Requests /\ txn[t].req.op = "retrieve"
      /\ Past(txn[t])
  BY DEF Types, Sound, Search, At, Requested, Past
<1>2. UNCHANGED <<Rows, begun>>
  BY DEF Search, Rows
<1>3. PICK found \in SUBSET Archives :
        Update(t, [txn[t] EXCEPT !.at = IF found = {} THEN "respond" ELSE "items",
                                 !.found = found])
  BY DEF Search
<1> DEFINE stage == IF found = {} THEN "respond" ELSE "items"
           r == [txn[t] EXCEPT !.at = stage, !.found = found]
<1>4. Update(t, r)
  BY <1>3
<1>5. stage \in {"respond", "items"} /\ stage \in Stages
  BY DEF Stages
<1> HIDE DEF stage
<1>6. /\ r.at = stage /\ r.req = txn[t].req /\ r.locked = txn[t].locked
      /\ r.todo = txn[t].todo /\ r.items = txn[t].items /\ r.dest = txn[t].dest
      /\ r.pinned = txn[t].pinned /\ r \in Transaction
  BY <1>1, <1>5 DEF Transaction
<1> HIDE DEF r
<1>7. Sound(r)
  BY <1>1, <1>5, <1>6 DEF Sound, Requested, Locking, Past
<1>8. Permits(r)
  <2>1. active[txn[t].req.client] /\ Enters(txn[t]) /\ Holds(txn[t]) /\ Serves(txn[t])
    BY <1>1 DEF Served, Standing, Permits, Writes
  <2> QED BY <1>1, <1>6, <2>1 DEF Permits, Writes, Enters, Holds, Serves
<1> QED BY <1>1, <1>2, <1>4, <1>5, <1>6, <1>7, <1>8, GoesOn

\* An item is locked if it is still there, in a space that is.
LEMMA LocksItem ==
  ASSUME Types, Served, NEW t \in Txns, LockItem(t)
  PROVE  Types' /\ Served'
<1>1. /\ txn[t] \in Transaction /\ Requested(txn[t]) /\ Locking(txn[t])
      /\ txn[t].at = "items" /\ txn[t].req \in Requests /\ txn[t].req.op = "retrieve"
      /\ Past(txn[t])
  BY DEF Types, Sound, LockItem, At, Requested, Past
<1>2. UNCHANGED <<Rows, begun>>
  BY DEF LockItem, Rows
<1>3. CASE End(t)
  BY <1>2, <1>3, Ends
<1>4. CASE ~End(t)
  <2>1. PICK a \in txn[t].found \ txn[t].items :
          /\ InScope(t, a)
          /\ Update(t, [txn[t] EXCEPT !.items = txn[t].items \union {a},
                          !.at = IF txn[t].items \union {a} = txn[t].found
                                   THEN "respond" ELSE "items"])
    BY <1>4 DEF LockItem
  <2> DEFINE items == txn[t].items \union {a}
             stage == IF items = txn[t].found THEN "respond" ELSE "items"
             r == [txn[t] EXCEPT !.items = items, !.at = stage]
  <2>2. Update(t, r)
    BY <2>1
  <2>3. stage \in {"respond", "items"} /\ stage \in Stages
    BY DEF Stages
  <2>4. items \in SUBSET Archives
    BY <1>1, <2>1, Fields
  <2>5. \A b \in items : b \in txn[t].items \/ b = a
    OBVIOUS
  <2> HIDE DEF stage, items
  <2>6. /\ r.at = stage /\ r.req = txn[t].req /\ r.locked = txn[t].locked
        /\ r.todo = txn[t].todo /\ r.items = items /\ r.dest = txn[t].dest
        /\ r.pinned = txn[t].pinned /\ r \in Transaction
    BY <1>1, <2>3, <2>4 DEF Transaction
  <2> HIDE DEF r
  <2>7. Sound(r)
    BY <1>1, <2>3, <2>6 DEF Sound, Requested, Locking, Past
  <2>8. Permits(r)
    <3>1. active[txn[t].req.client] /\ Enters(txn[t]) /\ Holds(txn[t]) /\ Serves(txn[t])
      BY <1>1 DEF Served, Standing, Permits, Writes
    <3>2. Serves(r)
      BY <2>1, <2>5, <2>6, <3>1 DEF Serves, InScope
    <3> QED BY <1>1, <2>6, <3>1, <3>2 DEF Permits, Writes, Enters, Holds
  <2> QED BY <1>1, <1>2, <2>2, <2>3, <2>6, <2>7, <2>8, GoesOn
<1> QED BY <1>3, <1>4

\* Every step that only reads keeps the types and what is served.
LEMMA ReadingSteps ==
  ASSUME Types, Served, NEW t \in Txns, Step(t), ~Accept(t), ~Provision(t)
  PROVE  Types' /\ Served'
<1>1. CASE Respond(t) \/ Abort(t)
  <2>1. End(t) /\ UNCHANGED <<Rows, begun>>
    BY <1>1 DEF Respond, Abort, Rows
  <2> QED BY <2>1, Ends
<1> QED BY <1>1, Begins, TakesSnapshot, LocksClient, Resolves, FindsSpaces, LocksSpace,
           LocksGrants, LocksKey, Searches, LocksItem DEF Step

-----------------------------------------------------------------------------
(* Steps that write *)

\* A commit, and a change by the operator, keeps everything if the tables it
\* leaves are true of the transactions that go on.
LEMMA WritesKeep ==
  ASSUME Types, Served, txn' \in [Txns -> Transaction],
         \A u \in Txns : txn'[u] = txn[u] \/ txn'[u] = Over,
         Tables', BoundToKind', Answered',
         \A u \in Txns : txn'[u] = txn[u] => (Permits(txn[u]) /\ Pinned(txn[u]) /\ Keyed(txn[u]))'
  PROVE  Types' /\ Served'
<1>1. \A u \in Txns : Sound(txn'[u])
  BY OverStands DEF Types
<1>2. Types'
  BY <1>1 DEF Types, Sound, Requested, Locking, Writes, Past
<1>3. \A u, v \in Txns : u # v => Apart(txn'[u], txn'[v])
  BY OverStands DEF Served, Exclusive
<1>4. Exclusive'
  BY <1>3 DEF Exclusive, Apart, Past, Writes, ByAlias
<1>5. Over.at = "idle"
  BY OverStands
<1>6. \A u \in Txns : txn'[u] = Over => (Permits(txn[u]) /\ Pinned(txn[u]) /\ Keyed(txn[u]))'
  BY <1>5 DEF Permits, Pinned, Keyed, ByAlias, Past
<1>7. Standing'
  BY <1>6 DEF Standing
<1> QED BY <1>2, <1>4, <1>7 DEF Served

\* Who ends, and who goes on.
LEMMA EndOf ==
  ASSUME Types, NEW t \in Txns, End(t)
  PROVE  /\ txn' \in [Txns -> Transaction] /\ txn'[t] = Over
         /\ \A u \in Txns : u # t => txn'[u] = txn[u]
BY OverStands DEF Types, End, Update, Sound

\* The row of a receipt is one of a source, unless there is none.
LEMMA ReceiptRow ==
  /\ \A p, a : NoReceipt # [payload |-> p, archive |-> a]
  /\ \A r \in Receipt : r = [payload |-> r.payload, archive |-> r.archive]
<1>1. \A p, a : DOMAIN [payload |-> p, archive |-> a] = {"payload", "archive"}
  OBVIOUS
<1>2. DOMAIN NoReceipt = {"payload"}
  BY DEF NoReceipt
<1>3. \A p, a : NoReceipt # [payload |-> p, archive |-> a]
  BY <1>1, <1>2
<1> QED BY <1>3 DEF Receipt

\* What an ingest that is accepted does to the tables.
LEMMA AcceptEffect ==
  ASSUME Types, Served, NEW t \in Txns, Accept(t)
  PROVE  LET m == txn[t].req
             d == txn[t].dest
             k == <<m.client, d, m.key>>
             l == <<m.client, m.to, m.key>>
         IN /\ m \in IngestRequest /\ d \in Spaces /\ m.client \in Clients /\ m.key \in Keys
            /\ m.payload \in Payloads /\ k \in Clients \X Spaces \X Keys
            /\ txn[t].at = "accept" /\ End(t) /\ UNCHANGED <<access, managed, begun>>
            /\ Pins(t) <=> m.to \in Kinds /\ m.space = NoSpace /\ ~txn[t].pinned
            /\ m.space = NoSpace => m.to \in Kinds
            /\ aliases' = IF Pins(t) THEN [aliases EXCEPT ![l] = d] ELSE aliases
            /\ \E a \in Archives :
                 /\ acks' = acks \union {[req |-> m, space |-> d, archive |-> a]}
                 /\ IF receipts[k] # NoReceipt
                      THEN a = receipts[k].archive /\ UNCHANGED <<receipts, archives>>
                      ELSE /\ archives[a] = NoArchive
                           /\ archives' = [archives EXCEPT ![a] =
                                             [space |-> d, by |-> m.client, live |-> TRUE]]
                           /\ receipts' = [receipts EXCEPT ![k] =
                                             [payload |-> m.payload, archive |-> a]]
<1>1. /\ txn[t] \in Transaction /\ Requested(txn[t]) /\ Locking(txn[t])
      /\ txn[t].at = "accept"
  BY DEF Types, Sound, Accept, At
<1>2. txn[t].req \in Requests /\ txn[t].req.op = "ingest" /\ txn[t].dest \in Spaces
  BY <1>1, Fields DEF Requested, Locking, Past
<1>3. /\ txn[t].req \in IngestRequest /\ txn[t].req.client \in Clients
      /\ txn[t].req.key \in Keys /\ txn[t].req.payload \in Payloads
      /\ txn[t].req.to \in Kinds \union {"direct"}
      /\ txn[t].req.space = NoSpace => txn[t].req.to \in Kinds
  BY <1>2, RequestFields
<1>4. "direct" \notin Kinds
  BY DEF Kinds
<1>5. Pins(t) <=> /\ txn[t].req.to \in Kinds /\ txn[t].req.space = NoSpace /\ ~txn[t].pinned
  BY <1>3, <1>4 DEF Pins, Req
<1>6. PICK a \in Archives :
        /\ Stored(t, a)
        /\ acks' = acks \union {[req |-> Req(t), space |-> txn[t].dest, archive |-> a]}
  BY DEF Accept
<1>7. /\ aliases' = IF Pins(t)
                      THEN [aliases EXCEPT ![<<txn[t].req.client, txn[t].req.to, txn[t].req.key>>]
                              = txn[t].dest]
                      ELSE aliases
      /\ End(t) /\ UNCHANGED <<access, managed, begun>>
  BY DEF Accept, Req, Client
<1>8. IF receipts[<<txn[t].req.client, txn[t].dest, txn[t].req.key>>] # NoReceipt
        THEN /\ a = receipts[<<txn[t].req.client, txn[t].dest, txn[t].req.key>>].archive
             /\ UNCHANGED <<receipts, archives>>
        ELSE /\ archives[a] = NoArchive
             /\ archives' = [archives EXCEPT ![a] =
                               [space |-> txn[t].dest, by |-> txn[t].req.client, live |-> TRUE]]
             /\ receipts' = [receipts EXCEPT
                               ![<<txn[t].req.client, txn[t].dest, txn[t].req.key>>] =
                               [payload |-> txn[t].req.payload, archive |-> a]]
  BY <1>6 DEF Stored, ReceiptOf, Req, Client
<1> QED BY <1>1, <1>2, <1>3, <1>5, <1>6, <1>7, <1>8 DEF Req

\* A source is stored once for a key, in the space of its alias.
LEMMA Accepts ==
  ASSUME Types, Served, NEW t \in Txns, Accept(t)
  PROVE  Types' /\ Served'
<1> DEFINE m == txn[t].req
           d == txn[t].dest
           k == <<m.client, d, m.key>>
           l == <<m.client, m.to, m.key>>
<1>1. /\ m \in IngestRequest /\ d \in Spaces /\ m.client \in Clients /\ m.key \in Keys
      /\ m.payload \in Payloads /\ k \in Clients \X Spaces \X Keys
      /\ txn[t].at = "accept" /\ End(t) /\ UNCHANGED <<access, managed, begun>>
      /\ Pins(t) <=> m.to \in Kinds /\ m.space = NoSpace /\ ~txn[t].pinned
      /\ m.space = NoSpace => m.to \in Kinds
      /\ aliases' = IF Pins(t) THEN [aliases EXCEPT ![l] = d] ELSE aliases
  BY AcceptEffect
<1>2. PICK a \in Archives :
        /\ acks' = acks \union {[req |-> m, space |-> d, archive |-> a]}
        /\ IF receipts[k] # NoReceipt
             THEN a = receipts[k].archive /\ UNCHANGED <<receipts, archives>>
             ELSE /\ archives[a] = NoArchive
                  /\ archives' = [archives EXCEPT ![a] =
                                    [space |-> d, by |-> m.client, live |-> TRUE]]
                  /\ receipts' = [receipts EXCEPT ![k] =
                                    [payload |-> m.payload, archive |-> a]]
  BY AcceptEffect
<1>3. /\ txn' \in [Txns -> Transaction] /\ txn'[t] = Over
      /\ \A u \in Txns : u # t => txn'[u] = txn[u]
  BY <1>1, EndOf
<1>4. /\ aliases \in [Clients \X Kinds \X Keys -> Spaces \union {NoSpace}]
      /\ receipts \in [Clients \X Spaces \X Keys -> Receipt \union {NoReceipt}]
      /\ archives \in [Archives -> Archive \union {NoArchive}] /\ acks \subseteq Ack
  BY DEF Types, Tables
<1>5. m.op = "ingest" /\ ByAlias(txn[t]) <=> m.space = NoSpace
  BY <1>1 DEF ByAlias, Past, IngestRequest
<1>6. m.space = NoSpace => aliases[l] = IF txn[t].pinned THEN d ELSE NoSpace
  BY <1>5 DEF Served, Standing, Pinned
<1>7. receipts[k] = NoReceipt \/ receipts[k].payload = m.payload
  BY <1>1 DEF Served, Standing, Keyed
<1>8. m.space = NoSpace => l \in Clients \X Kinds \X Keys
  BY <1>1
<1>9. m.op = "ingest"
  BY <1>1 DEF IngestRequest
<1> HIDE DEF m, d, k, l
<1>10. receipts'[k] = [payload |-> m.payload, archive |-> a]
  <2>1. CASE receipts[k] # NoReceipt
    <3>1. receipts[k] \in Receipt
      BY <1>1, <1>4, <2>1
    <3> QED BY <1>2, <1>7, <2>1, <3>1, ReceiptRow
  <2>2. CASE receipts[k] = NoReceipt
    BY <1>1, <1>2, <1>4, <2>2
  <2> QED BY <2>1, <2>2
<1>11. \A j \in Clients \X Spaces \X Keys : receipts[j] # NoReceipt \/ j # k => receipts'[j] = receipts[j]
  BY <1>1, <1>2, <1>4
<1>12. \A j \in Clients \X Kinds \X Keys : j # l => aliases'[j] = aliases[j]
  BY <1>1, <1>4
<1>13. m.space = NoSpace => aliases'[l] = d
  BY <1>1, <1>4, <1>6, <1>8
<1>14. \A b \in Archives : archives[b] # NoArchive => archives'[b] = archives[b]
  BY <1>2, <1>4
<1>15. Tables'
  <2>1. aliases' \in [Clients \X Kinds \X Keys -> Spaces \union {NoSpace}]
    BY <1>1, <1>4
  <2>2. receipts' \in [Clients \X Spaces \X Keys -> Receipt \union {NoReceipt}]
    BY <1>1, <1>2, <1>4 DEF Receipt
  <2>3. archives' \in [Archives -> Archive \union {NoArchive}]
    <3>1. [space |-> d, by |-> m.client, live |-> TRUE] \in Archive
      BY <1>1 DEF Archive
    <3> QED BY <1>2, <1>4, <3>1
  <2>4. acks' \subseteq Ack
    BY <1>1, <1>2, <1>4 DEF Ack
  <2> QED BY <1>1, <2>1, <2>2, <2>3, <2>4 DEF Types, Tables, access
<1>16. BoundToKind'
  BY <1>1 DEF Served, BoundToKind, access
<1>17. Answered'
  <2> SUFFICES ASSUME NEW x \in acks'
               PROVE  /\ receipts'[<<x.req.client, x.space, x.req.key>>] =
                           [payload |-> x.req.payload, archive |-> x.archive]
                      /\ x.req.to \in Kinds /\ x.req.space = NoSpace =>
                           aliases'[<<x.req.client, x.req.to, x.req.key>>] = x.space
    BY DEF Answered
  <2>1. CASE x \in acks
    <3>1. /\ x.req.client \in Clients /\ x.space \in Spaces /\ x.req.key \in Keys
      BY <1>4, <2>1 DEF Ack, IngestRequest
    <3>2. /\ receipts[<<x.req.client, x.space, x.req.key>>] =
               [payload |-> x.req.payload, archive |-> x.archive]
          /\ x.req.to \in Kinds /\ x.req.space = NoSpace =>
               aliases[<<x.req.client, x.req.to, x.req.key>>] = x.space
      BY <2>1 DEF Served, Answered
    <3>3. receipts[<<x.req.client, x.space, x.req.key>>] # NoReceipt
      BY <3>2, ReceiptRow
    <3>4. receipts'[<<x.req.client, x.space, x.req.key>>]
            = receipts[<<x.req.client, x.space, x.req.key>>]
      BY <1>11, <3>1, <3>3
    <3>5. ASSUME x.req.to \in Kinds, x.req.space = NoSpace
          PROVE  aliases'[<<x.req.client, x.req.to, x.req.key>>] = x.space
      <4> DEFINE j == <<x.req.client, x.req.to, x.req.key>>
      <4>1. j \in Clients \X Kinds \X Keys /\ aliases[j] = x.space
        BY <3>1, <3>2, <3>5
      <4>2. x.space # NoSpace
        BY <3>1, BridgeAssumption DEF NoSpace
      <4> SUFFICES aliases'[j] = x.space
        OBVIOUS
      <4> HIDE DEF j
      <4>3. CASE j # l
        BY <1>12, <4>1, <4>3
      <4>4. CASE j = l /\ Pins(t)
        BY <1>1, <1>6, <4>1, <4>2, <4>4
      <4>5. CASE ~Pins(t)
        BY <1>1, <4>1, <4>5
      <4> QED BY <4>3, <4>4, <4>5
    <3> QED BY <3>2, <3>4, <3>5
  <2>2. CASE x = [req |-> m, space |-> d, archive |-> a]
    BY <1>10, <1>13, <2>2 DEF k, l
  <2> QED BY <1>2, <2>1, <2>2
<1>18. ASSUME NEW u \in Txns, txn'[u] = txn[u]
       PROVE  (Permits(txn[u]) /\ Pinned(txn[u]) /\ Keyed(txn[u]))'
  <2>1. u # t
    BY <1>1, <1>3, <1>18, OverStands
  <2>2. Permits(txn[u]) /\ Pinned(txn[u]) /\ Keyed(txn[u]) /\ Apart(txn[t], txn[u])
    BY <2>1 DEF Served, Standing, Exclusive
  <2>3. txn[u] \in Transaction /\ Requested(txn[u]) /\ Locking(txn[u])
    BY DEF Types, Sound
  <2>4. \A b \in txn[u].items :
          archives[b].space \in txn[u].locked => archives'[b] = archives[b]
    <3>1. txn[u].items \subseteq Archives /\ txn[u].locked \subseteq Spaces
      BY <2>3, Fields
    <3>2. NoArchive.space \notin Spaces
      BY BridgeAssumption DEF NoArchive, NoSpace
    <3> QED BY <1>14, <3>1, <3>2
  <2>5. Permits(txn[u])'
    BY <1>1, <1>18, <2>2, <2>4
       DEF Permits, Enters, Holds, Serves, Past, Writes, MayEnter, ProvisionStands, access
  <2>6. Pinned(txn[u])'
    <3> SUFFICES ASSUME ByAlias(txn[u])
                 PROVE  aliases'[<<txn[u].req.client, txn[u].req.to, txn[u].req.key>>]
                          = IF txn[u].pinned THEN txn[u].dest ELSE NoSpace
      BY <1>18 DEF Pinned, ByAlias, Past
    <3> DEFINE j == <<txn[u].req.client, txn[u].req.to, txn[u].req.key>>
    <3>1. aliases[j] = IF txn[u].pinned THEN txn[u].dest ELSE NoSpace
      BY <2>2 DEF Pinned
    <3>2. j \in Clients \X Kinds \X Keys
      <4>1. txn[u].req \in Requests /\ txn[u].req.op = "ingest" /\ txn[u].req.space = NoSpace
        BY <2>3 DEF ByAlias, Past, Requested
      <4> QED BY <4>1, RequestFields
    <3>3. ByAlias(txn[t]) => j # l
      BY <2>2 DEF Apart, l, m
    <3>4. aliases'[j] = aliases[j]
      <4> HIDE DEF j
      <4>1. CASE m.space = NoSpace
        BY <1>5, <1>9, <1>12, <3>2, <3>3, <4>1
      <4>2. CASE m.space # NoSpace
        BY <1>1, <4>2
      <4> QED BY <4>1, <4>2
    <3> QED BY <3>1, <3>4
  <2>7. Keyed(txn[u])'
    <3> SUFFICES ASSUME txn[u].at = "accept"
                 PROVE  LET r == receipts'[<<txn[u].req.client, txn[u].dest, txn[u].req.key>>]
                        IN r = NoReceipt \/ r.payload = txn[u].req.payload
      BY <1>18 DEF Keyed
    <3> DEFINE j == <<txn[u].req.client, txn[u].dest, txn[u].req.key>>
    <3>1. j # k
      BY <1>1, <2>2 DEF Apart, k, m, d
    <3>2. txn[u].req \in Requests /\ txn[u].req.op = "ingest" /\ txn[u].dest \in Spaces
      BY <2>3, Fields DEF Requested, Locking, Past
    <3>3. j \in Clients \X Spaces \X Keys
      BY <3>2, RequestFields
    <3>4. receipts'[j] = receipts[j]
      <4> HIDE DEF j
      <4> QED BY <1>11, <3>1, <3>3
    <3> QED BY <2>2, <3>4 DEF Keyed
  <2> QED BY <2>5, <2>6, <2>7
<1> QED BY <1>3, <1>15, <1>16, <1>17, <1>18, WritesKeep

\* A commit of the operator changes no space that exists, and only what its
\* client was granted.
LEMMA Provisions ==
  ASSUME Types, Served, NEW t \in Txns, Provision(t)
  PROVE  Types' /\ Served'
<1> DEFINE m == txn[t].req
<1>1. /\ txn[t] \in Transaction /\ Requested(txn[t]) /\ Locking(txn[t])
      /\ txn[t].at = "commit" /\ m \in Requests /\ m.op = "provision"
  BY DEF Types, Sound, Provision, At, Requested
<1>2. /\ m.client \in Clients /\ m.space \in Spaces /\ m.kind \in Kinds
      /\ m.rights \in GrantSets /\ m.bind \in BOOLEAN
  BY <1>1, RequestFields
<1>3. /\ Past(txn[t]) /\ Writes(txn[t]) /\ m.space \in txn[t].locked /\ ProvisionStands(m)
  BY <1>1 DEF Locking, Past, Writes, Served, Standing, Permits
<1>4. /\ spaces' = IF spaces[m.space] # Absent THEN spaces
                   ELSE [spaces EXCEPT ![m.space] =
                           [kind |-> m.kind,
                            owner |-> IF m.kind = "private" THEN m.client ELSE "none"]]
      /\ grants' = [grants EXCEPT ![m.client][m.space] = m.rights]
      /\ bindings' = IF m.bind THEN [bindings EXCEPT ![<<m.client, m.kind>>] = m.space]
                     ELSE bindings
      /\ active' = [active EXCEPT ![m.client] = TRUE]
      /\ End(t) /\ UNCHANGED <<memory, managed, acks, begun>>
  BY DEF Provision, Req
<1>5. /\ txn' \in [Txns -> Transaction] /\ txn'[t] = Over
      /\ \A u \in Txns : u # t => txn'[u] = txn[u]
  BY <1>4, EndOf
<1>6. /\ active \in [Clients -> BOOLEAN] /\ spaces \in [Spaces -> SpaceRow \union {Absent}]
      /\ grants \in [Clients -> [Spaces -> SUBSET Rights]]
      /\ bindings \in [Clients \X Kinds -> Spaces \union {NoSpace}]
  BY DEF Types, Tables
<1> HIDE DEF m
<1>7. [kind |-> m.kind, owner |-> IF m.kind = "private" THEN m.client ELSE "none"] \in SpaceRow
  BY <1>2 DEF SpaceRow
<1>8. Tables'
  <2>1. active' \in [Clients -> BOOLEAN]
    BY <1>4, <1>6
  <2>2. spaces' \in [Spaces -> SpaceRow \union {Absent}]
    BY <1>4, <1>6, <1>7
  <2>3. grants' \in [Clients -> [Spaces -> SUBSET Rights]]
    <3>1. m.rights \in SUBSET Rights
      BY <1>2, BridgeAssumption DEF Rights
    <3> QED BY <1>2, <1>4, <1>6, <3>1
  <2>4. bindings' \in [Clients \X Kinds -> Spaces \union {NoSpace}]
    BY <1>2, <1>4, <1>6
  <2> QED BY <1>4, <2>1, <2>2, <2>3, <2>4 DEF Types, Tables, memory
<1>9. /\ \A s \in Spaces : s # m.space \/ spaces[s] # Absent => spaces'[s] = spaces[s]
      /\ spaces'[m.space].kind = m.kind
  <2>1. \A s \in Spaces : s # m.space \/ spaces[s] # Absent => spaces'[s] = spaces[s]
    BY <1>2, <1>4, <1>6
  <2>2. CASE spaces[m.space] # Absent
    BY <1>2, <1>3, <1>4, <2>2 DEF ProvisionStands
  <2>3. CASE spaces[m.space] = Absent
    BY <1>2, <1>4, <1>6, <2>3
  <2> QED BY <2>1, <2>2, <2>3
<1>10. /\ Absent.kind \notin Kinds /\ Absent.owner \notin Clients
       /\ NoSpace \notin Spaces
  BY BridgeAssumption DEF Absent, Kinds, NoSpace
<1>11. BoundToKind'
  <2> SUFFICES ASSUME NEW b \in Clients \X Kinds, bindings'[b] # NoSpace
               PROVE  spaces'[bindings'[b]].kind = b[2]
    BY DEF BoundToKind
  <2>1. CASE m.bind /\ b = <<m.client, m.kind>>
    BY <1>2, <1>4, <1>6, <1>9, <2>1
  <2>2. CASE ~(m.bind /\ b = <<m.client, m.kind>>)
    <3>1. bindings'[b] = bindings[b] /\ bindings[b] \in Spaces
      BY <1>4, <1>6, <2>2
    <3>2. spaces[bindings[b]].kind = b[2] /\ b[2] \in Kinds
      BY <3>1 DEF Served, BoundToKind
    <3>3. spaces[bindings[b]] # Absent
      BY <1>10, <3>2
    <3> QED BY <1>9, <3>1, <3>2, <3>3
  <2> QED BY <2>1, <2>2
<1>12. Answered'
  BY <1>4 DEF Served, Answered, memory
<1>13. ASSUME NEW u \in Txns, txn'[u] = txn[u]
       PROVE  (Permits(txn[u]) /\ Pinned(txn[u]) /\ Keyed(txn[u]))'
  <2>1. u # t
    BY <1>1, <1>5, <1>13, OverStands
  <2>2. Permits(txn[u]) /\ Pinned(txn[u]) /\ Keyed(txn[u]) /\ Apart(txn[t], txn[u])
    BY <2>1 DEF Served, Standing, Exclusive
  <2>3. txn[u] \in Transaction /\ Requested(txn[u]) /\ Locking(txn[u])
    BY DEF Types, Sound
  <2>4. Pinned(txn[u])' /\ Keyed(txn[u])'
    BY <1>4, <1>13, <2>2 DEF Pinned, Keyed, ByAlias, Past, memory
  <2>5. CASE ~Past(txn[u])
    BY <1>13, <2>4, <2>5 DEF Permits, Past
  <2>6. CASE Past(txn[u]) /\ Writes(txn[u])
    <3>1. txn[u].at = "commit" =>
            txn[u].req.space \in txn[u].locked /\ txn[u].req.space \in Spaces
      BY <2>3, RequestFields DEF Locking, Requested
    <3>2. txn[u].at = "commit" => txn[u].req.space # m.space
      BY <1>3, <2>2, <2>6, <3>1 DEF Apart, m
    <3>3. txn[u].at = "commit" => spaces'[txn[u].req.space] = spaces[txn[u].req.space]
      BY <1>9, <3>1, <3>2
    <3>4. txn[u].at = "commit" => ProvisionStands(txn[u].req)
      BY <2>2, <2>6 DEF Permits
    <3>5. Permits(txn[u])'
      BY <1>13, <2>6, <3>3, <3>4 DEF Permits, Past, Writes, ProvisionStands
    <3> QED BY <2>4, <3>5
  <2>7. CASE Past(txn[u]) /\ ~Writes(txn[u])
    <3>1. txn[u].req \in Requests /\ txn[u].req.client \in Clients
      BY <2>3, <2>7, RequestFields DEF Requested, Past
    <3>2. txn[u].req.client # m.client
      BY <1>3, <2>2, <2>7 DEF Apart, m
    <3>3. /\ active'[txn[u].req.client] = active[txn[u].req.client]
          /\ grants'[txn[u].req.client] = grants[txn[u].req.client]
      BY <1>4, <1>6, <3>1, <3>2
    <3>4. /\ active[txn[u].req.client] /\ Enters(txn[u]) /\ Holds(txn[u]) /\ Serves(txn[u])
      BY <2>2, <2>7 DEF Permits
    <3>5. txn[u].todo \union txn[u].locked \subseteq Spaces
      BY <2>3, Fields
    <3>6. \A s \in txn[u].todo \union txn[u].locked : spaces'[s] = spaces[s]
      <4> SUFFICES ASSUME NEW s \in txn[u].todo \union txn[u].locked
                   PROVE  spaces[s] # Absent
        BY <1>9, <3>5
      <4>1. spaces[s].kind = "shared" \/ spaces[s].owner = txn[u].req.client
        BY <3>4 DEF Enters, MayEnter
      <4>2. "shared" \in Kinds
        BY DEF Kinds
      <4> QED BY <1>10, <3>1, <4>1, <4>2
    <3>7. Enters(txn[u])'
      BY <1>13, <3>4, <3>6 DEF Enters, MayEnter
    <3>8. Holds(txn[u])' /\ Serves(txn[u])'
      BY <1>4, <1>13, <3>3, <3>4 DEF Holds, Serves, memory
    <3>9. (Past(txn[u]) => active[txn[u].req.client])' /\ ~Writes(txn[u])'
      BY <1>13, <2>7, <3>3, <3>4 DEF Writes
    <3> QED BY <2>4, <3>7, <3>8, <3>9 DEF Permits
  <2> QED BY <2>5, <2>6, <2>7
<1> QED BY <1>5, <1>8, <1>11, <1>12, <1>13, WritesKeep

\* No transaction holds the client that is revoked.
LEMMA Revokes ==
  ASSUME Types, Served, NEW c \in Clients, Revoke(c)
  PROVE  Types' /\ Served'
<1>1. /\ active' = [active EXCEPT ![c] = FALSE]
      /\ UNCHANGED <<spaces, grants, bindings, memory, managed, txn, acks, begun>>
      /\ \A u \in Txns : Past(txn[u]) => txn[u].req.client # c
  BY DEF Revoke, Holders, Past, At, Client
<1>2. Tables'
  BY <1>1 DEF Types, Tables, memory
<1>3. BoundToKind' /\ Answered'
  BY <1>1 DEF Served, BoundToKind, Answered, memory
<1>4. ASSUME NEW u \in Txns
      PROVE  (Permits(txn[u]) /\ Pinned(txn[u]) /\ Keyed(txn[u]))'
  <2>1. Permits(txn[u]) /\ Pinned(txn[u]) /\ Keyed(txn[u])
    BY DEF Served, Standing
  <2>2. txn[u] \in Transaction /\ Requested(txn[u])
    BY DEF Types, Sound
  <2>3. Past(txn[u]) => active'[txn[u].req.client] = active[txn[u].req.client]
    <3>1. Past(txn[u]) => txn[u].req.client \in Clients
      BY <2>2, RequestFields DEF Requested, Past
    <3> QED BY <1>1, <3>1 DEF Types, Tables
  <2>4. Permits(txn[u])'
    BY <1>1, <2>1, <2>3 DEF Permits, Enters, MayEnter, Holds, Serves, ProvisionStands, Past,
                            Writes, memory
  <2>5. Pinned(txn[u])' /\ Keyed(txn[u])'
    BY <1>1, <2>1 DEF Pinned, Keyed, ByAlias, Past, memory
  <2> QED BY <2>4, <2>5
<1> QED BY <1>1, <1>2, <1>3, <1>4, WritesKeep DEF Types

\* No transaction holds the grant that is taken away.
LEMMA DirectRevokes ==
  ASSUME Types, Served, NEW c \in Clients, NEW s \in Spaces, DirectRevoke(c, s)
  PROVE  Types' /\ Served'
<1>1. /\ grants' = [grants EXCEPT ![c][s] = {}]
      /\ UNCHANGED <<active, spaces, bindings, memory, managed, txn, acks, begun>>
      /\ \A u \in Txns : txn[u].at \in {"key", "accept", "search", "items", "respond"}
           => txn[u].req.client # c \/ s \notin txn[u].locked
  BY DEF DirectRevoke, Holders, SharesGrants, At, Client
<1>2. Tables'
  BY <1>1 DEF Types, Tables, memory
<1>3. BoundToKind' /\ Answered'
  BY <1>1 DEF Served, BoundToKind, Answered, memory
<1>4. ASSUME NEW u \in Txns
      PROVE  (Permits(txn[u]) /\ Pinned(txn[u]) /\ Keyed(txn[u]))'
  <2>1. Permits(txn[u]) /\ Pinned(txn[u]) /\ Keyed(txn[u])
    BY DEF Served, Standing
  <2>2. txn[u] \in Transaction /\ Requested(txn[u])
    BY DEF Types, Sound
  <2>3. Past(txn[u]) /\ Holds(txn[u]) => Holds(txn[u])'
    <3> SUFFICES ASSUME Past(txn[u]), Holds(txn[u]), NEW r \in txn[u].locked,
                        txn[u].at \in {"key", "accept", "search", "items", "respond"}
                 PROVE  grants'[txn[u].req.client][r] = grants[txn[u].req.client][r]
      BY <1>1 DEF Holds
    <3>1. txn[u].req.client \in Clients /\ r \in Spaces
      BY <2>2, RequestFields, Fields DEF Requested, Past
    <3>2. txn[u].req.client # c \/ r # s
      BY <1>1
    <3> QED BY <1>1, <3>1, <3>2 DEF Types, Tables
  <2>4. Permits(txn[u])'
    BY <1>1, <2>1, <2>3 DEF Permits, Enters, MayEnter, Serves, ProvisionStands, Past,
                            Writes, memory
  <2>5. Pinned(txn[u])' /\ Keyed(txn[u])'
    BY <1>1, <2>1 DEF Pinned, Keyed, ByAlias, Past, memory
  <2> QED BY <2>4, <2>5
<1> QED BY <1>1, <1>2, <1>3, <1>4, WritesKeep DEF Types

\* No transaction holds the source that is deleted.
LEMMA Deletes ==
  ASSUME Types, Served, NEW a \in Archives, Delete(a)
  PROVE  Types' /\ Served'
<1>1. /\ archives' = [archives EXCEPT ![a].live = FALSE]
      /\ UNCHANGED <<access, aliases, receipts, managed, txn, acks, begun>>
      /\ \A u \in Txns : a \notin txn[u].items
      /\ archives[a] # NoArchive
  BY DEF Delete
<1>2. Tables'
  <2>1. archives[a] \in Archive
    BY <1>1 DEF Types, Tables
  <2>2. [archives[a] EXCEPT !.live = FALSE] \in Archive
    BY <2>1 DEF Archive
  <2>3. archives' \in [Archives -> Archive \union {NoArchive}]
    BY <1>1, <2>2 DEF Types, Tables
  <2> QED BY <1>1, <2>3 DEF Types, Tables, access
<1>3. BoundToKind' /\ Answered'
  BY <1>1 DEF Served, BoundToKind, Answered, access
<1>4. ASSUME NEW u \in Txns
      PROVE  (Permits(txn[u]) /\ Pinned(txn[u]) /\ Keyed(txn[u]))'
  <2>1. Permits(txn[u]) /\ Pinned(txn[u]) /\ Keyed(txn[u])
    BY DEF Served, Standing
  <2>2. \A b \in txn[u].items : archives'[b] = archives[b]
    <3>1. txn[u].items \subseteq Archives
      BY Fields DEF Types
    <3> QED BY <1>1, <3>1 DEF Types, Tables
  <2>3. Permits(txn[u])'
    BY <1>1, <2>1, <2>2 DEF Permits, Enters, MayEnter, Holds, Serves, ProvisionStands, Past,
                            Writes, access
  <2>4. Pinned(txn[u])' /\ Keyed(txn[u])'
    BY <1>1, <2>1 DEF Pinned, Keyed, ByAlias, Past
  <2> QED BY <2>3, <2>4
<1> QED BY <1>1, <1>2, <1>3, <1>4, WritesKeep DEF Types

-----------------------------------------------------------------------------
(* The theorems *)

\* In the beginning nobody has asked for anything.
LEMMA Initially ==
  ASSUME Init
  PROVE  Types /\ Served
<1>1. First(Spaces) \in Spaces
  BY LeastOf, BridgeAssumption
<1>2. txn \in [Txns -> Transaction] /\ \A t \in Txns : Sound(txn[t])
  BY OverStands DEF Init, Sound
<1>3. Tables
  <2>1. spaces \in [Spaces -> SpaceRow \union {Absent}]
    <3>1. [kind |-> "shared", owner |-> "none"] \in SpaceRow
      BY DEF SpaceRow, Kinds
    <3> QED BY <3>1 DEF Init
  <2>2. grants \in [Clients -> [Spaces -> SUBSET Rights]]
    BY DEF Init, Rights
  <2>3. bindings \in [Clients \X Kinds -> Spaces \union {NoSpace}]
    BY <1>1 DEF Init
  <2>4. begun \in 0..MaxTxns
    BY BridgeAssumption DEF Init
  <2>5. /\ active \in [Clients -> BOOLEAN] /\ managed \in BOOLEAN /\ acks \subseteq Ack
        /\ aliases \in [Clients \X Kinds \X Keys -> Spaces \union {NoSpace}]
        /\ receipts \in [Clients \X Spaces \X Keys -> Receipt \union {NoReceipt}]
        /\ archives \in [Archives -> Archive \union {NoArchive}]
    BY DEF Init
  <2> QED BY <2>1, <2>2, <2>3, <2>4, <2>5 DEF Tables
<1>4. BoundToKind
  <2> SUFFICES ASSUME NEW b \in Clients \X Kinds, bindings[b] # NoSpace
               PROVE  spaces[bindings[b]].kind = b[2]
    BY DEF BoundToKind
  <2>1. b[2] = "shared" /\ bindings[b] = First(Spaces)
    BY DEF Init
  <2>2. spaces[First(Spaces)] = [kind |-> "shared", owner |-> "none"]
    BY <1>1 DEF Init
  <2> QED BY <2>1, <2>2
<1>5. Answered
  BY DEF Init, Answered
<1>6. Exclusive /\ Standing
  BY OverStands DEF Init, Exclusive, Standing
<1> QED BY <1>2, <1>3, <1>4, <1>5, <1>6 DEF Types, Served

\* Every step keeps the types and what is served.
LEMMA Steps ==
  ASSUME Types, Served, [Next]_vars
  PROVE  Types' /\ Served'
<1>1. CASE \E t \in Txns : Step(t)
  <2>1. PICK t \in Txns : Step(t)
    BY <1>1
  <2> QED BY <2>1, ReadingSteps, Accepts, Provisions
<1>2. CASE \E c \in Clients : Revoke(c) \/ \E s \in Spaces : DirectRevoke(c, s)
  BY <1>2, Revokes, DirectRevokes
<1>3. CASE \E a \in Archives : Delete(a)
  BY <1>3, Deletes
<1>4. CASE UNCHANGED vars
  <2>1. UNCHANGED <<access, memory, managed, txn, acks, begun>>
    BY <1>4 DEF vars
  <2>2. Tables' /\ BoundToKind' /\ Answered'
    BY <2>1 DEF Types, Tables, Served, BoundToKind, Answered, access, memory
  <2>3. ASSUME NEW u \in Txns
        PROVE  (Permits(txn[u]) /\ Pinned(txn[u]) /\ Keyed(txn[u]))'
    <3>1. Permits(txn[u]) /\ Pinned(txn[u]) /\ Keyed(txn[u])
      BY DEF Served, Standing
    <3> QED BY <2>1, <3>1 DEF Permits, Enters, MayEnter, Holds, Serves, ProvisionStands, Past,
                              Writes, Pinned, Keyed, ByAlias, access, memory
  <2> QED BY <2>1, <2>2, <2>3, WritesKeep DEF Types
<1> QED BY <1>1, <1>2, <1>3, <1>4 DEF Next

\* The types of the tables and of the requests, and that the locks keep what a
\* request found, hold in every state.
THEOREM Care == Spec => [](Types /\ Served)
<1>1. Init => Types /\ Served
  BY Initially
<1>2. Types /\ Served /\ [Next]_vars => (Types /\ Served)'
  BY Steps
<1> QED BY <1>1, <1>2, PTL DEF Spec

\* Every variable of the bridge keeps its type, and an alias stays bound to a
\* space of its kind.
THEOREM TypeCorrect == Spec => []TypeOK
<1>1. Types /\ Served => TypeOK
  BY DEF Types, Tables, Served, BoundToKind, TypeOK
<1> QED BY <1>1, Care, PTL

\* A repeated request stays one source: its answers are what its receipt and its
\* alias say, and those are written once.
THEOREM RepeatsAreOneSource == Spec => []OneArchivePerKey
<1>1. ASSUME Types, Served
      PROVE  OneArchivePerKey
  <2> SUFFICES ASSUME NEW x \in acks, NEW y \in acks,
                      x.req.client = y.req.client, x.req.key = y.req.key,
                      \/ x.space = y.space
                      \/ /\ x.req.to = y.req.to /\ x.req.to \in Kinds
                         /\ x.req.space = NoSpace /\ y.req.space = NoSpace
               PROVE  x.space = y.space /\ x.archive = y.archive /\ x.req.payload = y.req.payload
    BY DEF OneArchivePerKey
  <2>1. /\ receipts[<<x.req.client, x.space, x.req.key>>] =
             [payload |-> x.req.payload, archive |-> x.archive]
        /\ receipts[<<y.req.client, y.space, y.req.key>>] =
             [payload |-> y.req.payload, archive |-> y.archive]
    BY <1>1 DEF Served, Answered
  <2>2. x.space = y.space
    BY <1>1 DEF Served, Answered
  <2> QED BY <2>1, <2>2
<1> QED BY <1>1, Care, PTL

\* What is stored and what is served is granted in the very state in which it is
\* committed: the locks a request holds keep away who would change that.
THEOREM ServedIsGranted == Spec => ServedWithinGrants
<1> DEFINE Within ==
      \A t \in Txns :
        /\ Accept(t) => active[Client(t)] /\ "write" \in grants[Client(t)][txn[t].dest]
        /\ Respond(t) =>
             /\ active[Client(t)]
             /\ \A s \in txn[t].locked : s \in Permitted(Client(t), "read")
             /\ \A a \in txn[t].items :
                  archives[a].live /\ archives[a].space \in Permitted(Client(t), "read")
<1>1. ASSUME Types, Served
      PROVE  Within
  <2> SUFFICES ASSUME NEW t \in Txns
               PROVE  /\ Accept(t) =>
                           active[Client(t)] /\ "write" \in grants[Client(t)][txn[t].dest]
                      /\ Respond(t) =>
                           /\ active[Client(t)]
                           /\ \A s \in txn[t].locked : s \in Permitted(Client(t), "read")
                           /\ \A a \in txn[t].items :
                                /\ archives[a].live
                                /\ archives[a].space \in Permitted(Client(t), "read")
    OBVIOUS
  <2>1. /\ txn[t] \in Transaction /\ Requested(txn[t]) /\ Locking(txn[t])
        /\ Permits(txn[t]) /\ Client(t) = txn[t].req.client
    BY <1>1 DEF Types, Sound, Served, Standing, Client
  <2>2. ASSUME Accept(t)
        PROVE  active[Client(t)] /\ "write" \in grants[Client(t)][txn[t].dest]
    <3>1. txn[t].at = "accept" /\ txn[t].req.op = "ingest" /\ txn[t].dest \in txn[t].locked
      BY <2>1, <2>2 DEF Accept, At, Requested, Locking
    <3> QED BY <2>1, <3>1 DEF Permits, Past, Writes, Holds
  <2>3. ASSUME Respond(t)
        PROVE  /\ active[Client(t)]
               /\ \A s \in txn[t].locked : s \in Permitted(Client(t), "read")
               /\ \A a \in txn[t].items :
                    archives[a].live /\ archives[a].space \in Permitted(Client(t), "read")
    <3>1. txn[t].at = "respond" /\ txn[t].req.op = "retrieve"
      BY <2>1, <2>3 DEF Respond, At, Requested
    <3>2. active[Client(t)] /\ Enters(txn[t]) /\ Holds(txn[t]) /\ Serves(txn[t])
      BY <2>1, <3>1 DEF Permits, Past, Writes
    <3>3. \A s \in txn[t].locked : s \in Permitted(Client(t), "read")
      <4>1. txn[t].locked \subseteq Spaces
        BY <2>1, Fields
      <4> QED BY <2>1, <3>1, <3>2, <4>1 DEF Enters, Holds, Permitted
    <3> QED BY <3>2, <3>3 DEF Serves
  <2> QED BY <2>2, <2>3
<1>2. Spec => [][Within]_vars
  BY <1>1, Care, PTL
<1> QED BY <1>2 DEF ServedWithinGrants

=============================================================================
