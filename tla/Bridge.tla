------------------------------- MODULE Bridge -------------------------------
(***************************************************************************)
(* The memory bridge (app/domain/bridge): clients with credentials store   *)
(* and retrieve memories in spaces they were granted, an operator changes  *)
(* grants and the space behind the aliases "private" and "shared", and     *)
(* sources are deleted.                                                    *)
(*                                                                         *)
(* Every request and every provisioning is one database transaction, and   *)
(* each step here is one statement that may wait for a row or an advisory  *)
(* lock.  The stage of a transaction and the sets in txn say which locks   *)
(* it holds.  With managed generations on, a retrieval is authorized once  *)
(* before the query is embedded and again in a REPEATABLE READ snapshot,   *)
(* where locking a row that changed since is an error.  Contents, ranking  *)
(* and audit rows are left out; spaces are numbered in the order of ids.   *)
(* An operator named ..._Bug is a faulty variant of the definition that    *)
(* follows it, kept to show that some property notices it.                 *)
(***************************************************************************)
EXTENDS Naturals, FiniteSets

CONSTANTS
    Clients,  \* bridge clients
    Spaces,   \* memory spaces
    Keys,     \* idempotency keys
    Payloads, \* what a client may store
    Archives, \* raw archive rows
    GrantSets, \* what an operator lets a client do in a space
    Txns,     \* transactions that may be open at once
    MaxTxns   \* bound: requests and provisionings ever begun

Kinds == {"private", "shared"}

\* "none" owns a space that belongs to nobody
ASSUME BridgeAssumption ==
    /\ "none" \notin Clients
    /\ Spaces \subseteq Nat \ {0} /\ Spaces # {}
    /\ GrantSets \subseteq SUBSET {"read", "write"}
    /\ MaxTxns \in Nat

VARIABLES
    active,   \* bridge_clients.active
    spaces,   \* bridge_projects
    grants,   \* bridge_grants
    bindings, \* bridge_bindings: the space behind each alias of a client
    aliases,  \* bridge_alias_receipts: the space an alias request was stored in
    receipts, \* bridge_receipts
    archives, \* raw_archive and bridge_archives
    managed,  \* generation_idempotency_enabled
    txn,      \* transactions in progress
    acks,     \* answers to ingest requests
    begun     \* transactions begun so far

access == <<active, spaces, grants, bindings>>
memory == <<aliases, receipts, archives>>
vars   == <<access, memory, managed, txn, acks, begun>>

-----------------------------------------------------------------------------

NoSpace   == 0
SpaceRow  == [kind : Kinds, owner : Clients \union {"none"}]
Absent    == [kind |-> "absent", owner |-> "none"]
Rights    == {"read", "write"}
Receipt   == [payload : Payloads, archive : Archives]
NoReceipt == [payload |-> "none"]
Archive   == [space : Spaces, by : Clients, live : BOOLEAN]
NoArchive == [space |-> NoSpace]

\* destination and space_id, or project_id as "direct"
IngestRequest == [op : {"ingest"}, client : Clients, to : Kinds \union {"direct"},
                  space : Spaces \union {NoSpace}, key : Keys, payload : Payloads]

\* an empty set of spaces asks for all that are readable
RetrieveRequest == [op : {"retrieve"}, client : Clients, spaces : SUBSET Spaces]

ProvisionRequest == [op : {"provision"}, client : Clients, space : Spaces, kind : Kinds,
                     rights : GrantSets, bind : BOOLEAN]

NoRequest == [op |-> "none"]

Stages == {"idle", "snapshot", "client", "alias", "plan", "spaces", "grants",
           "key", "accept", "search", "items", "respond", "commit"}

\* Rows a retrieval may lock, as its snapshot has them
Snapshot == [active : BOOLEAN, grants : [Spaces -> SUBSET Rights],
             archives : [Archives -> Archive \union {NoArchive}]]
NoSnapshot == [active |-> FALSE]

Transaction == [at : Stages, req : IngestRequest \union RetrieveRequest
                                       \union ProvisionRequest \union {NoRequest},
                dest : Spaces \union {NoSpace}, pinned : BOOLEAN,
                todo : SUBSET Spaces, locked : SUBSET Spaces,
                found : SUBSET Archives, items : SUBSET Archives,
                seen : Snapshot \union {NoSnapshot}]

Over == [at |-> "idle", req |-> NoRequest, dest |-> NoSpace, pinned |-> FALSE,
         todo |-> {}, locked |-> {}, found |-> {}, items |-> {}, seen |-> NoSnapshot]

Ack == [req : IngestRequest, space : Spaces, archive : Archives]

TypeOK ==
    /\ active \in [Clients -> BOOLEAN]
    /\ spaces \in [Spaces -> SpaceRow \union {Absent}]
    /\ grants \in [Clients -> [Spaces -> SUBSET Rights]]
    /\ bindings \in [Clients \X Kinds -> Spaces \union {NoSpace}]
    /\ aliases \in [Clients \X Kinds \X Keys -> Spaces \union {NoSpace}]
    /\ receipts \in [Clients \X Spaces \X Keys -> Receipt \union {NoReceipt}]
    /\ archives \in [Archives -> Archive \union {NoArchive}]
    /\ managed \in BOOLEAN
    /\ \A t \in Txns : txn[t] \in Transaction
    /\ acks \subseteq Ack
    /\ begun \in 0..MaxTxns
    /\ \A b \in Clients \X Kinds : bindings[b] # NoSpace => spaces[bindings[b]].kind = b[2]

-----------------------------------------------------------------------------
(* Locks *)

At(t)      == txn[t].at
Req(t)     == txn[t].req
Client(t)  == txn[t].req.client
Holders    == {t \in Txns : At(t) \notin {"idle", "snapshot", "client"}}
Writing(t) == Req(t).op = "provision"

SharesGrants(t) == At(t) \in {"key", "accept", "search", "items", "respond"}

\* transactions whose row locks on a client or on a space another must wait for
ClientBlockers(t) ==
    {u \in Holders \ {t} : Client(u) = Client(t) /\ (Writing(t) \/ Writing(u))}

SpaceBlockers(t, s) ==
    {u \in Holders \ {t} : s \in txn[u].locked /\ (Writing(t) \/ Writing(u))}

\* transaction-scoped advisory locks of an alias request and of a receipt
AliasBlockers(t) ==
    {u \in Holders \ {t} :
        /\ Req(u).op = "ingest" /\ At(u) # "alias"
        /\ <<Client(u), Req(u).to, Req(u).key>> = <<Client(t), Req(t).to, Req(t).key>>
        /\ Req(u).space = NoSpace}

KeyBlockers(t) ==
    {u \in Holders \ {t} :
        /\ At(u) = "accept"
        /\ <<Client(u), txn[u].dest, Req(u).key>> = <<Client(t), txn[t].dest, Req(t).key>>}

\* spaces by id
First(S) == CHOOSE s \in S : \A r \in S : s <= r

\* whom the next statement of a transaction waits for
Blockers(t) ==
    CASE At(t) = "client" -> ClientBlockers(t)
      [] At(t) = "alias"  -> AliasBlockers(t)
      [] At(t) = "spaces" -> SpaceBlockers(t, First(txn[t].todo))
      [] At(t) = "key"    -> KeyBlockers(t)
      [] OTHER            -> {}

Ready(t, stage) == At(t) = stage /\ Blockers(t) = {}

Update(t, r) == txn' = [txn EXCEPT ![t] = r]
End(t)       == Update(t, Over)
Goto(t, stage) == Update(t, [txn[t] EXCEPT !.at = stage])

\* an error in a snapshot: the row is not the one the snapshot has
InSnapshot(t) == managed /\ Req(t).op = "retrieve"

-----------------------------------------------------------------------------
(* Access *)

MayEnter(c, s) == spaces[s].kind = "shared" \/ spaces[s].owner = c

Permitted(c, right) == {s \in Spaces : right \in grants[c][s] /\ MayEnter(c, s)}

Right(t) == IF Req(t).op = "ingest" THEN "write" ELSE "read"

\* the spaces a request names, all if it names none
Wanted(t) ==
    CASE Req(t).op = "ingest"    -> {txn[t].dest}
      [] Req(t).op = "provision" -> {Req(t).space}
      [] Req(t).op = "retrieve"  -> IF Req(t).spaces = {} THEN Spaces ELSE Req(t).spaces

Requests ==
    {m \in IngestRequest :
        /\ m.to = "direct" => m.space # NoSpace
        /\ m.to = "private" => m.space = NoSpace}
    \union RetrieveRequest
    \union ProvisionRequest

\* execute: a retrieval with managed generations is authorized first, in a
\* transaction of its own, and goes on without its locks
Preflight(m) ==
    LET readable == Permitted(m.client, "read") IN
    active[m.client] /\ m.spaces \subseteq readable

Begin(t) ==
    /\ At(t) = "idle"
    /\ begun < MaxTxns
    /\ begun' = begun + 1
    /\ \E m \in Requests :
         IF managed /\ m.op = "retrieve"
           THEN Preflight(m) /\ Update(t, [Over EXCEPT !.at = "snapshot", !.req = m])
           ELSE Update(t, [Over EXCEPT !.at = "client", !.req = m])
    /\ UNCHANGED <<access, memory, managed, acks>>

\* begin_reader_snapshot and its first statement
TakeSnapshot(t) ==
    /\ At(t) = "snapshot"
    /\ Update(t, [txn[t] EXCEPT !.at = "client",
                    !.seen = [active |-> active[Client(t)], grants |-> grants[Client(t)],
                              archives |-> archives]])
    /\ UNCHANGED <<access, memory, managed, acks, begun>>

\* a client that is not active, or changed since the snapshot, is refused
Authenticated(t) ==
    /\ active[Client(t)]
    /\ InSnapshot(t) => txn[t].seen.active

LockClient(t) ==
    /\ Ready(t, "client")
    /\ CASE Writing(t) -> Update(t, [txn[t] EXCEPT !.at = "spaces", !.todo = Wanted(t)])
         [] ~Writing(t) /\ ~Authenticated(t) -> End(t)
         [] OTHER -> Goto(t, IF Req(t).op = "ingest" THEN "alias" ELSE "plan")
    /\ UNCHANGED <<access, memory, managed, acks, begun>>

-----------------------------------------------------------------------------
(* Ingest: where to *)

PinnedSpace(t) == aliases[<<Client(t), Req(t).to, Req(t).key>>]

Bound(t) == bindings[<<Client(t), Req(t).to>>]

BindingFirst_Bug(t) ==
    IF Bound(t) # NoSpace THEN [dest |-> Bound(t), pinned |-> FALSE]
                          ELSE [dest |-> PinnedSpace(t), pinned |-> TRUE]

\* _destination: an alias request that was stored before stays where it is
Resolved(t) ==
    IF PinnedSpace(t) # NoSpace THEN [dest |-> PinnedSpace(t), pinned |-> TRUE]
                                ELSE [dest |-> Bound(t), pinned |-> FALSE]

Resolve(t) ==
    /\ Ready(t, "alias")
    /\ LET named == Req(t).space
           to    == IF named # NoSpace THEN [dest |-> named, pinned |-> FALSE] ELSE Resolved(t)
       IN IF to.dest = NoSpace THEN End(t)
          ELSE Update(t, [txn[t] EXCEPT !.at = "plan", !.dest = to.dest, !.pinned = to.pinned])
    /\ UNCHANGED <<access, memory, managed, acks, begun>>

-----------------------------------------------------------------------------
(* permitted_spaces *)

\* the spaces the first query finds, which it then locks in order
Found(t) ==
    LET granted == IF InSnapshot(t) THEN txn[t].seen.grants ELSE grants[Client(t)] IN
    {s \in Wanted(t) : Right(t) \in granted[s] /\ MayEnter(Client(t), s)}

FindSpaces(t) ==
    /\ At(t) = "plan"
    /\ Update(t, [txn[t] EXCEPT !.at = IF Found(t) = {} THEN "grants" ELSE "spaces",
                                !.todo = Found(t)])
    /\ UNCHANGED <<access, memory, managed, acks, begun>>

AnyKind_Bug(m) ==
    /\ spaces[m.space].kind = "private" => spaces[m.space].owner = m.client
    /\ m.bind => "write" \in m.rights

\* a provisioning refuses another kind, another owner and an alias that does
\* not fit, and may create the space
ProvisionStands(m) ==
    LET row == spaces[m.space] IN
    /\ row # Absent => row.kind = m.kind
    /\ row.kind = "private" => row.owner = m.client
    /\ m.bind => "write" \in m.rights

LockSpace(t) ==
    /\ Ready(t, "spaces")
    /\ LET s    == First(txn[t].todo)
           rest == txn[t].todo \ {s}
           next == [txn[t] EXCEPT !.todo = rest, !.locked = @ \union {s}]
       IN CASE Writing(t) /\ ~ProvisionStands(Req(t)) -> End(t)
            [] Writing(t) /\ ProvisionStands(Req(t))  -> Update(t, [next EXCEPT !.at = "commit"])
            [] ~Writing(t) /\ rest # {}               -> Update(t, next)
            [] OTHER                                  -> Update(t, [next EXCEPT !.at = "grants"])
    /\ UNCHANGED <<access, memory, managed, acks, begun>>

\* the spaces whose grants are still there when they are locked
Granted(t) == {s \in txn[t].locked : Right(t) \in grants[Client(t)][s]}

Admitted(t) ==
    CASE Req(t).op = "ingest" ->
           /\ txn[t].dest \in Granted(t)
           /\ Req(t).to # "direct" => spaces[txn[t].dest].kind = Req(t).to
      [] OTHER ->
           /\ Req(t).spaces \subseteq Granted(t)
           /\ InSnapshot(t) => \A s \in txn[t].locked : grants[Client(t)][s] = txn[t].seen.grants[s]

LockGrants(t) ==
    /\ At(t) = "grants"
    /\ IF Admitted(t)
         THEN Update(t, [txn[t] EXCEPT !.at = IF Req(t).op = "ingest" THEN "key" ELSE "search",
                                       !.locked = Granted(t)])
         ELSE End(t)
    /\ UNCHANGED <<access, memory, managed, acks, begun>>

-----------------------------------------------------------------------------
(* Ingest: what is stored *)

ReceiptOf(t) == receipts[<<Client(t), txn[t].dest, Req(t).key>>]

\* a receipt is answered again if it is of the same payload and its source is
\* still there, and refused otherwise
Replayable(t) ==
    LET a == archives[ReceiptOf(t).archive] IN
    /\ ReceiptOf(t).payload = Req(t).payload
    /\ a # NoArchive /\ a.live /\ a.space = txn[t].dest

LockKey(t) ==
    /\ Ready(t, "key")
    /\ IF IF ReceiptOf(t) = NoReceipt THEN ~txn[t].pinned ELSE Replayable(t)
         THEN Goto(t, "accept") ELSE End(t)
    /\ UNCHANGED <<access, memory, managed, acks, begun>>

\* the alias receipt is written with the first answer
Pins(t) == Req(t).to # "direct" /\ Req(t).space = NoSpace /\ ~txn[t].pinned

Stored(t, a) ==
    IF ReceiptOf(t) # NoReceipt
      THEN a = ReceiptOf(t).archive /\ UNCHANGED <<receipts, archives>>
      ELSE /\ archives[a] = NoArchive
           /\ archives' = [archives EXCEPT ![a] =
                             [space |-> txn[t].dest, by |-> Client(t), live |-> TRUE]]
           /\ receipts' = [receipts EXCEPT ![<<Client(t), txn[t].dest, Req(t).key>>] =
                             [payload |-> Req(t).payload, archive |-> a]]

Accept(t) ==
    /\ At(t) = "accept"
    /\ \E a \in Archives :
         /\ Stored(t, a)
         /\ acks' = acks \union {[req |-> Req(t), space |-> txn[t].dest, archive |-> a]}
    /\ aliases' = IF Pins(t)
                    THEN [aliases EXCEPT ![<<Client(t), Req(t).to, Req(t).key>>] = txn[t].dest]
                    ELSE aliases
    /\ End(t)
    /\ UNCHANGED <<access, managed, begun>>

-----------------------------------------------------------------------------
(* Retrieval *)

\* retrieve: what the search finds in the permitted spaces
Search(t) ==
    /\ At(t) = "search"
    /\ LET rows == IF InSnapshot(t) THEN txn[t].seen.archives ELSE archives
           hits == {a \in Archives : rows[a].space \in txn[t].locked /\ rows[a].live}
       IN \E found \in SUBSET hits :
            Update(t, [txn[t] EXCEPT !.at = IF found = {} THEN "respond" ELSE "items",
                                     !.found = found])
    /\ UNCHANGED <<access, memory, managed, acks, begun>>

FoundIsEnough_Bug(t, a) == archives[a].space \in txn[t].locked

InScope(t, a) ==
    /\ archives[a].space \in txn[t].locked /\ archives[a].live
    /\ InSnapshot(t) => archives[a] = txn[t].seen.archives[a]

\* each item is locked and looked at once more; one that is gone refuses all
LockItem(t) ==
    /\ At(t) = "items"
    /\ \E a \in txn[t].found \ txn[t].items :
         IF ~InScope(t, a) THEN End(t)
         ELSE LET items == txn[t].items \union {a} IN
              Update(t, [txn[t] EXCEPT !.items = items,
                           !.at = IF items = txn[t].found THEN "respond" ELSE "items"])
    /\ UNCHANGED <<access, memory, managed, acks, begun>>

Respond(t) ==
    /\ At(t) = "respond"
    /\ End(t)
    /\ UNCHANGED <<access, memory, managed, acks, begun>>

\* a statement fails, the answer is refused for another reason, or the process dies
Abort(t) ==
    /\ At(t) # "idle"
    /\ End(t)
    /\ UNCHANGED <<access, memory, managed, acks, begun>>

-----------------------------------------------------------------------------
(* The operator, and deletion *)

\* provision: the space, the grant, the binding and a new credential in one commit
Provision(t) ==
    /\ At(t) = "commit"
    /\ LET m == Req(t) IN
         /\ spaces' = IF spaces[m.space] # Absent THEN spaces
                      ELSE [spaces EXCEPT ![m.space] =
                              [kind |-> m.kind,
                               owner |-> IF m.kind = "private" THEN m.client ELSE "none"]]
         /\ grants' = [grants EXCEPT ![m.client][m.space] = m.rights]
         /\ bindings' = IF m.bind THEN [bindings EXCEPT ![<<m.client, m.kind>>] = m.space] ELSE bindings
         /\ active' = [active EXCEPT ![m.client] = TRUE]
    /\ End(t)
    /\ UNCHANGED <<memory, managed, acks, begun>>

\* provision --revoke locks the client row only
Revoke(c) ==
    /\ \A t \in Holders : Client(t) # c
    /\ active[c]
    /\ active' = [active EXCEPT ![c] = FALSE]
    /\ UNCHANGED <<spaces, grants, bindings, memory, managed, txn, acks, begun>>

\* a grant taken away in the database, without the client's lock
DirectRevoke(c, s) ==
    /\ \A t \in Holders : SharesGrants(t) => Client(t) # c \/ s \notin txn[t].locked
    /\ grants[c][s] # {}
    /\ grants' = [grants EXCEPT ![c][s] = {}]
    /\ UNCHANGED <<active, spaces, bindings, memory, managed, txn, acks, begun>>

Delete(a) ==
    /\ archives[a] # NoArchive /\ archives[a].live
    /\ \A t \in Txns : a \notin txn[t].items
    /\ archives' = [archives EXCEPT ![a].live = FALSE]
    /\ UNCHANGED <<access, aliases, receipts, managed, txn, acks, begun>>

-----------------------------------------------------------------------------

\* a shared space every client was provisioned for
Init ==
    /\ active = [c \in Clients |-> TRUE]
    /\ spaces = [s \in Spaces |-> IF s = First(Spaces) THEN [kind |-> "shared", owner |-> "none"]
                                                       ELSE Absent]
    /\ grants = [c \in Clients |-> [s \in Spaces |-> IF s = First(Spaces) THEN Rights ELSE {}]]
    /\ bindings = [b \in Clients \X Kinds |->
                     IF b[2] = "shared" THEN First(Spaces) ELSE NoSpace]
    /\ aliases = [k \in Clients \X Kinds \X Keys |-> NoSpace]
    /\ receipts = [k \in Clients \X Spaces \X Keys |-> NoReceipt]
    /\ archives = [a \in Archives |-> NoArchive]
    /\ managed \in BOOLEAN
    /\ txn = [t \in Txns |-> Over]
    /\ acks = {}
    /\ begun = 0

Step(t) ==
    \/ Begin(t) \/ TakeSnapshot(t) \/ LockClient(t) \/ Resolve(t)
    \/ FindSpaces(t) \/ LockSpace(t) \/ LockGrants(t)
    \/ LockKey(t) \/ Accept(t)
    \/ Search(t) \/ LockItem(t) \/ Respond(t)
    \/ Provision(t) \/ Abort(t)

Next ==
    \/ \E t \in Txns : Step(t)
    \/ \E c \in Clients : Revoke(c) \/ \E s \in Spaces : DirectRevoke(c, s)
    \/ \E a \in Archives : Delete(a)

Spec == Init /\ [][Next]_vars
=============================================================================
