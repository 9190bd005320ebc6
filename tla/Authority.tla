------------------------------ MODULE Authority ------------------------------
(***************************************************************************)
(* Guarded authority writes (app/domain/authority): records of an          *)
(* authority scope, the supersession edges between them, and clients that  *)
(* read a scope, send guarded mutations with the state digest they read,   *)
(* and repeat requests whose answer they did not get.                      *)
(*                                                                         *)
(* A write is one transaction.  It holds the client and grant rows FOR     *)
(* SHARE from Begin on, the advisory lock of its idempotency key from      *)
(* LockReceipt on and that of its scope from LockScope on, all to the end; *)
(* pc tells which locks a write holds.  A digest is the graph it is        *)
(* computed from.  get_current_authority takes no lock and reads in four   *)
(* statements.  Texts, reasons and provenance are left out.                *)
(* An operator named ..._Bug is a faulty variant of the definition that    *)
(* follows it, kept to show that some property notices it.                 *)
(***************************************************************************)
EXTENDS Naturals, FiniteSets

CONSTANTS
    Clients,   \* bridge clients
    Keys,      \* idempotency keys they use
    Records,   \* authority records that exist or may be proposed
    Scopes,    \* authority scopes: space, workstream and authority key
    Slots,     \* writes that may be in progress at once
    Modes,     \* ways a mutation is asked for: confirm, dry_run or neither
    Grants,    \* what an operator lets a client do
    MaxWrites, \* bound: writes ever sent
    MaxReads   \* bound: reads ever begun

AllModes     == {"confirm", "dry_run", "neither"}
Capabilities == {"propose", "mutate"}
Permissions  == SUBSET (Capabilities \union {"active"})

ASSUME ConstantsAssumption ==
    /\ Modes \subseteq AllModes
    /\ Grants \subseteq Permissions
    /\ "none" \notin Scopes /\ "none" \notin Clients
    /\ MaxWrites \in Nat /\ MaxReads \in Nat

VARIABLES
    rows,      \* authority_records
    edges,     \* authority_edges: successor, predecessor
    receipts,  \* authority_mutation_receipts by client and key: one request or none
    perm,      \* what a client may do: bridge_clients.active and its grant
    views,     \* what each client last read of each scope
    reader,    \* the read each client has in progress
    pc,        \* where each write is, or how the last one of a slot ended
    msg,       \* the write in each slot
    sent       \* writes sent and reads begun so far

tables == <<rows, edges, receipts>>
vars   == <<rows, edges, receipts, perm, views, reader, pc, msg, sent>>

-----------------------------------------------------------------------------

Lifecycle    == {"proposed", "active", "withdrawn", "disputed"}
Creation     == "create_authority_proposal"
Mutations    == {"activate_authority_record", "supersede_authority_record",
                 "withdraw_authority_record", "mark_authority_disputed"}

Writing == {"receipt", "scope", "commit"}

Row      == [scope : Scopes, status : Lifecycle]
NoRow    == [scope |-> "none", status |-> "absent"]
Statuses == [Records -> Lifecycle \union {"absent", "unread"}]
Graph    == [rows : Statuses, edges : SUBSET (Records \X Records)]

Unread  == [r \in Records |-> "unread"]
Nothing == [rows |-> Unread, edges |-> {}]
View    == [digest : Graph, shown : SUBSET Records]
Reader  == [at : {"idle", "edges", "again", "show"},
            scope : Scopes \union {"none"}, digest : Graph, again : Statuses]
AtRest  == [at |-> "idle", scope |-> "none", digest |-> Nothing, again |-> Unread]

Request == [client : Clients, key : Keys, op : Mutations \union {Creation},
            scope : Scopes, rec : Records, pred : Records,
            expect : Graph, mode : AllModes]
NoRequest == [client |-> "none"]

TypeOK ==
    /\ rows \in [Records -> Row \union {NoRow}]
    /\ edges \subseteq Records \X Records
    /\ receipts \in [Clients \X Keys -> SUBSET Request]
    /\ perm \in [Clients -> Permissions]
    /\ views \in [Clients -> [Scopes -> View]]
    /\ reader \in [Clients -> Reader]
    /\ pc \in [Slots -> Writing \union {"idle"}]
    /\ msg \in [Slots -> Request \union {NoRequest}]
    /\ sent \in [writes : 0..MaxWrites, reads : 0..MaxReads]
    /\ \A p \in Slots : pc[p] \in Writing => msg[p] \in Request

-----------------------------------------------------------------------------
(* The graph of a scope: service.py *)

\* list_scope_records
RowsOf(s) == [r \in Records |-> IF rows[r].scope = s THEN rows[r].status ELSE "absent"]

\* list_scope_edges: both ends among the records of an earlier reading
EdgesAmong(statuses) ==
    {e \in edges : statuses[e[1]] # "absent" /\ statuses[e[2]] # "absent"}

Scope(s) == [rows |-> RowsOf(s), edges |-> EdgesAmong(RowsOf(s))]

\* every set that contains a and the predecessors of its members contains b
Reaches(E, a, b) ==
    \A S \in SUBSET Records :
        a \in S /\ (\A e \in E : e[1] \in S => e[2] \in S) => b \in S

WouldCycle(g, successor, predecessor) == Reaches(g.edges, predecessor, successor)

\* evaluate_current_state: one eligible record is current, several are ambiguous
Eligible(g) ==
    {r \in Records : g.rows[r] = "active" /\ \A e \in g.edges : e[2] # r}

Known(g, r)   == g.rows[r] # "absent"
Blocked(g, r) == g.rows[r] \in {"withdrawn", "disputed"}

ValidSupersession(g, successor, predecessor) ==
    /\ Known(g, successor) /\ Known(g, predecessor)
    /\ successor # predecessor
    /\ <<successor, predecessor>> \notin g.edges
    /\ ~WouldCycle(g, successor, predecessor)
    /\ ~Blocked(g, successor)

\* what AuthorityGraph lets a mutation do
Valid(g, m) ==
    CASE m.op = "activate_authority_record"  -> Known(g, m.rec) /\ ~Blocked(g, m.rec)
      [] m.op = "supersede_authority_record" -> ValidSupersession(g, m.rec, m.pred)
      [] OTHER                               -> Known(g, m.rec)

\* the status a write leaves its record in
NewStatus(m) ==
    CASE m.op = Creation                    -> "proposed"
      [] m.op = "withdraw_authority_record" -> "withdrawn"
      [] m.op = "mark_authority_disputed"   -> "disputed"
      [] OTHER                              -> "active"

-----------------------------------------------------------------------------
(* Writes *)

Goto(p, label) == pc' = [pc EXCEPT ![p] = label]

\* on to the next stage, or answered, which releases all locks
Answer(p, label) ==
    /\ Goto(p, label)
    /\ msg' = IF label = "idle" THEN [msg EXCEPT ![p] = NoRequest] ELSE msg

\* requests a client can make up: the guard is the digest it was shown
NewRequests(c) ==
    {m \in [client : {c}, key : Keys, op : Mutations \union {Creation}, scope : Scopes,
            rec : Records, pred : Records,
            expect : {views[c][s].digest : s \in Scopes} \union {Nothing},
            mode : Modes] :
        /\ m.op # "supersede_authority_record" => m.pred = m.rec
        /\ IF m.op = Creation THEN m.expect = Nothing /\ m.mode = "confirm"
                              ELSE m.expect = views[c][m.scope].digest}

\* requests it repeats: applied ones, and ones it still waits for
Repeated(c) ==
    (UNION {receipts[<<c, k>>] : k \in Keys})
        \union {msg[q] : q \in {q \in Slots : msg[q].client = c}}

Capability(m) == IF m.op = Creation THEN "propose" ELSE "mutate"

\* _authorize, then the confirmation of a guarded mutation: the next stage
Admission(m) ==
    IF ~({"active", Capability(m)} \subseteq perm[m.client]) \/ m.mode = "neither" THEN "idle"
    ELSE IF m.mode = "dry_run" THEN "scope" ELSE "receipt"

\* a request arrives and is admitted or not
Begin(p) ==
    /\ pc[p] = "idle"
    /\ sent.writes < MaxWrites
    /\ sent' = [sent EXCEPT !.writes = @ + 1]
    /\ \E c \in Clients : \E m \in NewRequests(c) \union Repeated(c) :
         /\ Goto(p, Admission(m))
         /\ msg' = IF Admission(m) = "idle" THEN msg ELSE [msg EXCEPT ![p] = m]
    /\ UNCHANGED <<tables, perm, views, reader>>

HoldsReceipt(p) == pc[p] \in {"scope", "commit"} /\ msg[p].mode # "dry_run"
HoldsScope(p)   == pc[p] = "commit"

SameKey(p, q) == msg[p].client = msg[q].client /\ msg[p].key = msg[q].key

\* _receipt_or_none: a receipt answers the request, with what was recorded when
\* the payload is the same and with a conflict when it is not
Recorded(p) ==
    LET found == receipts[<<msg[p].client, msg[p].key>>] IN
    IF found = {} THEN "scope" ELSE "idle"

NoReceiptLock_Bug(p) ==
    /\ pc[p] = "receipt"
    /\ Answer(p, Recorded(p))
    /\ UNCHANGED <<tables, perm, views, reader, sent>>

\* the advisory lock of the key, then the receipt
LockReceipt(p) ==
    /\ pc[p] = "receipt"
    /\ \A q \in Slots : HoldsReceipt(q) => ~SameKey(p, q)
    /\ Answer(p, Recorded(p))
    /\ UNCHANGED <<tables, perm, views, reader, sent>>

\* What the loaded scope says of a request: a stale digest, an invalid change
\* and a preview are answers.
Verdict(g, m) ==
    IF m.op # Creation /\ (g # m.expect \/ ~Valid(g, m) \/ m.mode = "dry_run")
      THEN "idle" ELSE "commit"

NoScopeLock_Bug(p) ==
    /\ pc[p] = "scope"
    /\ Answer(p, Verdict(Scope(msg[p].scope), msg[p]))
    /\ UNCHANGED <<tables, perm, views, reader, sent>>

\* the advisory lock of the scope, then the load
LockScope(p) ==
    /\ pc[p] = "scope"
    /\ \A q \in Slots : HoldsScope(q) => msg[q].scope # msg[p].scope
    /\ Answer(p, Verdict(Scope(msg[p].scope), msg[p]))
    /\ UNCHANGED <<tables, perm, views, reader, sent>>

\* The repository validates again under the same lock and the postcondition
\* compares with the preview: neither can differ.  Records and receipts are
\* inserted under their primary keys.
Commit(p) ==
    /\ pc[p] = "commit"
    /\ LET m == msg[p] IN
         /\ receipts[<<m.client, m.key>>] = {}
         /\ m.op = Creation => rows[m.rec] = NoRow
         /\ rows' = [rows EXCEPT ![m.rec] = [scope |-> m.scope, status |-> NewStatus(m)]]
         /\ edges' = IF m.op = "supersede_authority_record"
                       THEN edges \union {<<m.rec, m.pred>>} ELSE edges
         /\ receipts' = [receipts EXCEPT ![<<m.client, m.key>>] = {m}]
    /\ Answer(p, "idle")
    /\ UNCHANGED <<perm, views, reader, sent>>

\* a record exists already, a statement fails, or the process dies
Abort(p) ==
    /\ pc[p] \in {"receipt", "scope", "commit"}
    /\ Answer(p, "idle")
    /\ UNCHANGED <<tables, perm, views, reader, sent>>

-----------------------------------------------------------------------------
(* get_current_authority: the digest of one reading, the answer of another *)

ReadRecords(c) ==
    /\ reader[c].at = "idle"
    /\ sent.reads < MaxReads
    /\ sent' = [sent EXCEPT !.reads = @ + 1]
    /\ \E s \in Scopes :
         reader' = [reader EXCEPT ![c].at = "edges", ![c].scope = s,
                                  ![c].digest.rows = RowsOf(s)]
    /\ UNCHANGED <<tables, perm, views, pc, msg>>

ReadEdges(c) ==
    /\ reader[c].at = "edges"
    /\ reader' = [reader EXCEPT ![c].at = "again",
                                ![c].digest.edges = EdgesAmong(reader[c].digest.rows)]
    /\ UNCHANGED <<tables, perm, views, pc, msg, sent>>

\* evaluate_scope reads everything once more
ReadAgain(c) ==
    /\ reader[c].at = "again"
    /\ reader' = [reader EXCEPT ![c].at = "show", ![c].again = RowsOf(reader[c].scope)]
    /\ UNCHANGED <<tables, perm, views, pc, msg, sent>>

Evaluated(c) == [rows |-> reader[c].again, edges |-> EdgesAmong(reader[c].again)]

DigestLast_Bug(c) ==
    /\ reader[c].at = "show"
    /\ views' = [views EXCEPT ![c][reader[c].scope] =
                   [digest |-> Scope(reader[c].scope), shown |-> Eligible(Evaluated(c))]]
    /\ reader' = [reader EXCEPT ![c] = AtRest]
    /\ UNCHANGED <<tables, perm, pc, msg, sent>>

Show(c) ==
    /\ reader[c].at = "show"
    /\ views' = [views EXCEPT ![c][reader[c].scope] =
                   [digest |-> reader[c].digest, shown |-> Eligible(Evaluated(c))]]
    /\ reader' = [reader EXCEPT ![c] = AtRest]
    /\ UNCHANGED <<tables, perm, pc, msg, sent>>

-----------------------------------------------------------------------------
(* The operator *)

\* rows a write of the client holds FOR SHARE
Pinned(c) ==
    \E p \in Slots : pc[p] \in {"receipt", "scope", "commit"} /\ msg[p].client = c

AnyTime_Bug(c) ==
    /\ \E granted \in Grants : perm' = [perm EXCEPT ![c] = granted]
    /\ UNCHANGED <<tables, views, reader, pc, msg, sent>>

\* provision: a client is revoked, or its grant set and its credential renewed
Provision(c) ==
    /\ ~Pinned(c)
    /\ \E granted \in Grants : perm' = [perm EXCEPT ![c] = granted]
    /\ UNCHANGED <<tables, views, reader, pc, msg, sent>>

-----------------------------------------------------------------------------

\* records proposed and activated earlier, under keys that are not used again
Init ==
    /\ rows \in [Records -> [scope : Scopes, status : {"proposed", "active"}] \union {NoRow}]
    /\ edges = {}
    /\ receipts = [k \in Clients \X Keys |-> {}]
    /\ perm \in [Clients -> Grants]
    /\ views = [c \in Clients |-> [s \in Scopes |-> [digest |-> Nothing, shown |-> {}]]]
    /\ reader = [c \in Clients |-> AtRest]
    /\ pc = [p \in Slots |-> "idle"]
    /\ msg = [p \in Slots |-> NoRequest]
    /\ sent = [writes |-> 0, reads |-> 0]

Write(p) ==
    \/ Begin(p) \/ LockReceipt(p) \/ LockScope(p)
    \/ Commit(p) \/ Abort(p)

ReadScope(c) ==
    \/ ReadRecords(c) \/ ReadEdges(c) \/ ReadAgain(c) \/ Show(c)

Next ==
    \/ \E p \in Slots : Write(p)
    \/ \E c \in Clients : ReadScope(c) \/ Provision(c)

Spec == Init /\ [][Next]_vars
=============================================================================
