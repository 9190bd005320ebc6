--------------------------- MODULE AuthorityProofs ---------------------------
(***************************************************************************)
(* The invariants of Authority for every number of clients, records and    *)
(* scopes: types, what the locks of a write protect until it commits, and  *)
(* that no order of commits closes a cycle of supersessions.               *)
(***************************************************************************)
EXTENDS AuthorityProperties, TLAPS

\* a proposal has no preview, and what has a receipt was once such a request
WellFormed(m) == m.op = Creation => m.mode = "confirm"

Requested ==
    /\ \A p \in Slots : pc[p] \in Writing => WellFormed(msg[p])
    /\ \A p \in Slots : pc[p] = "idle" => msg[p] = NoRequest
    /\ \A k \in Clients \X Keys : \A m \in receipts[k] : WellFormed(m)

\* a write keeps its row locks, the lock of its key and that of its scope
KeysAreHeld ==
    \A p, q \in Slots : p # q /\ HoldsReceipt(p) /\ HoldsReceipt(q) => ~SameKey(p, q)

ScopesAreHeld ==
    \A p, q \in Slots : p # q /\ HoldsScope(p) /\ HoldsScope(q) => msg[p].scope # msg[q].scope

Previews ==
    \A p \in Slots : pc[p] = "commit" => msg[p].mode # "dry_run"

Authorized ==
    \A p \in Slots : pc[p] \in Writing =>
        {"active", Capability(msg[p])} \subseteq perm[msg[p].client]

\* what the guards found under the lock still holds
GuardsHold ==
    \A p \in Slots : pc[p] = "commit" /\ msg[p].op # Creation =>
        /\ Scope(msg[p].scope) = msg[p].expect
        /\ Valid(Scope(msg[p].scope), msg[p])

-----------------------------------------------------------------------------
(* Type correctness *)

\* A graph of statuses and edges is a graph.
LEMMA ScopeType ==
  ASSUME TypeOK, NEW s \in Scopes
  PROVE  /\ RowsOf(s) \in Statuses
         /\ \A statuses : EdgesAmong(statuses) \subseteq Records \X Records
         /\ Scope(s) \in Graph
<1>1. RowsOf(s) \in Statuses
  BY DEF RowsOf, Statuses, TypeOK, Row, NoRow
<1>2. \A statuses : EdgesAmong(statuses) \subseteq Records \X Records
  BY DEF EdgesAmong, TypeOK
<1> QED BY <1>1, <1>2 DEF Scope, Graph

\* Nothing is a graph, and a client at rest is a reader.
LEMMA NothingType == Nothing \in Graph /\ AtRest \in Reader
<1>1. Unread \in Statuses
  BY DEF Unread, Statuses
<1>2. Nothing \in Graph
  BY <1>1 DEF Nothing, Graph
<1> QED BY <1>1, <1>2 DEF AtRest, Reader

\* Every request a client makes up or repeats is one.
LEMMA RequestType ==
  ASSUME TypeOK, NEW c \in Clients, NEW m \in NewRequests(c) \union Repeated(c)
  PROVE  m \in Request
<1>1. ASSUME m \in NewRequests(c) PROVE m \in Request
  <2>1. \A s \in Scopes : views[c][s].digest \in Graph
    BY DEF TypeOK, View
  <2>2. {views[c][s].digest : s \in Scopes} \union {Nothing} \subseteq Graph
    BY <2>1, NothingType
  <2>3. Modes \subseteq AllModes
    BY ConstantsAssumption
  <2> DEFINE Expected == {views[c][s].digest : s \in Scopes} \union {Nothing}
  <2>4. m \in [client : {c}, key : Keys, op : Mutations \union {Creation}, scope : Scopes,
               rec : Records, pred : Records, expect : Expected, mode : Modes]
    BY <1>1 DEF NewRequests
  <2> HIDE DEF Expected
  <2> QED BY <2>2, <2>3, <2>4 DEF Request, Expected
<1>2. ASSUME m \in Repeated(c) PROVE m \in Request
  <2>1. CASE \E k \in Keys : m \in receipts[<<c, k>>]
    BY <2>1 DEF TypeOK
  <2>2. CASE \E q \in Slots : msg[q].client = c /\ m = msg[q]
    BY <2>2, ConstantsAssumption DEF TypeOK, NoRequest
  <2> QED BY <1>2, <2>1, <2>2 DEF Repeated
<1> QED BY <1>1, <1>2

\* An answer or a step to the next stage keeps the types of a write.
LEMMA AnswerType ==
  ASSUME TypeOK, NEW p \in Slots, pc[p] \in Writing,
         NEW label \in Writing \union {"idle"}, Answer(p, label)
  PROVE  /\ pc' \in [Slots -> Writing \union {"idle"}]
         /\ msg' \in [Slots -> Request \union {NoRequest}]
         /\ \A q \in Slots : pc'[q] \in Writing => msg'[q] \in Request
<1>1. CASE label = "idle"
  BY <1>1 DEF Answer, Goto, TypeOK, Writing
<1>2. CASE label # "idle"
  BY <1>2 DEF Answer, Goto, TypeOK, Writing
<1> QED BY <1>1, <1>2

\* The steps of a write keep the types.
LEMMA WriteTypes == ASSUME TypeOK, NEW p \in Slots, Write(p) PROVE TypeOK'
<1>1. CASE Begin(p)
  <2>1. sent' \in [writes : 0..MaxWrites, reads : 0..MaxReads]
    BY <1>1, ConstantsAssumption DEF Begin, TypeOK
  <2>8. PICK c \in Clients : \E m \in NewRequests(c) \union Repeated(c) :
          /\ Goto(p, Admission(m))
          /\ msg' = IF Admission(m) = "idle" THEN msg ELSE [msg EXCEPT ![p] = m]
    BY <1>1 DEF Begin
  <2>2. PICK m \in NewRequests(c) \union Repeated(c) :
          /\ Goto(p, Admission(m))
          /\ msg' = IF Admission(m) = "idle" THEN msg ELSE [msg EXCEPT ![p] = m]
    BY <2>8
  <2>3. m \in Request
    BY RequestType
  <2>4. Admission(m) \in {"idle", "scope", "receipt"}
    BY DEF Admission
  <2>5. pc' \in [Slots -> Writing \union {"idle"}]
    BY <2>2, <2>4 DEF Goto, TypeOK, Writing
  <2>6. msg' \in [Slots -> Request \union {NoRequest}]
    BY <2>2, <2>3 DEF TypeOK
  <2>7. \A q \in Slots : pc'[q] \in Writing => msg'[q] \in Request
    BY <2>2, <2>3, <2>4 DEF Goto, TypeOK, Writing
  <2> QED BY <1>1, <2>1, <2>5, <2>6, <2>7 DEF Begin, TypeOK, tables
<1>2. CASE LockReceipt(p)
  <2>1. Recorded(p) \in Writing \union {"idle"}
    BY DEF Recorded, Writing
  <2>2. pc[p] \in Writing /\ Answer(p, Recorded(p))
    BY <1>2 DEF LockReceipt, Writing
  <2> QED BY <1>2, <2>1, <2>2, AnswerType DEF LockReceipt, TypeOK, tables
<1>3. CASE LockScope(p)
  <2>1. Verdict(Scope(msg[p].scope), msg[p]) \in Writing \union {"idle"}
    BY DEF Verdict, Writing
  <2>2. pc[p] \in Writing /\ Answer(p, Verdict(Scope(msg[p].scope), msg[p]))
    BY <1>3 DEF LockScope, Writing
  <2> QED BY <1>3, <2>1, <2>2, AnswerType DEF LockScope, TypeOK, tables
<1>4. CASE Commit(p)
  <2>1. msg[p] \in Request /\ pc[p] \in Writing /\ Answer(p, "idle")
    BY <1>4 DEF Commit, TypeOK, Writing
  <2>2. NewStatus(msg[p]) \in Lifecycle
    BY DEF NewStatus, Lifecycle
  <2>3. rows' \in [Records -> Row \union {NoRow}]
    BY <1>4, <2>1, <2>2 DEF Commit, TypeOK, Request, Row
  <2>4. edges' \subseteq Records \X Records
    BY <1>4, <2>1 DEF Commit, TypeOK, Request
  <2>5. receipts' \in [Clients \X Keys -> SUBSET Request]
    BY <1>4, <2>1 DEF Commit, TypeOK, Request
  <2> QED BY <1>4, <2>1, <2>3, <2>4, <2>5, AnswerType DEF Commit, TypeOK
<1>5. CASE Abort(p)
  <2>1. pc[p] \in Writing /\ Answer(p, "idle")
    BY <1>5 DEF Abort, Writing
  <2> QED BY <1>5, <2>1, AnswerType DEF Abort, TypeOK, tables
<1> QED BY <1>1, <1>2, <1>3, <1>4, <1>5 DEF Write

\* The reads of a scope keep the types.
LEMMA ReadTypes == ASSUME TypeOK, NEW c \in Clients, ReadScope(c) PROVE TypeOK'
<1> USE DEF tables
<1>1. CASE ReadRecords(c)
  <2>1. PICK s \in Scopes :
          reader' = [reader EXCEPT ![c].at = "edges", ![c].scope = s,
                                   ![c].digest.rows = RowsOf(s)]
    BY <1>1 DEF ReadRecords
  <2>2. reader' \in [Clients -> Reader]
    <3>1. reader[c] \in Reader /\ reader[c].digest \in Graph /\ RowsOf(s) \in Statuses
      BY ScopeType DEF TypeOK, Reader
    <3>2. [reader[c].digest EXCEPT !.rows = RowsOf(s)] \in Graph
      BY <3>1 DEF Graph
    <3>3. [reader[c] EXCEPT !.at = "edges", !.scope = s,
             !.digest = [reader[c].digest EXCEPT !.rows = RowsOf(s)]] \in Reader
      BY <3>1, <3>2 DEF Reader
    <3>4. reader' = [reader EXCEPT ![c] = [reader[c] EXCEPT !.at = "edges", !.scope = s,
                       !.digest = [reader[c].digest EXCEPT !.rows = RowsOf(s)]]]
      BY <2>1, <3>1 DEF TypeOK, Reader, Graph
    <3> QED BY <3>3, <3>4 DEF TypeOK
  <2>3. sent' \in [writes : 0..MaxWrites, reads : 0..MaxReads]
    BY <1>1, ConstantsAssumption DEF ReadRecords, TypeOK
  <2> QED BY <1>1, <2>2, <2>3 DEF ReadRecords, TypeOK
<1>2. CASE ReadEdges(c)
  <2>1. EdgesAmong(reader[c].digest.rows) \subseteq Records \X Records
    BY DEF EdgesAmong, TypeOK
  <2> DEFINE found == EdgesAmong(reader[c].digest.rows)
  <2> HIDE DEF found
  <2>2. reader' \in [Clients -> Reader]
    <3>1. reader[c] \in Reader /\ reader[c].digest \in Graph
      BY DEF TypeOK, Reader
    <3>2. [reader[c].digest EXCEPT !.edges = found] \in Graph
      BY <3>1, <2>1 DEF Graph, found
    <3>3. [reader[c] EXCEPT !.at = "again",
             !.digest = [reader[c].digest EXCEPT !.edges = found]] \in Reader
      BY <3>1, <3>2 DEF Reader
    <3>4. reader' = [reader EXCEPT ![c] = [reader[c] EXCEPT !.at = "again",
                       !.digest = [reader[c].digest EXCEPT !.edges = found]]]
      BY <1>2, <3>1 DEF ReadEdges, TypeOK, Reader, Graph, found
    <3> QED BY <3>3, <3>4 DEF TypeOK
  <2> QED BY <1>2, <2>2 DEF ReadEdges, TypeOK
<1>3. CASE ReadAgain(c)
  <2>2. RowsOf(reader[c].scope) \in Statuses
    BY DEF RowsOf, Statuses, TypeOK, Row, NoRow
  <2>3. reader' \in [Clients -> Reader]
    <3>1. reader[c] \in Reader
      BY DEF TypeOK
    <3>2. [reader[c] EXCEPT !.at = "show", !.again = RowsOf(reader[c].scope)] \in Reader
      BY <3>1, <2>2 DEF Reader
    <3>3. reader' = [reader EXCEPT ![c] =
                       [reader[c] EXCEPT !.at = "show", !.again = RowsOf(reader[c].scope)]]
      BY <1>3, <3>1 DEF ReadAgain, TypeOK, Reader
    <3> QED BY <3>2, <3>3 DEF TypeOK
  <2> QED BY <1>3, <2>3 DEF ReadAgain, TypeOK
<1>4. CASE Show(c)
  <2>1. reader[c].digest \in Graph
    BY DEF TypeOK, Reader
  <2>2. Eligible(Evaluated(c)) \subseteq Records
    BY DEF Eligible
  <2>3. [digest |-> reader[c].digest, shown |-> Eligible(Evaluated(c))] \in View
    BY <2>1, <2>2 DEF View
  <2>4. views' \in [Clients -> [Scopes -> View]]
    BY <1>4, <2>3 DEF Show, TypeOK
  <2>5. reader' \in [Clients -> Reader]
    BY <1>4, NothingType DEF Show, TypeOK
  <2> QED BY <1>4, <2>4, <2>5 DEF Show, TypeOK
<1> QED BY <1>1, <1>2, <1>3, <1>4 DEF ReadScope

\* The initial states have their types.
LEMMA InitialTypes == ASSUME Init PROVE TypeOK
<1>1. rows \in [Records -> Row \union {NoRow}]
  BY DEF Init, Row, Lifecycle
<1>2. views \in [Clients -> [Scopes -> View]]
  BY NothingType DEF Init, View
<1>3. perm \in [Clients -> Permissions]
  BY ConstantsAssumption DEF Init
<1>4. sent \in [writes : 0..MaxWrites, reads : 0..MaxReads]
  BY ConstantsAssumption DEF Init
<1> QED BY <1>1, <1>2, <1>3, <1>4, NothingType DEF Init, TypeOK, Writing

\* Every variable keeps its type, whatever clients send and repeat.
THEOREM TypeCorrect == Spec => []TypeOK
<1>1. Init => TypeOK
  BY InitialTypes
<1>2. ASSUME TypeOK, [Next]_vars PROVE TypeOK'
  <2>1. CASE \E p \in Slots : Write(p)
    BY <1>2, <2>1, WriteTypes
  <2>2. CASE \E c \in Clients : ReadScope(c)
    BY <1>2, <2>2, ReadTypes
  <2>3. ASSUME NEW c \in Clients, Provision(c) PROVE TypeOK'
    BY <1>2, <2>3, ConstantsAssumption DEF Provision, TypeOK, tables
  <2>4. CASE UNCHANGED vars
    BY <1>2, <2>4 DEF TypeOK, vars, tables
  <2> QED BY <1>2, <2>1, <2>2, <2>3, <2>4 DEF Next
<1> QED BY <1>1, <1>2, PTL DEF Spec

-----------------------------------------------------------------------------
(* What the locks protect *)

Locks == TypeOK /\ Requested /\ Previews /\ KeysAreHeld /\ ScopesAreHeld /\ Authorized /\ RetryIsReplayed

\* A write moves no other write.
LEMMA OthersWait ==
  ASSUME TypeOK, NEW p \in Slots, Write(p)
  PROVE  \A q \in Slots : q # p => pc'[q] = pc[q] /\ msg'[q] = msg[q]
<1>1. CASE Begin(p)
  <2>1. \E label, m :
          /\ pc' = [pc EXCEPT ![p] = label]
          /\ msg' = msg \/ msg' = [msg EXCEPT ![p] = m]
    BY <1>1 DEF Begin, Goto
  <2> QED BY <2>1 DEF TypeOK
<1>2. CASE \E label : Answer(p, label)
  BY <1>2 DEF Answer, Goto, TypeOK
<1> QED BY <1>1, <1>2 DEF Write, LockReceipt, LockScope, Commit, Abort

\* A write that is answered gives up its locks and what it asked for.
LEMMA AnswerEnds ==
  ASSUME TypeOK, NEW p \in Slots, Answer(p, "idle")
  PROVE  pc'[p] = "idle"
  BY DEF Answer, Goto, TypeOK

\* A write that goes on takes its request with it.
LEMMA AnswerGoesOn ==
  ASSUME TypeOK, NEW p \in Slots, NEW label \in Writing, Answer(p, label)
  PROVE  pc'[p] = label /\ msg'[p] = msg[p]
  BY DEF Answer, Goto, TypeOK, Writing

\* What a request is admitted with: a client that may, and a well formed request.
LEMMA BeginAdmits ==
  ASSUME Locks, NEW p \in Slots, Begin(p), pc'[p] \in Writing
  PROVE  /\ WellFormed(msg'[p])
         /\ {"active", Capability(msg'[p])} \subseteq perm[msg'[p].client]
         /\ ~HoldsReceipt(p)' /\ ~HoldsScope(p)'
<1>1. PICK c \in Clients : \E m \in NewRequests(c) \union Repeated(c) :
        /\ Goto(p, Admission(m))
        /\ msg' = IF Admission(m) = "idle" THEN msg ELSE [msg EXCEPT ![p] = m]
  BY DEF Begin
<1>2. PICK m \in NewRequests(c) \union Repeated(c) :
        /\ Goto(p, Admission(m))
        /\ msg' = IF Admission(m) = "idle" THEN msg ELSE [msg EXCEPT ![p] = m]
  BY <1>1
<1>3. pc'[p] = Admission(m) /\ Admission(m) # "idle" /\ msg'[p] = m
  BY <1>2 DEF Goto, Locks, TypeOK, Writing
<1>4. WellFormed(m)
  <2>1. CASE m \in NewRequests(c)
    BY <2>1 DEF NewRequests, WellFormed
  <2>2. CASE \E k \in Keys : m \in receipts[<<c, k>>]
    BY <2>2 DEF Locks, Requested
  <2>3. CASE \E q \in Slots : msg[q].client = c /\ m = msg[q]
    <3>1. PICK q \in Slots : msg[q].client = c /\ m = msg[q]
      BY <2>3
    <3>2. CASE pc[q] \in Writing
      BY <3>1, <3>2 DEF Locks, Requested
    <3>3. CASE pc[q] = "idle"
      BY <3>1, <3>3, ConstantsAssumption DEF Locks, Requested, NoRequest
    <3> QED BY <3>2, <3>3 DEF Locks, TypeOK
  <2> QED BY <1>2, <2>1, <2>2, <2>3 DEF Repeated
<1> DEFINE may == {"active", Capability(m)} \subseteq perm[m.client]
<1>7. Admission(m) = IF ~may \/ m.mode = "neither" THEN "idle"
                     ELSE IF m.mode = "dry_run" THEN "scope" ELSE "receipt"
  BY DEF Admission
<1> HIDE DEF may
<1>8. may
  BY <1>3, <1>7
<1>5. {"active", Capability(m)} \subseteq perm[m.client]
  BY <1>8 DEF may
<1>6. Admission(m) = "receipt" \/ (Admission(m) = "scope" /\ m.mode = "dry_run")
  BY <1>3, <1>7
<1> QED BY <1>3, <1>4, <1>5, <1>6 DEF HoldsReceipt, HoldsScope

\* What a step leaves to the write that took it, if it goes on.
LEMMA GoesOn ==
  ASSUME Locks, NEW p \in Slots, Write(p), pc'[p] \in Writing
  PROVE  \/ Begin(p)
         \/ LockReceipt(p) /\ pc'[p] = "scope" /\ msg'[p] = msg[p]
         \/ LockScope(p) /\ pc'[p] = "commit" /\ msg'[p] = msg[p]
<1>1. CASE LockReceipt(p)
  <2>1. Recorded(p) \in {"idle", "scope"} /\ Answer(p, Recorded(p))
    BY <1>1 DEF LockReceipt, Recorded
  <2> QED BY <1>1, <2>1, AnswerEnds, AnswerGoesOn DEF Locks, Writing
<1>2. CASE LockScope(p)
  <2>1. /\ Verdict(Scope(msg[p].scope), msg[p]) \in {"idle", "commit"}
        /\ Answer(p, Verdict(Scope(msg[p].scope), msg[p]))
    BY <1>2 DEF LockScope, Verdict
  <2> QED BY <1>2, <2>1, AnswerEnds, AnswerGoesOn DEF Locks, Writing
<1>3. CASE Commit(p) \/ Abort(p)
  <2>1. Answer(p, "idle")
    BY <1>3 DEF Commit, Abort
  <2> QED BY <2>1, AnswerEnds DEF Locks, Writing
<1> QED BY <1>1, <1>2, <1>3 DEF Write

\* Only the commit of the request stores a receipt, and it has the key's lock.
LEMMA Stores ==
  ASSUME Locks, NEW p \in Slots, Write(p)
  PROVE  \/ receipts' = receipts
         \/ /\ Commit(p) /\ HoldsReceipt(p) /\ WellFormed(msg[p]) /\ msg[p] \in Request
            /\ receipts' = [receipts EXCEPT ![<<msg[p].client, msg[p].key>>] = {msg[p]}]
<1>1. CASE Commit(p)
  <2>1. WellFormed(msg[p]) /\ msg[p] \in Request
    BY <1>1 DEF Commit, Locks, Requested, TypeOK, Writing
  <2>2. receipts' = [receipts EXCEPT ![<<msg[p].client, msg[p].key>>] = {msg[p]}]
    BY <1>1 DEF Commit
  <2>3. HoldsReceipt(p)
    BY <1>1 DEF Commit, Locks, Previews, HoldsReceipt
  <2> QED BY <1>1, <2>1, <2>2, <2>3
<1>2. CASE ~Commit(p)
  BY <1>2 DEF Write, Begin, LockReceipt, LockScope, Abort, tables
<1> QED BY <1>1, <1>2

\* Steps of writes keep what the locks protect.
LEMMA WriteKeepsLocks == ASSUME Locks, NEW p \in Slots, Write(p) PROVE Locks'
<1>1. TypeOK'
  BY WriteTypes DEF Locks
<1>2. \A q \in Slots : q # p => pc'[q] = pc[q] /\ msg'[q] = msg[q]
  BY OthersWait DEF Locks
<1>3. perm' = perm
  BY DEF Write, Begin, LockReceipt, LockScope, Commit, Abort
<1>4. Requested'
  <2>1. pc'[p] \in Writing => WellFormed(msg'[p])
    BY GoesOn, BeginAdmits DEF Locks, Requested, LockReceipt, LockScope, Writing
  <2>2. pc'[p] = "idle" => msg'[p] = NoRequest
    <3>1. CASE Begin(p)
      <4>1. PICK label, m : /\ pc' = [pc EXCEPT ![p] = label]
                            /\ msg' = IF label = "idle" THEN msg ELSE [msg EXCEPT ![p] = m]
        BY <3>1 DEF Begin, Goto
      <4> QED BY <3>1, <4>1 DEF Begin, Locks, Requested, TypeOK
    <3>2. CASE \E label : Answer(p, label)
      BY <3>2 DEF Answer, Goto, Locks, TypeOK
    <3> QED BY <3>1, <3>2 DEF Write, LockReceipt, LockScope, Commit, Abort
  <2>3. \A k \in Clients \X Keys : \A m \in receipts'[k] : WellFormed(m)
    <3>1. CASE receipts' = receipts
      BY <3>1 DEF Locks, Requested
    <3>2. CASE /\ WellFormed(msg[p])
               /\ receipts' = [receipts EXCEPT ![<<msg[p].client, msg[p].key>>] = {msg[p]}]
      <4>1. \A k \in Clients \X Keys : receipts'[k] = receipts[k] \/ receipts'[k] = {msg[p]}
        BY <3>2 DEF Locks, TypeOK
      <4> QED BY <3>2, <4>1 DEF Locks, Requested
    <3> QED BY <3>1, <3>2, Stores
  <2> QED BY <1>2, <2>1, <2>2, <2>3 DEF Locks, Requested
<1>5. Authorized'
  <2>1. pc'[p] \in Writing => {"active", Capability(msg'[p])} \subseteq perm[msg'[p].client]
    BY GoesOn, BeginAdmits DEF Locks, Authorized, LockReceipt, LockScope, Writing
  <2> QED BY <1>2, <1>3, <2>1 DEF Locks, Authorized
<1>6. KeysAreHeld'
  <2>1. ASSUME NEW q \in Slots, q # p, HoldsReceipt(p)', HoldsReceipt(q)
        PROVE  ~(msg'[p].client = msg[q].client /\ msg'[p].key = msg[q].key)
    BY <2>1, GoesOn, BeginAdmits
       DEF HoldsReceipt, LockReceipt, LockScope, Locks, KeysAreHeld, SameKey, Writing
  <2> QED BY <1>2, <2>1 DEF Locks, KeysAreHeld, HoldsReceipt, SameKey
<1>7. ScopesAreHeld'
  <2>1. ASSUME NEW q \in Slots, q # p, HoldsScope(p)', HoldsScope(q)
        PROVE  msg'[p].scope # msg[q].scope
    BY <2>1, GoesOn, BeginAdmits DEF HoldsScope, LockReceipt, LockScope, Locks, Writing
  <2> QED BY <1>2, <2>1 DEF Locks, ScopesAreHeld, HoldsScope
<1>8. RetryIsReplayed'
  <2>1. ASSUME HoldsReceipt(p)' PROVE receipts'[<<msg'[p].client, msg'[p].key>>] = {}
    <3>1. receipts' = receipts
      BY <2>1, Stores, AnswerEnds DEF Commit, HoldsReceipt, Locks
    <3>2. LockReceipt(p) \/ (LockScope(p) /\ HoldsReceipt(p))
      <4>1. pc'[p] \in Writing /\ ~Begin(p)
        BY <2>1, BeginAdmits DEF HoldsReceipt, Writing
      <4> QED BY <2>1, <4>1, GoesOn DEF HoldsReceipt, LockScope
    <3>3. msg'[p] = msg[p]
      <4>1. pc'[p] \in Writing /\ ~Begin(p)
        BY <2>1, BeginAdmits DEF HoldsReceipt, Writing
      <4> QED BY <4>1, GoesOn
    <3>4. CASE LockReceipt(p)
      <4>1. Recorded(p) = "scope"
        BY <2>1, <3>4, AnswerEnds DEF LockReceipt, Recorded, HoldsReceipt, Locks
      <4> QED BY <3>1, <3>3, <4>1 DEF Recorded
    <3>5. CASE LockScope(p) /\ HoldsReceipt(p)
      BY <3>1, <3>3, <3>5 DEF Locks, RetryIsReplayed
    <3> QED BY <3>2, <3>4, <3>5
  <2>2. ASSUME NEW q \in Slots, q # p, HoldsReceipt(q)
        PROVE  receipts'[<<msg[q].client, msg[q].key>>] = {}
    <3>1. receipts[<<msg[q].client, msg[q].key>>] = {}
      BY <2>2 DEF Locks, RetryIsReplayed
    <3>2. CASE HoldsReceipt(p)
      <4>1. ~SameKey(p, q)
        BY <2>2, <3>2 DEF Locks, KeysAreHeld
      <4>2. CASE receipts' = receipts
        BY <3>1, <4>2
      <4>3. CASE /\ msg[p] \in Request
                 /\ receipts' = [receipts EXCEPT ![<<msg[p].client, msg[p].key>>] = {msg[p]}]
        <5>1. <<msg[q].client, msg[q].key>> \in Clients \X Keys
          <6>1. msg[q] \in Request
            BY <2>2 DEF HoldsReceipt, Locks, TypeOK, Writing
          <6> QED BY <6>1 DEF Request
        <5>2. <<msg[q].client, msg[q].key>> # <<msg[p].client, msg[p].key>>
          BY <4>1 DEF SameKey
        <5> QED BY <3>1, <4>3, <5>1, <5>2 DEF Locks, TypeOK
      <4> QED BY <4>2, <4>3, Stores
    <3>3. CASE ~HoldsReceipt(p)
      BY <3>1, <3>3, Stores
    <3> QED BY <3>2, <3>3
  <2> QED BY <1>2, <2>1, <2>2 DEF RetryIsReplayed, HoldsReceipt
<1>9. Previews'
  <2>1. ASSUME pc'[p] = "commit" PROVE msg'[p].mode # "dry_run"
    <3>1. LockScope(p) /\ msg'[p] = msg[p]
      BY <2>1, GoesOn, BeginAdmits DEF HoldsScope, LockReceipt, LockScope, Writing
    <3>2. Verdict(Scope(msg[p].scope), msg[p]) = "commit" /\ WellFormed(msg[p])
      BY <2>1, <3>1, AnswerEnds DEF LockScope, Verdict, Locks, Requested, Writing
    <3> QED BY <3>1, <3>2 DEF Verdict, WellFormed
  <2> QED BY <1>2, <2>1 DEF Locks, Previews
<1> QED BY <1>1, <1>4, <1>5, <1>6, <1>7, <1>8, <1>9 DEF Locks

\* Nothing is locked in an initial state.
LEMMA InitialLocks == ASSUME Init PROVE Locks
  BY InitialTypes DEF Init, Locks, Requested, Previews, KeysAreHeld, ScopesAreHeld,
     Authorized, RetryIsReplayed, HoldsReceipt, HoldsScope, Writing

\* No step releases a lock of a write in progress or takes its receipt away.
LEMMA LocksStep == ASSUME Locks, [Next]_vars PROVE Locks'
<1>1. CASE \E p \in Slots : Write(p)
  BY <1>1, WriteKeepsLocks
<1>2. ASSUME UNCHANGED <<receipts, pc, msg>>, TypeOK', Authorized' PROVE Locks'
  BY <1>2 DEF Locks, Requested, Previews, KeysAreHeld, ScopesAreHeld, RetryIsReplayed,
     HoldsReceipt, HoldsScope, SameKey
<1>3. CASE \E c \in Clients : ReadScope(c)
  <2>1. UNCHANGED <<receipts, pc, msg, perm>>
    BY <1>3 DEF ReadScope, ReadRecords, ReadEdges, ReadAgain, Show, tables
  <2>2. Authorized'
    BY <2>1 DEF Locks, Authorized
  <2> QED BY <1>2, <1>3, <2>1, <2>2, ReadTypes DEF Locks
<1>4. ASSUME NEW c \in Clients, Provision(c) PROVE Locks'
  <2>1. TypeOK'
    BY <1>4, ConstantsAssumption DEF Provision, TypeOK, tables, Locks
  <2>2. UNCHANGED <<receipts, pc, msg>>
    BY <1>4 DEF Provision, tables
  <2>3. ASSUME NEW p \in Slots, pc[p] \in Writing PROVE perm'[msg[p].client] = perm[msg[p].client]
    <3>1. msg[p].client # c
      BY <1>4, <2>3 DEF Provision, Pinned, Writing
    <3>2. msg[p].client \in Clients
      BY <2>3 DEF Locks, TypeOK, Request
    <3> QED BY <1>4, <3>1, <3>2 DEF Provision, Locks, TypeOK
  <2>4. Authorized'
    BY <2>2, <2>3 DEF Locks, Authorized
  <2> QED BY <1>2, <2>1, <2>2, <2>4
<1>5. CASE UNCHANGED vars
  BY <1>2, <1>5 DEF vars, tables, Locks, TypeOK, Authorized
<1> QED BY <1>1, <1>3, <1>4, <1>5 DEF Next

\* The locks hold in every state.
LEMMA LocksHold == Spec => []Locks
<1>1. Init => Locks
  BY InitialLocks
<1>2. Locks /\ [Next]_vars => Locks'
  BY LocksStep
<1> QED BY <1>1, <1>2, PTL DEF Spec

\* A repeated request is answered from its receipt: no write past the lock of its
\* key has one, however often and in however many slots it is repeated.
THEOREM RetriesAreReplayed == Spec => []RetryIsReplayed
<1>1. Locks => RetryIsReplayed
  BY DEF Locks
<1> QED BY <1>1, LocksHold, PTL

\* A write that commits is still permitted, because the rows that say so are
\* locked from its admission on.
THEOREM RevocationHolds == Spec => RevokedNeverWrites
<1>1. ASSUME Locks, [Next]_vars
      PROVE  [\A p \in Slots : Applies(p) =>
                {"active", Capability(msg[p])} \subseteq perm[msg[p].client]]_vars
  BY <1>1 DEF Locks, Authorized, Applies, Writing
<1> QED BY <1>1, LocksHold, PTL DEF Spec, RevokedNeverWrites

-----------------------------------------------------------------------------
(* The graph *)

Joined ==
    \A e \in edges : rows[e[1]] # NoRow /\ rows[e[2]] # NoRow
                        /\ rows[e[1]].scope = rows[e[2]].scope

Guarded == Locks /\ GuardsHold /\ Joined /\ \A s \in Scopes : Acyclic(Scope(s).edges)

\* An edge from a to b closes no cycle if b did not reach a before.  Of the sets
\* that show this for b and for an older edge, one, their union or their
\* intersection shows it for the older edge once the new one is there.
LEMMA NoCycleIsClosed ==
  ASSUME NEW E \in SUBSET (Records \X Records), NEW a \in Records, NEW b \in Records,
         Acyclic(E), ~Reaches(E, b, a)
  PROVE  Acyclic(E \union {<<a, b>>})
<1> DEFINE F == E \union {<<a, b>>}
           Closed(D, S) == \A e \in D : e[1] \in S => e[2] \in S
<1>1. PICK B \in SUBSET Records : b \in B /\ Closed(E, B) /\ a \notin B
  BY DEF Reaches
<1>2. Closed(F, B)
  BY <1>1
<1>3. \A e \in F : e[1] \in Records /\ e[2] \in Records
  OBVIOUS
<1>4. ASSUME NEW e \in F
      PROVE  \E S \in SUBSET Records : e[2] \in S /\ Closed(F, S) /\ e[1] \notin S
  <2>1. CASE e = <<a, b>>
    BY <1>1, <1>2, <2>1
  <2>2. CASE e \in E
    <3>1. PICK S \in SUBSET Records : e[2] \in S /\ Closed(E, S) /\ e[1] \notin S
      BY <2>2 DEF Acyclic, Reaches
    <3>2. CASE a \notin S
      BY <3>1, <3>2
    <3>3. CASE a \in S /\ e[1] \notin B
      <4>1. Closed(F, S \union B) /\ e[2] \in S \union B /\ e[1] \notin S \union B
        BY <1>1, <3>1, <3>3
      <4> QED BY <4>1
    <3>4. CASE e[1] \in B
      <4>1. Closed(F, S \intersect B) /\ e[2] \in S \intersect B /\ e[1] \notin S \intersect B
        BY <1>1, <2>2, <3>1, <3>4
      <4> QED BY <4>1
    <3> QED BY <3>2, <3>3, <3>4
  <2> QED BY <2>1, <2>2
<1> HIDE DEF F
<1>5. \A e \in F : ~Reaches(F, e[2], e[1])
  BY <1>4 DEF Reaches
<1> QED BY <1>5 DEF Acyclic, F

\* What commits is valid in the scope it is for.
LEMMA CommitIsValid ==
  ASSUME Guarded, NEW p \in Slots, Commit(p)
  PROVE  /\ msg[p] \in Request
         /\ msg[p].op # Creation => rows[msg[p].rec].scope = msg[p].scope
         /\ msg[p].op = "supersede_authority_record" =>
              ValidSupersession(Scope(msg[p].scope), msg[p].rec, msg[p].pred)
<1>1. msg[p] \in Request
  BY DEF Commit, Guarded, Locks, TypeOK, Writing
<1>2. msg[p].op # Creation => Valid(Scope(msg[p].scope), msg[p])
  BY DEF Commit, Guarded, GuardsHold
<1>3. msg[p].op = "supersede_authority_record" =>
        ValidSupersession(Scope(msg[p].scope), msg[p].rec, msg[p].pred)
  BY <1>2 DEF Valid, Creation
<1>4. msg[p].op # Creation => Known(Scope(msg[p].scope), msg[p].rec)
  BY <1>2, <1>3 DEF Valid, ValidSupersession
<1>5. Known(Scope(msg[p].scope), msg[p].rec) => rows[msg[p].rec].scope = msg[p].scope
  BY <1>1 DEF Known, Scope, RowsOf, Request
<1> QED BY <1>1, <1>3, <1>4, <1>5

\* A record keeps its scope.
LEMMA ScopesStay ==
  ASSUME Guarded, NEW p \in Slots, Commit(p)
  PROVE  /\ rows' = [rows EXCEPT ![msg[p].rec] =
                       [scope |-> msg[p].scope, status |-> NewStatus(msg[p])]]
         /\ msg[p].scope \in Scopes /\ msg[p].rec \in Records
         /\ msg[p].op = Creation => rows[msg[p].rec] = NoRow
         /\ \A r \in Records : rows[r] # NoRow =>
              rows'[r] # NoRow /\ rows'[r].scope = rows[r].scope
<1>1. /\ msg[p].scope \in Scopes /\ msg[p].rec \in Records
      /\ msg[p].op # Creation => rows[msg[p].rec].scope = msg[p].scope
  BY CommitIsValid DEF Request
<1>2. /\ rows' = [rows EXCEPT ![msg[p].rec] =
                    [scope |-> msg[p].scope, status |-> NewStatus(msg[p])]]
      /\ msg[p].op = Creation => rows[msg[p].rec] = NoRow
  BY DEF Commit
<1>3. msg[p].scope # "none"
  BY <1>1, ConstantsAssumption
<1> QED BY <1>1, <1>2, <1>3 DEF Guarded, Locks, TypeOK, NoRow

\* A commit changes nothing in other scopes.
LEMMA OtherScopesStay ==
  ASSUME Guarded, NEW p \in Slots, Commit(p), NEW s \in Scopes, s # msg[p].scope
  PROVE  Scope(s)' = Scope(s)
<1>1. s # "none" /\ NoRow.scope = "none"
  BY ConstantsAssumption DEF NoRow
<1>2. rows[msg[p].rec].scope # s
  BY <1>1, CommitIsValid, ScopesStay
<1>3. RowsOf(s)' = RowsOf(s)
  <2>1. rows' = [rows EXCEPT ![msg[p].rec] =
                   [scope |-> msg[p].scope, status |-> NewStatus(msg[p])]]
    BY ScopesStay
  <2>2. \A r \in Records : r # msg[p].rec => rows'[r] = rows[r]
    BY <2>1 DEF Guarded, Locks, TypeOK
  <2>3. rows'[msg[p].rec].scope = msg[p].scope
    BY <2>1, ScopesStay DEF Guarded, Locks, TypeOK
  <2>4. \A r \in Records : (IF rows'[r].scope = s THEN rows'[r].status ELSE "absent")
                            = (IF rows[r].scope = s THEN rows[r].status ELSE "absent")
    BY <1>2, <2>2, <2>3
  <2> QED BY <2>4 DEF RowsOf
<1>4. RowsOf(s)[msg[p].rec] = "absent"
  BY <1>2, ScopesStay DEF RowsOf
<1>5. edges' = edges \/ edges' = edges \union {<<msg[p].rec, msg[p].pred>>}
  BY DEF Commit
<1>6. {e \in edges' : RowsOf(s)[e[1]] # "absent" /\ RowsOf(s)[e[2]] # "absent"}
        = {e \in edges : RowsOf(s)[e[1]] # "absent" /\ RowsOf(s)[e[2]] # "absent"}
  BY <1>4, <1>5
<1> QED BY <1>3, <1>6 DEF Scope, EdgesAmong

\* In its own scope it adds the edge of a supersession and no other.
LEMMA OwnScopeGrows ==
  ASSUME Guarded, NEW p \in Slots, Commit(p), NEW s \in Scopes, s = msg[p].scope
  PROVE  (Scope(s).edges)' = IF msg[p].op = "supersede_authority_record"
                               THEN Scope(s).edges \union {<<msg[p].rec, msg[p].pred>>}
                               ELSE Scope(s).edges
<1> DEFINE In(r)    == rows[r].scope = s
           after(r) == IF rows'[r].scope = s THEN rows'[r].status ELSE "absent"
<1>1. s # "none" /\ NoRow.scope = "none"
  BY ConstantsAssumption DEF NoRow
<1>2. \A r \in Records : RowsOf(s)[r] # "absent" <=> In(r)
  BY <1>1 DEF RowsOf, Guarded, Locks, TypeOK, Row, Lifecycle, NoRow
<1>3. NewStatus(msg[p]) # "absent"
  BY DEF NewStatus
<1>4. \A r \in Records : after(r) # "absent" <=> In(r) \/ r = msg[p].rec
  <2>1. rows' = [rows EXCEPT ![msg[p].rec] = [scope |-> s, status |-> NewStatus(msg[p])]]
    BY ScopesStay
  <2>2. after(msg[p].rec) # "absent"
    BY <1>3, <2>1, ScopesStay DEF Guarded, Locks, TypeOK
  <2>3. \A r \in Records : r # msg[p].rec => after(r) = RowsOf(s)[r]
    BY <2>1 DEF RowsOf, Guarded, Locks, TypeOK
  <2> QED BY <1>2, <2>2, <2>3
<1>5. \A e \in edges : e[1] \in Records /\ e[2] \in Records
  BY DEF Guarded, Locks, TypeOK
<1>6. Scope(s).edges = {e \in edges : In(e[1]) /\ In(e[2])}
  BY <1>2, <1>5 DEF Scope, EdgesAmong
<1>7. (Scope(s).edges)' = {e \in edges' : RowsOf(s)'[e[1]] # "absent" /\ RowsOf(s)'[e[2]] # "absent"}
  BY DEF Scope, EdgesAmong
<1>8. \A e \in edges' : e[1] \in Records /\ e[2] \in Records
  BY WriteTypes DEF Guarded, Locks, Write, TypeOK
<1>9. \A r \in Records : RowsOf(s)'[r] = after(r)
  BY DEF RowsOf
<1>10. (Scope(s).edges)' =
          {e \in edges' : (In(e[1]) \/ e[1] = msg[p].rec) /\ (In(e[2]) \/ e[2] = msg[p].rec)}
  BY <1>4, <1>7, <1>8, <1>9
<1> HIDE DEF after
<1>11. CASE msg[p].op = "supersede_authority_record"
  <2>1. edges' = edges \union {<<msg[p].rec, msg[p].pred>>}
    BY <1>11 DEF Commit
  <2>2. In(msg[p].rec) /\ msg[p].pred \in Records
    BY <1>11, CommitIsValid DEF Creation, Request
  <2>3. In(msg[p].pred)
    BY <1>2, <1>11, <2>2, CommitIsValid DEF ValidSupersession, Known, Scope
  <2> QED BY <1>6, <1>10, <1>11, <2>1, <2>2, <2>3
<1>12. CASE msg[p].op # "supersede_authority_record" /\ msg[p].op # Creation
  <2>1. edges' = edges /\ In(msg[p].rec)
    BY <1>12, CommitIsValid DEF Commit
  <2> QED BY <1>6, <1>10, <1>12, <2>1
<1>13. CASE msg[p].op = Creation
  <2>1. edges' = edges
    BY <1>13 DEF Commit, Creation
  <2>2. \A e \in edges : e[1] # msg[p].rec /\ e[2] # msg[p].rec
    BY <1>13, ScopesStay DEF Guarded, Joined
  <2> QED BY <1>6, <1>10, <1>13, <2>1, <2>2 DEF Creation
<1> QED BY <1>11, <1>12, <1>13

\* A commit keeps edges inside scopes, scopes acyclic and other guards true.
LEMMA CommitKeeps == ASSUME Guarded, NEW p \in Slots, Commit(p) PROVE Guarded'
<1>1. Locks'
  BY WriteKeepsLocks DEF Guarded, Write
<1>2. GuardsHold'
  <2>1. ASSUME NEW q \in Slots, pc'[q] = "commit"
        PROVE  /\ q # p /\ pc[q] = "commit" /\ msg'[q] = msg[q]
               /\ msg[q].scope \in Scopes /\ msg[q].scope # msg[p].scope
    <3>1. q # p /\ pc[q] = "commit" /\ msg'[q] = msg[q]
      BY <2>1, AnswerEnds, OthersWait DEF Commit, Guarded, Locks, Write
    <3>2. msg[q] \in Request
      BY <3>1 DEF Guarded, Locks, TypeOK, Writing
    <3> QED BY <3>1, <3>2 DEF Commit, Guarded, Locks, ScopesAreHeld, HoldsScope, Request
  <2>2. ASSUME NEW q \in Slots, pc'[q] = "commit", msg'[q].op # Creation
        PROVE  /\ Scope(msg[q].scope)' = msg'[q].expect
               /\ Valid(Scope(msg[q].scope)', msg'[q])
    <3>1. PICK s \in Scopes : s = msg[q].scope
      BY <2>1, <2>2
    <3>2. Scope(s)' = Scope(s) /\ Scope(s) = msg[q].expect /\ Valid(Scope(s), msg[q])
      BY <2>1, <2>2, <3>1, OtherScopesStay DEF Guarded, GuardsHold
    <3>3. Scope(msg[q].scope)' = Scope(s)'
      BY <2>1, <2>2, <3>1
    <3> QED BY <2>1, <2>2, <3>2, <3>3
  <2> QED BY <2>2 DEF GuardsHold
<1>3. Joined'
  <2>1. ASSUME NEW e \in edges
        PROVE  rows'[e[1]] # NoRow /\ rows'[e[2]] # NoRow /\ rows'[e[1]].scope = rows'[e[2]].scope
    BY ScopesStay DEF Guarded, Joined, Locks, TypeOK
  <2>2. CASE msg[p].op = "supersede_authority_record"
    <3>1. /\ rows[msg[p].rec].scope = msg[p].scope
          /\ ValidSupersession(Scope(msg[p].scope), msg[p].rec, msg[p].pred)
          /\ msg[p] \in Request
      BY <2>2, CommitIsValid DEF Creation
    <3>2. rows[msg[p].pred].scope = msg[p].scope
      BY <3>1 DEF ValidSupersession, Known, Scope, RowsOf, Request
    <3>3. rows[msg[p].rec] # NoRow /\ rows[msg[p].pred] # NoRow
      <4>1. msg[p].scope # "none" /\ NoRow.scope = "none"
        BY ScopesStay, ConstantsAssumption DEF NoRow
      <4> QED BY <3>1, <3>2, <4>1
    <3>4. /\ rows'[msg[p].rec] # NoRow /\ rows'[msg[p].pred] # NoRow
          /\ rows'[msg[p].rec].scope = rows'[msg[p].pred].scope
      BY <3>1, <3>2, <3>3, ScopesStay DEF Request
    <3> QED BY <2>1, <2>2, <3>4 DEF Joined, Commit
  <2>3. CASE msg[p].op # "supersede_authority_record"
    BY <2>1, <2>3 DEF Joined, Commit
  <2> QED BY <2>2, <2>3
<1>4. ASSUME NEW s \in Scopes PROVE Acyclic((Scope(s).edges)')
  <2>1. Acyclic(Scope(s).edges) /\ Scope(s).edges \in SUBSET (Records \X Records)
    BY ScopeType DEF Guarded, Locks, Graph
  <2>2. CASE s # msg[p].scope
    BY <2>1, <2>2, OtherScopesStay
  <2>3. CASE s = msg[p].scope /\ msg[p].op = "supersede_authority_record"
    <3>1. /\ ~Reaches(Scope(s).edges, msg[p].pred, msg[p].rec)
          /\ msg[p].rec \in Records /\ msg[p].pred \in Records
      BY <2>3, CommitIsValid DEF ValidSupersession, WouldCycle, Request
    <3>2. Acyclic(Scope(s).edges \union {<<msg[p].rec, msg[p].pred>>})
      BY <2>1, <3>1, NoCycleIsClosed
    <3> QED BY <2>3, <3>2, OwnScopeGrows
  <2>4. CASE s = msg[p].scope /\ msg[p].op # "supersede_authority_record"
    BY <2>1, <2>4, OwnScopeGrows
  <2> QED BY <2>2, <2>3, <2>4
<1> QED BY <1>1, <1>2, <1>3, <1>4 DEF Guarded, Acyclic, Reaches

\* Only a commit writes the graph.
LEMMA OnlyCommitsWrite ==
  ASSUME [Next]_vars
  PROVE  (\E p \in Slots : Commit(p)) \/ UNCHANGED <<rows, edges>>
  BY DEF Next, Write, Begin, LockReceipt, LockScope, Abort, ReadScope, ReadRecords, ReadEdges,
     ReadAgain, Show, Provision, vars, tables

\* A write is in front of its commit because it was, or because it took its scope.
LEMMA Reaching ==
  ASSUME Locks, [Next]_vars, NEW q \in Slots, pc'[q] = "commit"
  PROVE  msg'[q] = msg[q] /\ (pc[q] = "commit" \/ LockScope(q))
<1>1. ASSUME NEW p \in Slots, Write(p)
      PROVE  msg'[q] = msg[q] /\ (pc[q] = "commit" \/ LockScope(q))
  <2>1. CASE q # p
    BY <1>1, <2>1, OthersWait DEF Locks
  <2>2. CASE q = p
    <3>1. ~Begin(p)
      BY <2>2, BeginAdmits DEF HoldsScope, Writing
    <3> QED BY <1>1, <2>2, <3>1, GoesOn DEF Writing
  <2> QED BY <2>1, <2>2
<1>2. CASE UNCHANGED <<pc, msg>>
  BY <1>2
<1> QED BY <1>1, <1>2 DEF Next, ReadScope, ReadRecords, ReadEdges, ReadAgain, Show, Provision,
       vars, tables

\* The guards of a write still hold when it commits, and no order of commits
\* closes a cycle, for any number of clients that supersede at the same time.
LEMMA GuardedHolds == Spec => []Guarded
<1>1. ASSUME Init PROVE Guarded
  BY <1>1, InitialLocks DEF Init, Guarded, GuardsHold, Joined, Acyclic, Scope, EdgesAmong
<1>2. ASSUME Guarded, [Next]_vars PROVE Guarded'
  <2>1. Locks'
    BY <1>2, LocksStep DEF Guarded
  <2>2. CASE \E p \in Slots : Commit(p)
    BY <1>2, <2>2, CommitKeeps
  <2>3. CASE UNCHANGED <<rows, edges>>
    <3>2. GuardsHold'
      <4>1. ASSUME NEW q \in Slots, pc'[q] = "commit", msg'[q].op # Creation
            PROVE  Scope(msg'[q].scope) = msg'[q].expect /\ Valid(Scope(msg'[q].scope), msg'[q])
        <5>1. CASE pc[q] = "commit" /\ msg'[q] = msg[q]
          BY <1>2, <4>1, <5>1 DEF Guarded, GuardsHold
        <5>2. CASE LockScope(q) /\ msg'[q] = msg[q]
          <6>1. Verdict(Scope(msg[q].scope), msg[q]) = "commit"
            BY <1>2, <4>1, <5>2, AnswerEnds DEF LockScope, Verdict, Guarded, Locks
          <6> QED BY <4>1, <5>2, <6>1 DEF Verdict
        <5> QED BY <1>2, <4>1, <5>1, <5>2, Reaching DEF Guarded
      <4> QED BY <2>3, <4>1 DEF GuardsHold, Scope, RowsOf, EdgesAmong
    <3>3. Joined'
      BY <1>2, <2>3 DEF Guarded, Joined
    <3>4. ASSUME NEW s \in Scopes PROVE Acyclic(Scope(s).edges)'
      BY <1>2, <2>3 DEF Guarded, Scope, RowsOf, EdgesAmong, Acyclic, Reaches
    <3> QED BY <2>1, <3>2, <3>3, <3>4 DEF Guarded
  <2> QED BY <1>2, <2>2, <2>3, OnlyCommitsWrite
<1> QED BY <1>1, <1>2, PTL DEF Spec

\* Supersession stays inside one scope and never closes a cycle.
THEOREM SupersessionNeverCycles == Spec => []SupersessionIsAcyclic
<1>1. Guarded => SupersessionIsAcyclic
  BY DEF Guarded, Joined, SupersessionIsAcyclic
<1> QED BY <1>1, GuardedHolds, PTL

\* A guarded mutation is applied to exactly the state whose digest it names, and
\* is valid there, although other writes commit while it runs.
THEOREM AppliedToTheDigest ==
  Spec => [][\A p \in Slots : Applies(p) /\ msg[p].op # Creation =>
               Scope(msg[p].scope) = msg[p].expect /\ Valid(Scope(msg[p].scope), msg[p])]_vars
<1>1. ASSUME Guarded, [Next]_vars
      PROVE  [\A p \in Slots : Applies(p) /\ msg[p].op # Creation =>
                Scope(msg[p].scope) = msg[p].expect /\ Valid(Scope(msg[p].scope), msg[p])]_vars
  BY <1>1 DEF Guarded, GuardsHold, Applies
<1> QED BY <1>1, GuardedHolds, PTL DEF Spec


-----------------------------------------------------------------------------
(***************************************************************************)
(* What a client is shown.  A read holds no lock and takes four            *)
(* statements, but statuses only rise and edges are only added: what is    *)
(* found again at the commit was so at every statement in between.         *)
(***************************************************************************)

\* Ranks are numbers, so one record after another can be compared.
LEMMA RankType == \A status : Rank(status) \in 0..3
BY DEF Rank

\* Later is transitive.
LEMMA LaterStill ==
  ASSUME NEW a, NEW b, NEW c, Later(a, b), Later(b, c)
  PROVE  Later(a, c)
<1>1. ASSUME NEW r \in Records PROVE Rank(a[r]) <= Rank(c[r])
  <2>1. Rank(a[r]) <= Rank(b[r]) /\ Rank(b[r]) <= Rank(c[r])
    BY DEF Later
  <2>2. Rank(a[r]) \in 0..3 /\ Rank(b[r]) \in 0..3 /\ Rank(c[r]) \in 0..3
    BY RankType
  <2> QED BY <2>1, <2>2
<1> QED BY <1>1 DEF Later

\* Statuses are not earlier than themselves.
LEMMA LaterOrSame == \A a : Later(a, a)
<1>1. \A a, r : Rank(a[r]) <= Rank(a[r])
  BY RankType
<1> QED BY <1>1 DEF Later

\* Of later statuses no record is missing, so no edge is.
LEMMA AmongGrows ==
  ASSUME TypeOK, NEW a \in ReadStatuses, NEW b \in ReadStatuses, Later(a, b)
  PROVE  EdgesAmong(a) \subseteq EdgesAmong(b)
<1>1. ASSUME NEW r \in Records, a[r] # "absent" PROVE b[r] # "absent"
  <2>1. Rank(a[r]) <= Rank(b[r]) /\ a[r] \in Lifecycle
    BY <1>1 DEF Later, ReadStatuses
  <2>2. Rank(a[r]) \in 1..3
    BY <2>1 DEF Rank, Lifecycle
  <2>3. Rank("absent") = 0
    BY DEF Rank
  <2> QED BY <2>1, <2>2, <2>3
<1>2. \A e \in edges : e[1] \in Records /\ e[2] \in Records
  BY DEF TypeOK
<1> QED BY <1>1, <1>2 DEF EdgesAmong

\* What a statement reads is a reading.
LEMMA RowsAreRead ==
  ASSUME TypeOK, NEW s \in Scopes
  PROVE  RowsOf(s) \in ReadStatuses
<1>1. \A r \in Records : rows[r] \in Row \/ rows[r] = NoRow
  BY DEF TypeOK
<1>2. s # "none"
  BY ConstantsAssumption
<1> QED BY <1>1, <1>2 DEF RowsOf, ReadStatuses, Row, NoRow

\* A commit raises the status of its record.
LEMMA CommitRaises ==
  ASSUME Guarded, NEW p \in Slots, Commit(p), NEW s \in Scopes
  PROVE  Later(RowsOf(s), RowsOf(s)')
<1>1. CASE s # msg[p].scope
  <2>1. RowsOf(s)' = RowsOf(s)
    BY <1>1, OtherScopesStay DEF Scope
  <2> QED BY <2>1, LaterOrSame
<1>2. CASE s = msg[p].scope
  <2> DEFINE rec == msg[p].rec
  <2>1. /\ rows \in [Records -> Row \union {NoRow}]
        /\ rows' = [rows EXCEPT ![rec] = [scope |-> s, status |-> NewStatus(msg[p])]]
        /\ rec \in Records
    BY <1>2, ScopesStay DEF Guarded, Locks, TypeOK
  <2>2. /\ \A r \in Records : r # rec => RowsOf(s)'[r] = RowsOf(s)[r]
        /\ RowsOf(s)'[rec] = NewStatus(msg[p])
    <3>1. \A r \in Records : RowsOf(s)'[r] = IF rows'[r].scope = s THEN rows'[r].status
                                                                  ELSE "absent"
      BY DEF RowsOf
    <3>2. \A r \in Records : r # rec => rows'[r] = rows[r]
      BY <2>1
    <3>3. rows'[rec].scope = s /\ rows'[rec].status = NewStatus(msg[p])
      BY <2>1
    <3> QED BY <2>1, <3>1, <3>2, <3>3 DEF RowsOf
  <2>3. Rank(RowsOf(s)[rec]) <= Rank(NewStatus(msg[p]))
    <3>1. CASE msg[p].op = Creation
      <4>1. RowsOf(s)[rec] = "absent"
        <5>1. rows[rec] = NoRow /\ s # "none"
          BY <3>1, ScopesStay, ConstantsAssumption
        <5> QED BY <2>1, <5>1 DEF RowsOf, NoRow
      <4>2. Rank("absent") = 0 /\ Rank(NewStatus(msg[p])) \in 0..3
        BY RankType DEF Rank
      <4> QED BY <4>1, <4>2
    <3>2. CASE msg[p].op \in {"activate_authority_record", "supersede_authority_record"}
      <4>1. ~Blocked(Scope(s), rec)
        <5>1. Valid(Scope(s), msg[p])
          BY <1>2, <3>2 DEF Commit, Guarded, GuardsHold, Creation
        <5> QED BY <3>2, <5>1 DEF Valid, ValidSupersession
      <4>2. RowsOf(s)[rec] \in {"absent", "proposed", "active"}
        BY <1>2, <2>1, <4>1, RowsAreRead
           DEF Blocked, Scope, ReadStatuses, Lifecycle, Guarded, Locks
      <4>3. NewStatus(msg[p]) = "active"
        BY <3>2 DEF NewStatus, Creation
      <4> QED BY <4>2, <4>3 DEF Rank
    <3>3. CASE msg[p].op \in {"withdraw_authority_record", "mark_authority_disputed"}
      <4>1. NewStatus(msg[p]) \in {"withdrawn", "disputed"}
        BY <3>3 DEF NewStatus, Creation
      <4>2. Rank(NewStatus(msg[p])) = 3
        BY <4>1 DEF Rank
      <4> QED BY <4>2, RankType
    <3> QED BY <3>1, <3>2, <3>3, CommitIsValid DEF Request, Mutations
  <2>4. \A r \in Records : r # rec => Rank(RowsOf(s)[r]) <= Rank(RowsOf(s)'[r])
    BY <2>2, RankType
  <2> QED BY <2>2, <2>3, <2>4 DEF Later
<1> QED BY <1>1, <1>2

\* A record that was withdrawn, disputed or superseded (authority/service.py,
\* activate_record, supersede) never carries authority again, however many
\* clients write at once.
THEOREM RetirementIsFinal == Spec => RetiredStaysRetired
<1>1. ASSUME Guarded, NEW p \in Slots, Commit(p), NEW r \in Records, Retired(r)
      PROVE  Retired(r)'
  <2>1. CASE \E e \in edges : e[2] = r
    <3>1. edges \subseteq edges'
      BY <1>1 DEF Commit
    <3> QED BY <2>1, <3>1 DEF Retired
  <2>2. CASE rows[r].status \in {"withdrawn", "disputed"}
    <3>1. PICK s \in Scopes : rows[r].scope = s
      BY <1>1, <2>2 DEF Guarded, Locks, TypeOK, Row, NoRow
    <3>2. Rank(RowsOf(s)[r]) = 3
      BY <2>2, <3>1 DEF RowsOf, Rank
    <3>3. Rank(RowsOf(s)[r]) <= Rank(RowsOf(s)'[r]) /\ Rank(RowsOf(s)'[r]) \in 0..3
      BY <1>1, <3>1, CommitRaises, RankType DEF Later
    <3>4. Rank(RowsOf(s)'[r]) = 3
      BY <3>2, <3>3
    <3>5. TypeOK'
      BY <1>1, WriteTypes DEF Guarded, Locks, Write
    <3>6. RowsOf(s)' \in ReadStatuses
      <4>1. s # "none" /\ \A x \in Records : rows'[x] \in Row \/ rows'[x] = NoRow
        BY <3>5, ConstantsAssumption DEF TypeOK
      <4> QED BY <4>1 DEF RowsOf, ReadStatuses, Row, NoRow
    <3>7. RowsOf(s)'[r] \in {"withdrawn", "disputed"}
      BY <3>4, <3>6 DEF ReadStatuses, Lifecycle, Rank
    <3>8. rows'[r].status = RowsOf(s)'[r]
      BY <3>7 DEF RowsOf
    <3> QED BY <3>7, <3>8 DEF Retired
  <2> QED BY <1>1, <2>1, <2>2 DEF Retired
<1>2. ASSUME Guarded, [Next]_vars
      PROVE  [\A r \in Records : Retired(r) => Retired(r)']_vars
  <2>1. CASE \E p \in Slots : Commit(p)
    BY <1>1, <1>2, <2>1
  <2>2. CASE UNCHANGED <<rows, edges>>
    BY <2>2 DEF Retired
  <2> QED BY <1>2, <2>1, <2>2, OnlyCommitsWrite
<1> QED BY <1>2, GuardedHolds, PTL DEF Spec, RetiredStaysRetired

\* No step lowers a status or removes an edge.
LEMMA TablesRise ==
  ASSUME Guarded, [Next]_vars, NEW s \in Scopes
  PROVE  Later(RowsOf(s), RowsOf(s)') /\ edges \subseteq edges'
<1>1. CASE \E p \in Slots : Commit(p)
  <2>1. PICK p \in Slots : Commit(p)
    BY <1>1
  <2> QED BY <2>1, CommitRaises DEF Commit
<1>2. CASE UNCHANGED <<rows, edges>>
  <2>1. RowsOf(s)' = RowsOf(s)
    BY <1>2 DEF RowsOf
  <2> QED BY <1>2, <2>1, LaterOrSame
<1> QED BY <1>1, <1>2, OnlyCommitsWrite

\* A graph that a scope has grown from, it has still grown from after a step.
LEMMA GrownFrom ==
  ASSUME Guarded, Guarded', [Next]_vars, NEW s \in Scopes, NEW g, Grows(g, Scope(s))
  PROVE  Grows(g, Scope(s)')
<1>1. Later(RowsOf(s), RowsOf(s)') /\ edges \subseteq edges'
  BY TablesRise
<1>2. TypeOK /\ TypeOK'
  BY DEF Guarded, Locks
<1>3. RowsOf(s) \in ReadStatuses /\ RowsOf(s)' \in ReadStatuses
  <2>1. \A r \in Records : rows'[r] \in Row \/ rows'[r] = NoRow
    BY <1>2 DEF TypeOK
  <2>2. s # "none"
    BY ConstantsAssumption
  <2>3. RowsOf(s)' \in ReadStatuses
    BY <2>1, <2>2 DEF RowsOf, ReadStatuses, Row, NoRow
  <2> QED BY <1>2, <2>3, RowsAreRead
<1>4. EdgesAmong(RowsOf(s)) \subseteq EdgesAmong(RowsOf(s)')
  BY <1>1, <1>2, <1>3, AmongGrows
<1>5. Scope(s).edges \subseteq (Scope(s)').edges
  BY <1>1, <1>4 DEF Scope, EdgesAmong
<1>6. Later(g.rows, RowsOf(s)) /\ g.edges \subseteq Scope(s).edges
  BY DEF Grows, Scope
<1>7. Later(g.rows, RowsOf(s)')
  BY <1>1, <1>6, LaterStill
<1> QED BY <1>5, <1>6, <1>7 DEF Grows, Scope

\* A graph that lies between a scope and itself shows the same records.
LEMMA Between ==
  ASSUME NEW d \in Graph, NEW g \in Graph, Grows(d, g), Grows(g, d)
  PROVE  Eligible(g) = Eligible(d)
<1>1. g.edges = d.edges
  BY DEF Grows
<1>2. ASSUME NEW r \in Records PROVE g.rows[r] = "active" <=> d.rows[r] = "active"
  <2>1. Rank(g.rows[r]) = Rank(d.rows[r])
    <3>1. Rank(g.rows[r]) <= Rank(d.rows[r]) /\ Rank(d.rows[r]) <= Rank(g.rows[r])
      BY DEF Grows, Later
    <3>2. Rank(g.rows[r]) \in 0..3 /\ Rank(d.rows[r]) \in 0..3
      BY RankType
    <3> QED BY <3>1, <3>2
  <2>2. \A status : Rank(status) = 2 <=> status = "active"
    BY DEF Rank
  <2> QED BY <2>1, <2>2
<1> QED BY <1>1, <1>2 DEF Eligible


\* One statement of a read sees the tables no earlier than the one before it.
LEMMA ReadingStep ==
  ASSUME Guarded, Guarded', [Next]_vars, NEW c \in Clients, Reading(c)
  PROVE  Reading(c)'
<1>0. TypeOK /\ TypeOK' /\ reader \in [Clients -> Reader]
  BY DEF Guarded, Locks, TypeOK
<1>1. \A s \in Scopes : Later(RowsOf(s), RowsOf(s)') /\ edges \subseteq edges'
  BY TablesRise
<1>2. CASE reader'[c] = reader[c]
  <2> DEFINE rd == reader[c]
  <2>1. rd.digest.edges \subseteq EdgesAmong(rd.digest.rows)
        /\ (rd.at \in {"idle", "edges"} => rd.digest.edges = {})
    BY DEF Reading
  <2>2. rd.digest.edges \subseteq {e \in edges' : rd.digest.rows[e[1]] # "absent"
                                                  /\ rd.digest.rows[e[2]] # "absent"}
    <3>1. edges \subseteq edges'
      <4>1. CASE \E p \in Slots : Commit(p)
        BY <4>1 DEF Commit
      <4> QED BY <4>1, OnlyCommitsWrite
    <3> QED BY <2>1, <3>1 DEF EdgesAmong
  <2> HIDE DEF rd
  <2>3. /\ reader'[c].digest.edges \subseteq
             {e \in edges' : reader'[c].digest.rows[e[1]] # "absent"
                             /\ reader'[c].digest.rows[e[2]] # "absent"}
        /\ reader'[c].at \in {"idle", "edges"} => reader'[c].digest.edges = {}
    BY <1>2, <2>1, <2>2 DEF rd
  <2>4. CASE reader[c].at = "idle"
    BY <1>2, <2>3, <2>4 DEF Reading, EdgesAmong
  <2>5. CASE reader[c].at # "idle"
    <3>1. PICK s \in Scopes : s = reader[c].scope
      BY <2>5 DEF Reading
    <3>2. Later(reader[c].digest.rows, RowsOf(s)) /\ reader[c].digest.rows \in ReadStatuses
      BY <2>5, <3>1 DEF Reading
    <3>3. Later(RowsOf(s), RowsOf(s)')
      BY <1>1
    <3>4. Later(reader[c].digest.rows, RowsOf(s)')
      BY <3>2, <3>3, LaterStill
    <3>5. ASSUME reader[c].at = "show"
          PROVE  /\ reader[c].again \in ReadStatuses
                 /\ Later(reader[c].digest.rows, reader[c].again)
                 /\ Later(reader[c].again, RowsOf(s)')
      <4>1. /\ reader[c].again \in ReadStatuses
            /\ Later(reader[c].digest.rows, reader[c].again)
            /\ Later(reader[c].again, RowsOf(s))
        BY <3>1, <3>5 DEF Reading
      <4>2. Later(reader[c].again, RowsOf(s)')
        BY <4>1, <3>3, LaterStill
      <4> QED BY <4>1, <4>2
    <3> QED BY <1>2, <2>3, <3>1, <3>2, <3>4, <3>5 DEF Reading, EdgesAmong, RowsOf
  <2> QED BY <2>4, <2>5
<1>3. CASE ReadRecords(c)
  <2>1. PICK s \in Scopes :
          reader' = [reader EXCEPT ![c].at = "edges", ![c].scope = s,
                                   ![c].digest.rows = RowsOf(s)]
    BY <1>3 DEF ReadRecords
  <2>2. reader[c] \in Reader /\ reader[c].digest \in Graph /\ reader[c].digest.edges = {}
    BY <1>0, <1>3 DEF ReadRecords, Reading, Reader
  <2>3. /\ reader'[c].at = "edges" /\ reader'[c].scope = s
        /\ reader'[c].digest.rows = RowsOf(s) /\ reader'[c].digest.edges = {}
    BY <1>0, <2>1, <2>2 DEF Reader, Graph
  <2>4. rows' = rows
    BY <1>3 DEF ReadRecords, tables
  <2>5. RowsOf(s) \in ReadStatuses /\ Later(RowsOf(s), RowsOf(s))
    BY <1>0, RowsAreRead, LaterOrSame
  <2> QED BY <2>3, <2>4, <2>5 DEF Reading, RowsOf
<1>4. CASE ReadEdges(c)
  <2>1. reader[c] \in Reader /\ reader[c].digest \in Graph /\ reader[c].at = "edges"
    BY <1>0, <1>4 DEF ReadEdges, Reader
  <2>2. /\ reader'[c].at = "again" /\ reader'[c].scope = reader[c].scope
        /\ reader'[c].digest.rows = reader[c].digest.rows
        /\ reader'[c].digest.edges = EdgesAmong(reader[c].digest.rows)
    BY <1>0, <1>4, <2>1 DEF ReadEdges, Reader, Graph
  <2>3. rows' = rows /\ edges' = edges
    BY <1>4 DEF ReadEdges, tables
  <2> QED BY <2>1, <2>2, <2>3 DEF Reading, RowsOf, EdgesAmong
<1>5. CASE ReadAgain(c)
  <2>1. reader[c] \in Reader /\ reader[c].at = "again"
    BY <1>0, <1>5 DEF ReadAgain
  <2>2. /\ reader'[c].at = "show" /\ reader'[c].scope = reader[c].scope
        /\ reader'[c].digest = reader[c].digest
        /\ reader'[c].again = RowsOf(reader[c].scope)
    BY <1>0, <1>5, <2>1 DEF ReadAgain, Reader
  <2>3. rows' = rows /\ edges' = edges
    BY <1>5 DEF ReadAgain, tables
  <2>4. /\ reader[c].scope \in Scopes
        /\ Later(reader[c].digest.rows, RowsOf(reader[c].scope))
        /\ reader[c].digest.rows \in ReadStatuses
        /\ reader[c].digest.edges \subseteq EdgesAmong(reader[c].digest.rows)
    BY <2>1 DEF Reading
  <2>5. /\ RowsOf(reader[c].scope) \in ReadStatuses
        /\ Later(RowsOf(reader[c].scope), RowsOf(reader[c].scope))
    BY <1>0, <2>4, RowsAreRead, LaterOrSame
  <2> QED BY <2>2, <2>3, <2>4, <2>5 DEF Reading, RowsOf, EdgesAmong
<1>6. CASE Show(c)
  <2>1. reader'[c] = AtRest
    BY <1>0, <1>6 DEF Show
  <2> QED BY <2>1 DEF Reading, AtRest, Nothing
<1>7. CASE \/ \E d \in Clients \ {c} : ReadScope(d)
           \/ \E p \in Slots : Write(p)
           \/ \E d \in Clients : Provision(d)
           \/ UNCHANGED vars
  <2>1. reader'[c] = reader[c]
    BY <1>0, <1>7 DEF ReadScope, ReadRecords, ReadEdges, ReadAgain, Show, Write, Begin,
       LockReceipt, LockScope, Commit, Abort, Provision, vars
  <2> QED BY <1>2, <2>1
<1> QED BY <1>3, <1>4, <1>5, <1>6, <1>7 DEF Next, ReadScope

\* What was shown stays between the digest and the scope.
LEMMA ShownStep ==
  ASSUME Guarded, Guarded', [Next]_vars, NEW c \in Clients, NEW s \in Scopes,
         Reading(c), Shown(c, s)
  PROVE  Shown(c, s)'
<1>0. TypeOK /\ reader \in [Clients -> Reader] /\ views \in [Clients -> [Scopes -> View]]
  BY DEF Guarded, Locks, TypeOK
<1>1. CASE views'[c][s] = views[c][s]
  <2>1. PICK g \in Graph : /\ views[c][s].shown = Eligible(g)
                           /\ Grows(views[c][s].digest, g) /\ Grows(g, Scope(s))
    BY DEF Shown
  <2>2. Grows(g, Scope(s)')
    BY <2>1, GrownFrom
  <2> QED BY <1>1, <2>1, <2>2 DEF Shown
<1>2. CASE Show(c) /\ s = reader[c].scope
  <2> DEFINE g == Evaluated(c)
  <2>1. /\ reader[c].at = "show"
        /\ views'[c][s].digest = reader[c].digest /\ views'[c][s].shown = Eligible(g)
        /\ rows' = rows /\ edges' = edges
    BY <1>0, <1>2 DEF Show, tables
  <2>2. /\ reader[c].digest.rows \in ReadStatuses /\ reader[c].again \in ReadStatuses
        /\ Later(reader[c].digest.rows, reader[c].again) /\ Later(reader[c].again, RowsOf(s))
        /\ reader[c].digest.edges \subseteq EdgesAmong(reader[c].digest.rows)
    BY <1>2, <2>1 DEF Reading
  <2>3. g \in Graph
    BY <1>0, <2>2, ScopeType DEF Evaluated, Graph, Statuses, ReadStatuses
  <2>4. Grows(reader[c].digest, g)
    BY <1>0, <2>2, AmongGrows DEF Grows, Evaluated
  <2>5. Grows(g, Scope(s))
    BY <1>0, <2>2, RowsAreRead, AmongGrows DEF Grows, Evaluated, Scope
  <2>6. Grows(g, Scope(s)')
    BY <2>3, <2>5, GrownFrom
  <2> HIDE DEF g
  <2> QED BY <2>1, <2>3, <2>4, <2>6 DEF Shown
<1>3. CASE Show(c) /\ s # reader[c].scope
  <2>1. views'[c][s] = views[c][s]
    BY <1>0, <1>3 DEF Show
  <2> QED BY <1>1, <2>1
<1>4. CASE \/ \E d \in Clients \ {c} : Show(d)
           \/ \E d \in Clients : ReadRecords(d) \/ ReadEdges(d) \/ ReadAgain(d) \/ Provision(d)
           \/ \E p \in Slots : Write(p)
           \/ UNCHANGED vars
  <2>1. views'[c][s] = views[c][s]
    BY <1>0, <1>4 DEF ReadRecords, ReadEdges, ReadAgain, Show, Write, Begin,
       LockReceipt, LockScope, Commit, Abort, Provision, vars
  <2> QED BY <1>1, <2>1
<1> QED BY <1>2, <1>3, <1>4 DEF Next, ReadScope

\* However reads and commits overlap, a mutation that commits under a digest
\* (authority/service.py) is applied to the state whose answer its client was
\* shown beside it, although that answer is read later and without a lock.
THEOREM AppliedToWhatWasShown == Spec => AppliedToTheStateShown
<1>1. Init => InOrder
  <2>1. ASSUME Init, NEW c \in Clients PROVE Reading(c)
    BY <2>1 DEF Init, Reading, AtRest, Nothing
  <2>2. ASSUME Init, NEW c \in Clients, NEW s \in Scopes PROVE Shown(c, s)
    <3>1. Nothing \in Graph /\ TypeOK
      BY <2>2, NothingType, InitialTypes
    <3>2. views[c][s] = [digest |-> Nothing, shown |-> {}]
      BY <2>2 DEF Init
    <3>3. Eligible(Nothing) = {}
      BY DEF Eligible, Nothing, Unread
    <3>4. Grows(Nothing, Nothing)
      BY LaterOrSame DEF Grows
    <3>5. Grows(Nothing, Scope(s))
      <4>1. \A r \in Records : Rank(Unread[r]) = 0
        BY DEF Unread, Rank
      <4>2. Later(Unread, RowsOf(s))
        BY <4>1, RankType DEF Later
      <4> QED BY <4>2 DEF Grows, Nothing, Scope
    <3> QED BY <3>1, <3>2, <3>3, <3>4, <3>5 DEF Shown
  <2> QED BY <2>1, <2>2 DEF InOrder
<1>2. Guarded /\ Guarded' /\ InOrder /\ [Next]_vars => InOrder'
  BY ReadingStep, ShownStep DEF InOrder
<1>3. ASSUME Guarded, InOrder, [Next]_vars, NEW p \in Slots, Applies(p), msg[p].op # Creation
      PROVE  LET c == msg[p].client  s == msg[p].scope IN
             /\ Scope(s) = msg[p].expect
             /\ views[c][s].digest = msg[p].expect => views[c][s].shown = Eligible(Scope(s))
  <2> DEFINE c == msg[p].client  s == msg[p].scope
  <2>1. msg[p] \in Request /\ Scope(s) = msg[p].expect /\ TypeOK
    BY <1>3 DEF Applies, Guarded, GuardsHold, Locks, TypeOK, Writing
  <2>2. c \in Clients /\ s \in Scopes
    BY <2>1 DEF Request
  <2>3. ASSUME views[c][s].digest = msg[p].expect
        PROVE  views[c][s].shown = Eligible(Scope(s))
    <3>1. PICK g \in Graph : /\ views[c][s].shown = Eligible(g)
                             /\ Grows(views[c][s].digest, g) /\ Grows(g, Scope(s))
      BY <1>3, <2>2 DEF InOrder, Shown
    <3>2. Scope(s) \in Graph
      BY <2>1, <2>2, ScopeType
    <3>3. Eligible(g) = Eligible(Scope(s))
      BY <2>1, <2>3, <3>1, <3>2, Between
    <3> QED BY <3>1, <3>3
  <2> QED BY <2>1, <2>3
<1>4. Guarded /\ InOrder /\ [Next]_vars =>
        [\A p \in Slots : Applies(p) /\ msg[p].op # Creation =>
           LET c == msg[p].client  s == msg[p].scope IN
           /\ Scope(s) = msg[p].expect
           /\ views[c][s].digest = msg[p].expect => views[c][s].shown = Eligible(Scope(s))]_vars
  BY <1>3
<1> QED BY <1>1, <1>2, <1>4, GuardedHolds, PTL DEF Spec, AppliedToTheStateShown

=============================================================================
