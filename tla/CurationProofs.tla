--------------------------- MODULE CurationProofs ---------------------------
(***************************************************************************)
(* The care of published facts, for every number of sources, generations,  *)
(* groups and transactions: what is promoted is live, no group is decided  *)
(* on twice, suppression keeps a visible fact, and no transactions wait    *)
(* for each other in a circle.                                             *)
(***************************************************************************)
EXTENDS CurationProperties, FiniteSetTheorems, WellFoundedInduction, TLAPS

\* The types of the tables, without the transactions.
Tables ==
    /\ managed \in BOOLEAN
    /\ live \in [Archives -> BOOLEAN]
    /\ current \in [Archives -> 1..MaxGenerations]
    /\ facts \in [Facts -> Fact]
    /\ items \in [Groups -> Item]
    /\ members \in [Groups -> SUBSET Facts]
    /\ runs \in [Facts -> {"none", "no_candidates", "nothing_to_link", "grouped"}]
    /\ canonical \subseteq Canonical
    /\ begun \in 0..MaxTxns
    /\ decisions \in [Groups -> 0..2]

\* Each stage belongs to one operation, but for the start and the locks.
Requested(x) ==
    /\ x.at \in {"find", "decide", "group", "link", "queue"} => x.req.op = "detect"
    /\ x.at \in {"facts", "apply", "commit"} => x.req.op = "resolve"
    /\ x.at \in {"row", "insert"} => x.req.op = "promote"
    /\ x.at = "erase" => x.req.op = "delete"
    /\ x.at = "write" => x.req.op = "edit"
    /\ x.at = "lock" => x.req.op \in {"detect", "resolve", "promote", "delete"}

\* Locks are taken in the order of ids, a deletion has or awaits that of its
\* source, and with managed generations the row of a fact comes last.
Locking(x) ==
    /\ x.at = "lock" => x.todo # {}
    /\ x.at \notin {"lock", "row"} => x.todo = {}
    /\ x.held # {} => x.at \in {"lock", "decide", "apply", "commit", "row", "insert", "erase"}
    /\ \A a \in x.held, b \in x.todo : a < b
    /\ x.at = "row" => (x.todo = {} <=> x.held # {})
    /\ managed /\ x.at = "row" => x.held # {}
    /\ managed /\ x.row # {} => x.at = "insert"
    /\ x.req.op = "delete" => x.req.source \in x.held \union x.todo
    /\ managed => x.at \notin {"group", "link", "queue"}

Sound(x) == x \in Transaction /\ Requested(x) /\ Locking(x)

Types == Tables /\ txn \in [Txns -> Transaction] /\ \A t \in Txns : Sound(txn[t])

-----------------------------------------------------------------------------
(* Operators *)

\* The first of a set of ids is the least of them.
LEMMA LeastOf ==
  ASSUME NEW S, S \subseteq Nat, S # {}
  PROVE  First(S) \in S /\ \A b \in S : First(S) <= b
<1>1. PICK x \in S : \A y \in S : ~(<<y, x>> \in OpToRel(<, Nat))
  BY NatLessThanWellFounded, WFMin
<1>2. \A y \in S : (<<y, x>> \in OpToRel(<, Nat)) <=> y < x
  BY DEF OpToRel
<1>3. \A y \in S : ~(y < x)
  BY <1>1, <1>2, Zenon
<1>4. \A y \in S : x <= y
  BY <1>3
<1> QED BY <1>4 DEF First

\* What a request of each operation names.
LEMMA RequestFields ==
  ASSUME NEW m \in Requests \union {NoRequest}
  PROVE  /\ m.op \in {"detect", "promote", "edit"} => m.fact \in Facts
         /\ m.op = "resolve" => m.group \in Groups
         /\ m.op = "delete" => m.source \in Archives
BY DEF Requests, NoRequest

\* A fact has a source.
LEMMA SourceOfFact == \A f \in Facts : Source(f) \in Archives
BY DEF Facts, Source

\* A transaction that is over has the type of transactions, and holds nothing.
LEMMA OverIsSound == Sound(Over)
<1>1. Over \in Transaction
  BY DEF Over, Transaction, Stages, NoRequest, Ungrouped
<1> QED BY <1>1 DEF Over, Sound, Requested, Locking, NoRequest

\* A step that gives a transaction a sound state keeps all of them sound.
LEMMA Updates ==
  ASSUME Types, NEW t \in Txns, NEW r, Sound(r), Update(t, r), managed' = managed
  PROVE  /\ txn' \in [Txns -> Transaction] /\ \A u \in Txns : Sound(txn[u])'
         /\ txn'[t] = r /\ \A u \in Txns : u # t => txn'[u] = txn[u]
<1>1. /\ txn' \in [Txns -> Transaction]
      /\ txn'[t] = r /\ \A u \in Txns : u # t => txn'[u] = txn[u]
  BY DEF Types, Update, Sound
<1>2. \A u \in Txns : Sound(txn[u])'
  BY <1>1 DEF Types, Sound, Requested, Locking
<1> QED BY <1>1, <1>2

\* A change of stage alone.
LEMMA StageOf ==
  ASSUME Types, NEW t \in Txns, NEW stage \in Stages
  PROVE  LET r == [txn[t] EXCEPT !.at = stage]
         IN /\ r \in Transaction /\ r.at = stage
            /\ r.req = Req(t) /\ r.todo = txn[t].todo /\ r.held = txn[t].held
            /\ r.row = txn[t].row /\ r.found = txn[t].found /\ r.kept = txn[t].kept
<1>1. txn[t] \in Transaction
  BY DEF Types
<1> QED BY <1>1 DEF Transaction, Req

-----------------------------------------------------------------------------
(* Types *)

\* What a request locks at its beginning is what it names.
LEMMA BeginsSound ==
  ASSUME Types, NEW t \in Txns, NEW m \in Requests, NEW todo, BeginWith(t, m, todo),
         CASE m.op = "promote" -> todo = {Source(m.fact)}
           [] m.op = "delete"  -> todo = {m.source}
           [] OTHER            -> todo = {}
  PROVE  Types'
<1> DEFINE r == [Over EXCEPT !.at = Entry(m), !.req = m, !.todo = todo]
<1>1. Update(t, r) /\ UNCHANGED <<managed, tables, decisions>>
      /\ begun < MaxTxns /\ begun' = begun + 1
  BY DEF BeginWith
<1>2. m.op \in {"detect", "promote", "edit", "resolve", "delete"}
  BY DEF Requests
<1>3. todo \subseteq Archives
  BY <1>2, RequestFields, SourceOfFact
<1>4. /\ r.at = Entry(m) /\ r.req = m /\ r.todo = todo /\ r.held = {} /\ r.row = {}
      /\ r.found = {} /\ r.kept = {} /\ r.group = Ungrouped
      /\ r \in Transaction
  <2>1. Entry(m) \in Stages
    BY <1>2 DEF Entry, Stages
  <2> QED BY <1>3, <2>1 DEF Over, Transaction, Ungrouped
<1> HIDE DEF r
<1>5. Requested(r)
  BY <1>2, <1>4 DEF Requested, Entry
<1>6. Locking(r)
  BY <1>2, <1>4 DEF Locking, Entry
<1>7. Tables'
  <2>1. begun' \in 0..MaxTxns
    BY <1>1, CurationAssumption DEF Types, Tables
  <2> QED BY <1>1, <2>1 DEF Types, Tables, tables
<1> QED BY <1>1, <1>4, <1>5, <1>6, <1>7, Updates DEF Types, Sound

\* The requests of the operations name what is there.
LEMMA RequestsBegin ==
  ASSUME Types, NEW t \in Txns,
         \/ BeginDetect(t) \/ BeginResolve(t) \/ BeginPromote(t) \/ BeginEdit(t) \/ BeginDelete(t)
  PROVE  Types'
<1>1. CASE BeginDetect(t)
  <2>1. PICK f \in Facts : BeginWith(t, [op |-> "detect", fact |-> f], {})
    BY <1>1 DEF BeginDetect
  <2> QED BY <2>1, BeginsSound DEF Requests
<1>2. CASE BeginResolve(t)
  <2>1. PICK g \in Groups, verdict \in {"keep", "suppress", "dismiss"} :
          BeginWith(t, [op |-> "resolve", group |-> g, verdict |-> verdict], {})
    BY <1>2 DEF BeginResolve
  <2> QED BY <2>1, BeginsSound DEF Requests
<1>3. CASE BeginPromote(t)
  <2>1. PICK f \in Facts : BeginWith(t, [op |-> "promote", fact |-> f], {Source(f)})
    BY <1>3 DEF BeginPromote
  <2> QED BY <2>1, BeginsSound DEF Requests
<1>4. CASE BeginEdit(t)
  <2>1. PICK f \in Facts, change \in {"text", "review"} :
          BeginWith(t, [op |-> "edit", fact |-> f, change |-> change], {})
    BY <1>4 DEF BeginEdit
  <2> QED BY <2>1, BeginsSound DEF Requests
<1>5. CASE BeginDelete(t)
  <2>1. PICK a \in Archives : BeginWith(t, [op |-> "delete", source |-> a], {a})
    BY <1>5 DEF BeginDelete
  <2> QED BY <2>1, BeginsSound DEF Requests
<1> QED BY <1>1, <1>2, <1>3, <1>4, <1>5

\* A lock is one more in the order, and after the last one the operation goes on.
LEMMA LocksSource ==
  ASSUME Types, NEW t \in Txns, LockSource(t)
  PROVE  /\ First(txn[t].todo) \in txn[t].todo
         /\ \A b \in txn[t].todo : First(txn[t].todo) <= b
         /\ UNCHANGED <<managed, tables, begun, decisions>>
         /\ \E r : /\ Update(t, r) /\ Sound(r)
                   /\ r.todo = txn[t].todo \ {First(txn[t].todo)}
                   /\ r.held = txn[t].held \union {First(txn[t].todo)}
                   /\ r.req = Req(t) /\ r.row = txn[t].row /\ r.found = txn[t].found
                   /\ r.at = IF r.todo = {} THEN AfterLocks(t) ELSE "lock"
<1> DEFINE a == First(txn[t].todo)
           rest == txn[t].todo \ {a}
           r == [txn[t] EXCEPT !.todo = rest, !.held = @ \union {a},
                   !.at = IF rest = {} THEN AfterLocks(t) ELSE "lock"]
<1>1. /\ txn[t] \in Transaction /\ Requested(txn[t]) /\ Locking(txn[t])
      /\ txn[t].at = "lock" /\ Req(t) = txn[t].req
  BY DEF Types, Sound, LockSource, Ready, At, Req
<1>2. txn[t].todo \subseteq Archives /\ txn[t].todo # {} /\ txn[t].held \subseteq Archives
  BY <1>1 DEF Transaction, Locking
<1>3. a \in txn[t].todo /\ \A b \in txn[t].todo : a <= b
  BY <1>2, LeastOf, CurationAssumption
<1>4. \A b \in rest : a < b
  <2>1. a \in Nat /\ \A b \in rest : b \in Nat /\ a <= b /\ b # a
    BY <1>2, <1>3, CurationAssumption
  <2> HIDE DEF a, rest
  <2> QED BY <2>1
<1>5. Update(t, r) /\ UNCHANGED <<managed, tables, begun, decisions>>
  BY DEF LockSource
<1>6. /\ Req(t).op \in {"detect", "resolve", "promote", "delete"}
      /\ AfterLocks(t) = CASE Req(t).op = "detect"  -> "decide"
                           [] Req(t).op = "resolve" -> "apply"
                           [] Req(t).op = "promote" -> IF managed THEN "row" ELSE "insert"
                           [] Req(t).op = "delete"  -> "erase"
  BY <1>1 DEF Requested, AfterLocks
<1>7. /\ r.todo = rest /\ r.held = txn[t].held \union {a}
      /\ r.req = txn[t].req /\ r.row = txn[t].row /\ r.found = txn[t].found
      /\ r.kept = txn[t].kept
      /\ r.at = IF rest = {} THEN AfterLocks(t) ELSE "lock"
      /\ r \in Transaction
  <2>1. (IF rest = {} THEN AfterLocks(t) ELSE "lock") \in Stages
    BY <1>6 DEF Stages
  <2>2. rest \in SUBSET Archives /\ txn[t].held \union {a} \in SUBSET Archives
    BY <1>2, <1>3
  <2> HIDE DEF rest, a
  <2> QED BY <1>1, <2>1, <2>2 DEF Transaction
<1> HIDE DEF r
<1>8. Requested(r)
  BY <1>1, <1>6, <1>7 DEF Requested
<1>9. Locking(r)
  <2>1. \A c \in r.held, b \in r.todo : c < b
    BY <1>1, <1>4, <1>7 DEF Locking
  <2>2. managed /\ r.row # {} => r.at = "insert"
    BY <1>1, <1>7 DEF Locking
  <2>3. r.req.op = "delete" => r.req.source \in r.held \union r.todo
    BY <1>1, <1>3, <1>7 DEF Locking
  <2>4. r.held # {}
    BY <1>7
  <2>5. /\ r.at = "lock" => r.todo # {}
        /\ r.at # "lock" => r.todo = {}
        /\ r.at \in {"lock", "decide", "apply", "commit", "row", "insert", "erase"}
    BY <1>1, <1>6, <1>7
  <2> QED BY <2>1, <2>2, <2>3, <2>4, <2>5 DEF Locking
<1>10. /\ Update(t, r) /\ Sound(r)
       /\ r.todo = txn[t].todo \ {First(txn[t].todo)}
       /\ r.held = txn[t].held \union {First(txn[t].todo)}
       /\ r.req = Req(t) /\ r.row = txn[t].row /\ r.found = txn[t].found
       /\ r.at = IF r.todo = {} THEN AfterLocks(t) ELSE "lock"
  BY <1>1, <1>5, <1>7, <1>8, <1>9 DEF Sound
<1>11. /\ First(txn[t].todo) \in txn[t].todo
       /\ \A b \in txn[t].todo : First(txn[t].todo) <= b
  BY <1>3
<1> QED BY <1>5, <1>10, <1>11, Zenon

\* A step from a stage to a later one of its operation, under the same locks.
LEMMA GoesSound ==
  ASSUME Types, NEW t \in Txns, NEW stage \in Stages, Goto(t, stage), managed' = managed,
         txn[t].at \notin {"lock", "row"}, stage \notin {"lock", "row"},
         Requested([txn[t] EXCEPT !.at = stage]),
         stage \notin {"lock", "decide", "apply", "commit", "row", "insert", "erase"}
           => txn[t].held = {},
         managed => stage \notin {"group", "link", "queue"},
         managed => txn[t].row = {} \/ stage = "insert"
  PROVE  /\ txn' \in [Txns -> Transaction] /\ \A u \in Txns : Sound(txn[u])'
         /\ \A u \in Txns : u # t => txn'[u] = txn[u]
         /\ txn'[t] = [txn[t] EXCEPT !.at = stage]
<1> DEFINE r == [txn[t] EXCEPT !.at = stage]
<1>1. /\ r \in Transaction /\ r.at = stage
      /\ r.req = txn[t].req /\ r.todo = txn[t].todo /\ r.held = txn[t].held
      /\ r.row = txn[t].row
  BY StageOf DEF Req
<1>2. Requested(r) /\ Update(t, r)
  BY DEF Goto
<1>3. Locking(txn[t])
  BY DEF Types, Sound
<1> HIDE DEF r
<1>4. Locking(r)
  BY <1>1, <1>3 DEF Locking
<1>5. Sound(r)
  BY <1>1, <1>2, <1>4 DEF Sound
<1>6. /\ txn' \in [Txns -> Transaction] /\ \A u \in Txns : Sound(txn[u])'
      /\ txn'[t] = r /\ \A u \in Txns : u # t => txn'[u] = txn[u]
  BY <1>2, <1>5, Updates
<1> QED BY <1>6 DEF r

\* A transaction that ends.
LEMMA EndsSound ==
  ASSUME Types, NEW t \in Txns, End(t), managed' = managed
  PROVE  /\ txn' \in [Txns -> Transaction] /\ \A u \in Txns : Sound(txn[u])'
         /\ txn'[t] = Over /\ \A u \in Txns : u # t => txn'[u] = txn[u]
BY OverIsSound, Updates DEF End

\* What a read or a lock of a row leaves alone.
Reads(t) ==
    \/ Abort(t) \/ CheckRun(t) \/ FindCandidates(t) \/ ReadItem(t) \/ ReadFacts(t)
    \/ Apply(t) \/ LockFact(t) \/ ReadFact(t)

\* Statements that only read, and the lock of a fact's row, are sound.
LEMMA ReadsSound ==
  ASSUME Types, NEW t \in Txns, Reads(t)
  PROVE  /\ txn' \in [Txns -> Transaction] /\ \A u \in Txns : Sound(txn[u])'
         /\ \A u \in Txns : u # t => txn'[u] = txn[u]
         /\ UNCHANGED <<managed, tables, begun, decisions>>
<1>1. UNCHANGED <<managed, tables, begun, decisions>>
  BY DEF Reads, Abort, CheckRun, FindCandidates, ReadItem, ReadFacts, Apply, LockFact, ReadFact
<1>2. /\ txn[t] \in Transaction /\ Requested(txn[t]) /\ Locking(txn[t])
      /\ txn[t].req \in Requests \union {NoRequest}
  BY DEF Types, Sound, Transaction
<1>3. CASE End(t)
  BY <1>1, <1>3, EndsSound
<1>4. CASE CheckRun(t) /\ Goto(t, "find")
  <2>1. txn[t].at = "start" /\ txn[t].req.op = "detect"
    BY <1>4 DEF CheckRun, At, Req
  <2>2. Requested([txn[t] EXCEPT !.at = "find"]) /\ "find" \in Stages
    BY <2>1, <1>2 DEF Requested, Stages, Transaction
  <2> QED BY <1>1, <1>2, <1>4, <2>1, <2>2, GoesSound DEF Locking
<1>5. CASE ReadItem(t) /\ Goto(t, "facts")
  <2>1. txn[t].at = "start" /\ txn[t].req.op = "resolve"
    BY <1>5 DEF ReadItem, At, Req
  <2>2. Requested([txn[t] EXCEPT !.at = "facts"]) /\ "facts" \in Stages
    BY <2>1, <1>2 DEF Requested, Stages, Transaction
  <2> QED BY <1>1, <1>2, <1>5, <2>1, <2>2, GoesSound DEF Locking
<1>6. CASE ReadFact(t) /\ Goto(t, "write")
  <2>1. txn[t].at = "start" /\ txn[t].req.op = "edit"
    BY <1>6 DEF ReadFact, At, Req
  <2>2. Requested([txn[t] EXCEPT !.at = "write"]) /\ "write" \in Stages
    BY <2>1, <1>2 DEF Requested, Stages, Transaction
  <2> QED BY <1>1, <1>2, <1>6, <2>1, <2>2, GoesSound DEF Locking
<1>7. CASE FindCandidates(t)
  <2>1. PICK found \in SUBSET Facts :
          CASE managed ->
                 Update(t, [txn[t] EXCEPT !.at = "lock", !.found = found,
                              !.todo = {Source(f) : f \in found \union {Req(t).fact}}])
            [] ~managed /\ found # {} -> Update(t, [txn[t] EXCEPT !.at = "group", !.found = found])
            [] OTHER -> End(t)
    BY <1>7 DEF FindCandidates
  <2>2. txn[t].at = "find" /\ txn[t].req.op = "detect" /\ txn[t].held = {}
        /\ Req(t).fact \in Facts /\ txn[t].todo = {} /\ (managed => txn[t].row = {})
    BY <1>2, <1>7, RequestFields DEF FindCandidates, At, Req, Requested, Locking
  <2>3. CASE managed
    <3> DEFINE todo == {Source(f) : f \in found \union {Req(t).fact}}
               r == [txn[t] EXCEPT !.at = "lock", !.found = found, !.todo = todo]
    <3>1. todo \in SUBSET Archives /\ todo # {}
      BY <2>1, <2>2, SourceOfFact
    <3> HIDE DEF todo
    <3>2. /\ r \in Transaction /\ r.at = "lock" /\ r.req = txn[t].req /\ r.todo = todo
          /\ r.held = txn[t].held /\ r.row = txn[t].row
      BY <1>2, <3>1 DEF Transaction, Stages
    <3>3. Update(t, r)
      BY <2>1, <2>3 DEF todo
    <3> HIDE DEF r
    <3>4. Sound(r)
      BY <2>2, <2>3, <3>1, <3>2 DEF Sound, Requested, Locking
    <3> QED BY <1>1, <3>3, <3>4, Updates
  <2>4. CASE ~managed /\ found # {}
    <3> DEFINE r == [txn[t] EXCEPT !.at = "group", !.found = found]
    <3>1. /\ r \in Transaction /\ r.at = "group" /\ r.req = txn[t].req /\ r.todo = txn[t].todo
          /\ r.held = txn[t].held /\ r.row = txn[t].row
      BY <1>2, <2>1 DEF Transaction, Stages
    <3>2. Update(t, r)
      BY <2>1, <2>4
    <3> HIDE DEF r
    <3>3. Sound(r)
      BY <2>2, <2>4, <3>1 DEF Sound, Requested, Locking
    <3> QED BY <1>1, <3>2, <3>3, Updates
  <2>5. CASE ~managed /\ found = {}
    BY <1>1, <2>1, <2>5, EndsSound
  <2> QED BY <2>3, <2>4, <2>5
<1>8. CASE ReadFacts(t)
  <2> DEFINE F == InGroup(Req(t).group)
             todo == {Source(f) : f \in F}
  <2>1. txn[t].at = "facts" /\ txn[t].req.op = "resolve" /\ txn[t].held = {}
        /\ txn[t].todo = {} /\ (managed => txn[t].row = {})
    BY <1>2, <1>8 DEF ReadFacts, At, Requested, Locking
  <2>2. F \in SUBSET Facts /\ todo \in SUBSET Archives /\ (F # {} => todo # {})
    BY SourceOfFact DEF InGroup
  <2>3. CASE ~managed
    <3> DEFINE r == [[txn[t] EXCEPT !.found = F, !.todo = todo] EXCEPT !.at = "apply", !.todo = {}]
    <3>1. Update(t, r)
      BY <1>8, <2>3 DEF ReadFacts
    <3> HIDE DEF F, todo
    <3>2. /\ r \in Transaction /\ r.at = "apply" /\ r.req = txn[t].req /\ r.todo = {}
          /\ r.held = txn[t].held /\ r.row = txn[t].row
      BY <1>2, <2>2 DEF Transaction, Stages
    <3> HIDE DEF r
    <3>3. Sound(r)
      BY <2>1, <2>3, <3>2 DEF Sound, Requested, Locking
    <3> QED BY <1>1, <3>1, <3>3, Updates
  <2>4. CASE managed /\ F # {}
    <3> DEFINE r == [[txn[t] EXCEPT !.found = F, !.todo = todo] EXCEPT !.at = "lock"]
    <3>1. Update(t, r)
      BY <1>8, <2>4 DEF ReadFacts
    <3> HIDE DEF F, todo
    <3>2. /\ r \in Transaction /\ r.at = "lock" /\ r.req = txn[t].req /\ r.todo = todo
          /\ r.held = txn[t].held /\ r.row = txn[t].row
      BY <1>2, <2>2 DEF Transaction, Stages
    <3> HIDE DEF r
    <3>3. Sound(r)
      BY <2>1, <2>2, <2>4, <3>2 DEF Sound, Requested, Locking
    <3> QED BY <1>1, <3>1, <3>3, Updates
  <2>5. CASE managed /\ F = {}
    <3>1. End(t)
      BY <1>8, <2>5 DEF ReadFacts
    <3> QED BY <1>3, <3>1
  <2> QED BY <2>3, <2>4, <2>5
<1>9. CASE Apply(t) /\ ~End(t)
  <2> DEFINE F == Judged(t)
  <2>1. PICK kept \in SUBSET Facts :
          Update(t, [txn[t] EXCEPT !.at = "commit", !.found = F, !.kept = kept])
    BY <1>9 DEF Apply, Judged, InGroup
  <2>2. txn[t].at = "apply" /\ F \in SUBSET Facts
    BY <1>9 DEF Apply, At, Judged, InGroup
  <2> DEFINE r == [txn[t] EXCEPT !.at = "commit", !.found = F, !.kept = kept]
  <2> HIDE DEF F
  <2>3. /\ r \in Transaction /\ r.at = "commit" /\ r.req = txn[t].req /\ r.todo = txn[t].todo
        /\ r.held = txn[t].held /\ r.row = txn[t].row
    BY <1>2, <2>1, <2>2 DEF Transaction, Stages
  <2>4. Update(t, r)
    BY <2>1
  <2> HIDE DEF r
  <2>5. Sound(r)
    BY <1>2, <2>2, <2>3 DEF Sound, Requested, Locking
  <2> QED BY <1>1, <2>4, <2>5, Updates
<1>10. CASE LockFact(t)
  <2> DEFINE r == [txn[t] EXCEPT !.row = {Req(t).fact},
                     !.at = IF txn[t].held = {} THEN "lock" ELSE "insert"]
  <2>1. txn[t].at = "row" /\ txn[t].req.op = "promote" /\ Req(t).fact \in Facts
    BY <1>2, <1>10, RequestFields DEF LockFact, Ready, At, Req, Requested
  <2>2. /\ r \in Transaction /\ r.at = IF txn[t].held = {} THEN "lock" ELSE "insert"
        /\ r.req = txn[t].req /\ r.todo = txn[t].todo /\ r.held = txn[t].held
    BY <1>2, <2>1 DEF Transaction, Stages
  <2>3. Update(t, r)
    BY <1>10 DEF LockFact
  <2> HIDE DEF r
  <2>4. Sound(r)
    BY <1>2, <2>1, <2>2 DEF Sound, Requested, Locking
  <2> QED BY <1>1, <2>3, <2>4, Updates
<1>11. CASE Abort(t)
  BY <1>3, <1>11 DEF Abort
<1>12. CASE CheckRun(t)
  BY <1>3, <1>4, <1>12 DEF CheckRun
<1>13. CASE ReadItem(t)
  BY <1>3, <1>5, <1>13 DEF ReadItem
<1>14. CASE ReadFact(t)
  BY <1>3, <1>6, <1>14 DEF ReadFact
<1> QED BY <1>3, <1>7, <1>8, <1>9, <1>10, <1>11, <1>12, <1>13, <1>14 DEF Reads

\* The three statements that group duplicates without generations, and the one
\* that does it with them.
LEMMA GroupingSound ==
  ASSUME Types, NEW t \in Txns, Decide(t) \/ CreateGroup(t) \/ LinkFacts(t) \/ QueueItem(t)
  PROVE  Types'
<1>1. /\ txn[t] \in Transaction /\ Requested(txn[t]) /\ Locking(txn[t])
      /\ txn[t].req \in Requests \union {NoRequest}
  BY DEF Types, Sound, Transaction
<1>2. ASSUME NEW g \in Groups PROVE Queue(g) => items' \in [Groups -> Item]
  BY DEF Queue, Types, Tables, Item
<1>3. ASSUME NEW F, NEW g \in Groups \union {Ungrouped}
      PROVE  Link(F, g) => facts' \in [Facts -> Fact]
  BY DEF Link, Types, Tables, Fact
<1>4. CASE Decide(t)
  <2>1. End(t) /\ UNCHANGED <<managed, live, current, canonical, begun, decisions>>
    BY <1>4 DEF Decide
  <2>2. Req(t).op = "detect" /\ Req(t).fact \in Facts
    BY <1>1, <1>4, RequestFields DEF Decide, At, Req, Requested
  <2>3. Outcome(t) \in {"none", "no_candidates", "nothing_to_link", "grouped"}
    BY DEF Outcome
  <2>4. UNCHANGED runs \/ runs' = [runs EXCEPT ![Req(t).fact] = Outcome(t)]
    BY <1>4 DEF Decide
  <2>5. runs' \in [Facts -> {"none", "no_candidates", "nothing_to_link", "grouped"}]
    BY <2>2, <2>3, <2>4 DEF Types, Tables
  <2>6. \/ UNCHANGED <<facts, items, members>>
        \/ \E g \in Groups : /\ Link(ToLink(t), g) /\ Queue(g)
                             /\ members' = [members EXCEPT ![g] = ToLink(t)]
    BY <1>4 DEF Decide
  <2>7. ToLink(t) \in SUBSET Facts
    BY DEF ToLink, FactsOf
  <2>8. facts' \in [Facts -> Fact] /\ items' \in [Groups -> Item]
    BY <2>6, <1>2, <1>3 DEF Types, Tables
  <2>9. members' \in [Groups -> SUBSET Facts]
    BY <2>6, <2>7 DEF Types, Tables
  <2> QED BY <2>1, <2>5, <2>8, <2>9, EndsSound DEF Types, Tables
<1>5. CASE CreateGroup(t)
  <2>1. PICK g \in Groups :
          /\ items' = [items EXCEPT ![g].status = "created"]
          /\ Update(t, [txn[t] EXCEPT !.at = "link", !.group = g])
    BY <1>5 DEF CreateGroup
  <2>2. txn[t].at = "group" /\ UNCHANGED <<managed, live, current, facts, members, runs, canonical, begun, decisions>>
    BY <1>5 DEF CreateGroup, At
  <2>3. items' \in [Groups -> Item]
    BY <2>1 DEF Types, Tables, Item
  <2> DEFINE r == [txn[t] EXCEPT !.at = "link", !.group = g]
  <2>4. /\ r \in Transaction /\ r.at = "link" /\ r.req = txn[t].req /\ r.todo = txn[t].todo
        /\ r.held = txn[t].held /\ r.row = txn[t].row
    BY <1>1 DEF Transaction, Stages
  <2>5. Update(t, r)
    BY <2>1
  <2> HIDE DEF r
  <2>6. Sound(r)
    BY <1>1, <2>2, <2>4 DEF Sound, Requested, Locking
  <2> QED BY <2>2, <2>3, <2>5, <2>6, Updates DEF Types, Tables
<1>6. CASE LinkFacts(t)
  <2>1. Goto(t, "queue") /\ txn[t].at = "link" /\ txn[t].req.op = "detect"
        /\ UNCHANGED <<managed, live, current, items, members, runs, canonical, begun, decisions>>
    BY <1>1, <1>6 DEF LinkFacts, At, Requested
  <2>2. Requested([txn[t] EXCEPT !.at = "queue"]) /\ "queue" \in Stages
    BY <1>1, <2>1 DEF Requested, Stages, Transaction
  <2>3. txn[t].group \in Groups \union {Ungrouped}
    BY <1>1 DEF Transaction
  <2>4. facts' \in [Facts -> Fact]
    BY <1>3, <1>6, <2>3 DEF LinkFacts
  <2> QED BY <1>1, <2>1, <2>2, <2>4, GoesSound DEF Types, Tables, Locking
<1>7. CASE QueueItem(t)
  <2>1. End(t) /\ UNCHANGED <<managed, live, current, facts, members, runs, canonical, begun, decisions>>
    BY <1>7 DEF QueueItem
  <2>2. items' \in [Groups -> Item]
    BY <1>7 DEF QueueItem, Queue, Types, Tables, Item
  <2> QED BY <2>1, <2>2, EndsSound DEF Types, Tables
<1> QED BY <1>4, <1>5, <1>6, <1>7

\* What the updates of rows leave of their types.
LEMMA Rows ==
  /\ \A x \in Fact : /\ [x EXCEPT !.group = Ungrouped] \in Fact
                     /\ [x EXCEPT !.status = "source_removed"] \in Fact
                     /\ [x EXCEPT !.status = "source_removed", !.text = "erased"] \in Fact
                     /\ [x EXCEPT !.text = "edited"] \in Fact
                     /\ \A review \in {"active", "disputed", "deleted"} :
                         [x EXCEPT !.review = review] \in Fact
  /\ \A x \in Item : [x EXCEPT !.live = FALSE] \in Item
  /\ \A x \in Canonical : [x EXCEPT !.live = FALSE, !.status = "required_review"] \in Canonical
<1>1. \A x \in Fact : /\ [x EXCEPT !.group = Ungrouped] \in Fact
                      /\ [x EXCEPT !.status = "source_removed"] \in Fact
                      /\ [x EXCEPT !.status = "source_removed", !.text = "erased"] \in Fact
                      /\ [x EXCEPT !.text = "edited"] \in Fact
                      /\ \A review \in {"active", "disputed", "deleted"} :
                          [x EXCEPT !.review = review] \in Fact
  BY DEF Fact
<1>2. \A x \in Item : [x EXCEPT !.live = FALSE] \in Item
  BY DEF Item
<1>3. \A x \in Canonical : [x EXCEPT !.live = FALSE, !.status = "required_review"] \in Canonical
  BY DEF Canonical
<1> QED BY <1>1, <1>2, <1>3

\* Decisions, promotions, edits and deletions.
LEMMA WritesSound ==
  ASSUME Types, NEW t \in Txns, Commit(t) \/ Insert(t) \/ Write(t) \/ Erase(t)
  PROVE  Types'
<1>1. /\ txn[t] \in Transaction /\ Requested(txn[t]) /\ Locking(txn[t])
      /\ txn[t].req \in Requests \union {NoRequest}
  BY DEF Types, Sound, Transaction
<1>2. End(t) /\ UNCHANGED <<managed, current, members, runs, begun>>
  BY DEF Commit, Insert, Write, Erase
<1>3. CASE Commit(t)
  <2>1. Req(t).group \in Groups
    BY <1>1, <1>3, RequestFields DEF Commit, At, Req, Requested
  <2>2. facts' \in [Facts -> Fact]
    <3>1. facts' = [f \in Facts |->
                      CASE f \in txn[t].kept -> [facts[f] EXCEPT !.group = Ungrouped]
                        [] f \in txn[t].found \ txn[t].kept ->
                             [facts[f] EXCEPT !.status = "source_removed"]
                        [] OTHER -> facts[f]]
      BY <1>3 DEF Commit
    <3> QED BY <3>1, Rows DEF Types, Tables
  <2>3. items' \in [Groups -> Item]
    BY <1>3, <2>1 DEF Commit, Types, Tables, Item
  <2>4. decisions' = [decisions EXCEPT ![Req(t).group] =
                        IF decisions[Req(t).group] = 2 THEN 2 ELSE decisions[Req(t).group] + 1]
    BY <1>3 DEF Commit
  <2>5. decisions' \in [Groups -> 0..2]
    BY <2>1, <2>4 DEF Types, Tables
  <2>6. UNCHANGED <<live, canonical>>
    BY <1>3 DEF Commit
  <2> QED BY <1>2, <2>2, <2>3, <2>5, <2>6, EndsSound DEF Types, Tables
<1>4. CASE Insert(t)
  <2>1. Req(t).fact \in Facts
    BY <1>1, <1>4, RequestFields DEF Insert, At, Req, Requested
  <2>2. canonical' \subseteq Canonical
    <3>1. \/ UNCHANGED canonical
          \/ canonical' = canonical \union {[fact |-> Req(t).fact, live |-> TRUE, status |-> "active"]}
      BY <1>4 DEF Insert
    <3>2. [fact |-> Req(t).fact, live |-> TRUE, status |-> "active"] \in Canonical
      BY <2>1 DEF Canonical
    <3>3. canonical \subseteq Canonical
      BY DEF Types, Tables
    <3> QED BY <3>1, <3>2, <3>3
  <2>3. UNCHANGED <<live, facts, items, decisions>>
    BY <1>4 DEF Insert
  <2> QED BY <1>2, <2>2, <2>3, EndsSound DEF Types, Tables
<1>5. CASE Write(t)
  <2>1. Req(t).fact \in Facts
    BY <1>1, <1>5, RequestFields DEF Write, Ready, At, Req, Requested
  <2>2. facts' \in [Facts -> Fact]
    <3>1. facts \in [Facts -> Fact] /\ facts[Req(t).fact] \in Fact
      BY <2>1 DEF Types, Tables
    <3>2. \E x \in Fact : facts' = [facts EXCEPT ![Req(t).fact] = x]
      BY <1>5, <3>1, Rows DEF Write
    <3> QED BY <2>1, <3>1, <3>2
  <2>3. UNCHANGED <<live, items, canonical, decisions>>
    BY <1>5 DEF Write
  <2> QED BY <1>2, <2>2, <2>3, EndsSound DEF Types, Tables
<1>6. CASE Erase(t)
  <2>1. Req(t).source \in Archives
    BY <1>1, <1>6, RequestFields DEF Erase, Ready, At, Req, Requested
  <2>2. live' \in [Archives -> BOOLEAN] /\ decisions' = decisions
    BY <1>6, <2>1 DEF Erase, Types, Tables
  <2>3. CASE ~live[Req(t).source]
    BY <1>2, <1>6, <2>2, <2>3, EndsSound DEF Erase, Types, Tables
  <2>4. CASE live[Req(t).source]
    <3> DEFINE F == FactsOf({Req(t).source})
    <3>1. facts' = [f \in Facts |-> IF f \in F THEN [facts[f] EXCEPT !.status = "source_removed",
                                                                   !.text = "erased"]
                                   ELSE facts[f]]
      BY <1>6, <2>4 DEF Erase
    <3>2. items' = [g \in Groups |-> IF g \in {facts[f].group : f \in F}
                                    THEN [items[g] EXCEPT !.live = FALSE] ELSE items[g]]
      BY <1>6, <2>4 DEF Erase
    <3>3. canonical' = {IF c.fact \in F /\ c.live
                          THEN [c EXCEPT !.live = FALSE, !.status = "required_review"]
                          ELSE c : c \in canonical}
      BY <1>6, <2>4 DEF Erase
    <3> HIDE DEF F
    <3>4. facts' \in [Facts -> Fact]
      BY <3>1, Rows DEF Types, Tables
    <3>5. items' \in [Groups -> Item]
      BY <3>2, Rows DEF Types, Tables
    <3>6. canonical' \subseteq Canonical
      BY <3>3, Rows DEF Types, Tables
    <3> QED BY <1>2, <2>2, <3>4, <3>5, <3>6, EndsSound DEF Types, Tables
  <2> QED BY <2>3, <2>4
<1> QED BY <1>3, <1>4, <1>5, <1>6

\* Edits of canonical items, and publication.
LEMMA OthersSound ==
  ASSUME Types,
         \/ \E c \in canonical : MarkDisputed(c) \/ DeleteCanonical(c)
         \/ \E a \in Archives : Publish(a)
  PROVE  Types'
<1>1. UNCHANGED <<managed, live, facts, items, members, runs, txn, begun, decisions>>
  BY DEF MarkDisputed, DeleteCanonical, Publish
<1>2. ASSUME NEW c \in canonical, MarkDisputed(c) \/ DeleteCanonical(c)
      PROVE  canonical' \subseteq Canonical /\ current' = current
  BY <1>2 DEF MarkDisputed, DeleteCanonical, Types, Tables, Canonical
<1>3. ASSUME NEW a \in Archives, Publish(a)
      PROVE  current' \in [Archives -> 1..MaxGenerations] /\ canonical' = canonical
  <2>1. current[a] < MaxGenerations /\ current' = [current EXCEPT ![a] = current[a] + 1]
    BY <1>3 DEF Publish
  <2>2. current[a] + 1 \in 1..MaxGenerations
    BY <2>1, CurationAssumption DEF Types, Tables
  <2> QED BY <1>3, <2>1, <2>2 DEF Publish, Types, Tables
<1>4. Tables'
  BY <1>1, <1>2, <1>3 DEF Types, Tables
<1> QED BY <1>1, <1>4 DEF Types, Sound, Requested, Locking

\* Every step keeps the types.
LEMMA StepSound == ASSUME Types, [Next]_vars PROVE Types'
<1>1. CASE UNCHANGED vars
  BY <1>1 DEF vars, tables, Types, Tables, Sound, Requested, Locking
<1>2. ASSUME NEW t \in Txns, Reads(t) PROVE Types'
  BY <1>2, ReadsSound DEF tables, Types, Tables
<1>3. ASSUME NEW t \in Txns, LockSource(t) PROVE Types'
  <2>1. PICK r : Update(t, r) /\ Sound(r)
    BY <1>3, LocksSource
  <2>2. UNCHANGED <<managed, tables, begun, decisions>>
    BY <1>3, LocksSource
  <2>3. txn' \in [Txns -> Transaction] /\ \A u \in Txns : Sound(txn[u])'
    BY <2>1, <2>2, Updates
  <2> QED BY <2>2, <2>3 DEF tables, Types, Tables
<1>4. ASSUME NEW t \in Txns, Step(t) PROVE Types'
  BY <1>2, <1>3, <1>4, RequestsBegin, GroupingSound, WritesSound DEF Step, Reads
<1> QED BY <1>1, <1>4, OthersSound DEF Next

\* In the beginning no transaction runs and every fact is its source's.
LEMMA InitiallySound == ASSUME Init PROVE Types
<1>1. 0 \in 0..MaxTxns /\ 1 \in 1..MaxGenerations
  BY CurationAssumption
<1>2. Tables
  BY <1>1 DEF Init, Tables, Fact, Item
<1> QED BY <1>2, OverIsSound DEF Init, Types, Sound

LEMMA AlwaysSound == Spec => []Types
BY InitiallySound, StepSound, PTL DEF Spec

\* Every variable of Curation keeps its type, in either mode.
THEOREM TypeCorrect == Spec => []TypeOK
<1>1. Types => TypeOK
  BY DEF Types, Tables, TypeOK
<1> QED BY <1>1, AlwaysSound, PTL

-----------------------------------------------------------------------------
(* Promotion *)

\* What is promoted, deleted or marked has a live source if it is live.
LEMMA StepPromoted ==
  ASSUME Types, PromotedIsLive, [Next]_vars
  PROVE  PromotedIsLive'
<1>1. CASE UNCHANGED <<live, canonical>>
  BY <1>1 DEF PromotedIsLive
<1>2. ASSUME NEW t \in Txns, Insert(t) PROVE PromotedIsLive'
  <2>1. live' = live
    BY <1>2 DEF Insert
  <2>2. \/ canonical' = canonical
        \/ /\ Promotable(t)
           /\ canonical' = canonical \union {[fact |-> Req(t).fact, live |-> TRUE, status |-> "active"]}
    BY <1>2 DEF Insert
  <2> QED BY <2>1, <2>2 DEF PromotedIsLive, Promotable
<1>3. ASSUME NEW t \in Txns, Erase(t) PROVE PromotedIsLive'
  <2>1. CASE live[Req(t).source]
    <3> DEFINE a == Req(t).source
    <3>1. /\ live' = [live EXCEPT ![a] = FALSE]
          /\ canonical' = {IF c.fact \in FactsOf({a}) /\ c.live
                             THEN [c EXCEPT !.live = FALSE, !.status = "required_review"]
                             ELSE c : c \in canonical}
      BY <1>3, <2>1 DEF Erase
    <3> HIDE DEF a
    <3>2. \A c \in canonical : c \in Canonical
      BY DEF Types, Tables
    <3>3. ASSUME NEW d \in canonical', d.live PROVE live'[Source(d.fact)]
      <4>1. PICK c \in canonical :
              d = IF c.fact \in FactsOf({a}) /\ c.live
                    THEN [c EXCEPT !.live = FALSE, !.status = "required_review"] ELSE c
        BY <3>1
      <4>2. [c EXCEPT !.live = FALSE, !.status = "required_review"].live = FALSE
        BY <3>2 DEF Canonical
      <4>3. d = c /\ c.fact \in Facts /\ c.fact \notin FactsOf({a})
        BY <3>2, <3>3, <4>1, <4>2 DEF Canonical
      <4>4. Source(c.fact) # a /\ Source(c.fact) \in Archives
        BY <4>3, SourceOfFact DEF FactsOf
      <4> QED BY <3>1, <3>3, <4>3, <4>4 DEF PromotedIsLive, Types, Tables
    <3> QED BY <3>3 DEF PromotedIsLive
  <2>2. CASE ~live[Req(t).source]
    BY <1>3, <2>2 DEF Erase, PromotedIsLive
  <2> QED BY <2>1, <2>2
<1>4. ASSUME NEW t \in Txns, Step(t), ~Insert(t), ~Erase(t) PROVE UNCHANGED <<live, canonical>>
  <2>1. CASE Reads(t)
    BY <2>1, ReadsSound DEF tables
  <2>2. CASE \/ BeginDetect(t) \/ BeginResolve(t) \/ BeginPromote(t) \/ BeginEdit(t) \/ BeginDelete(t)
    BY <2>2 DEF BeginDetect, BeginResolve, BeginPromote, BeginEdit, BeginDelete, BeginWith, tables
  <2>3. CASE LockSource(t)
    BY <2>3, LocksSource DEF tables
  <2>4. CASE Decide(t) \/ CreateGroup(t) \/ LinkFacts(t) \/ QueueItem(t) \/ Commit(t) \/ Write(t)
    BY <2>4 DEF Decide, CreateGroup, LinkFacts, QueueItem, Commit, Write
  <2> QED BY <1>4, <2>1, <2>2, <2>3, <2>4 DEF Step, Reads
<1>5. ASSUME NEW c \in canonical, MarkDisputed(c) \/ DeleteCanonical(c) PROVE PromotedIsLive'
  <2>1. c \in Canonical /\ live' = live
    BY <1>5 DEF MarkDisputed, DeleteCanonical, Types, Tables
  <2>2. PICK d : /\ canonical' = (canonical \ {c}) \union {d}
                 /\ d.live => c.live /\ d.fact = c.fact
    <3>1. CASE MarkDisputed(c)
      <4>1. canonical' = (canonical \ {c}) \union {[c EXCEPT !.status = "disputed"]}
        BY <3>1 DEF MarkDisputed
      <4>2. [c EXCEPT !.status = "disputed"].live = c.live /\ [c EXCEPT !.status = "disputed"].fact = c.fact
        BY <2>1 DEF Canonical
      <4> QED BY <4>1, <4>2
    <3>2. CASE DeleteCanonical(c)
      <4>1. canonical' = (canonical \ {c}) \union {[c EXCEPT !.live = FALSE]}
        BY <3>2 DEF DeleteCanonical
      <4>2. [c EXCEPT !.live = FALSE].live = FALSE /\ [c EXCEPT !.live = FALSE].fact = c.fact
        BY <2>1 DEF Canonical
      <4> QED BY <4>1, <4>2
    <3> QED BY <1>5, <3>1, <3>2
  <2>3. \A e \in canonical' : e \in canonical \/ e = d
    BY <2>2
  <2> QED BY <2>1, <2>2, <2>3 DEF PromotedIsLive
<1>6. ASSUME NEW a \in Archives, Publish(a) PROVE UNCHANGED <<live, canonical>>
  BY <1>6 DEF Publish
<1>7. CASE UNCHANGED vars
  BY <1>1, <1>7 DEF vars, tables
<1> QED BY <1>1, <1>2, <1>3, <1>4, <1>5, <1>6, <1>7 DEF Next

\* A canonical item that is live and came from a fact has a live source, with
\* generations and without them, however edits, promotions and deletions meet.
THEOREM PromotedStaysLive == Spec => []PromotedIsLive
<1>1. Init => PromotedIsLive
  BY DEF Init, PromotedIsLive
<1>2. Types /\ PromotedIsLive /\ [Next]_vars => PromotedIsLive'
  BY StepPromoted
<1> QED BY <1>1, <1>2, AlwaysSound, PTL DEF Spec

-----------------------------------------------------------------------------
(* Deadlock *)

\* A transaction that holds the row of a fact waits for nobody: it is about to
\* insert.  So whoever waits in a circle waits for a source.
LEMMA CircleIsOfSources ==
  ASSUME Types, managed, NEW S, S \subseteq Txns, \A t \in S : Blockers(t) \cap S # {}
  PROVE  \A t \in S : At(t) = "lock" /\ \E u \in S : First(txn[t].todo) \in txn[u].held
<1>1. \A u \in Txns : txn[u].row # {} => Blockers(u) = {}
  BY DEF Types, Sound, Locking, Blockers, At
<1>2. ASSUME NEW t \in S, At(t) \in {"row", "write", "erase"} PROVE FALSE
  <2>1. PICK u \in S : u \in Blockers(t)
    OBVIOUS
  <2>2. \E F : Blockers(t) \subseteq RowOwners(F)
    BY <1>2 DEF Blockers
  <2>3. u \in Txns /\ txn[u].row # {}
    BY <2>1, <2>2 DEF RowOwners
  <2> QED BY <1>1, <2>3
<1>3. ASSUME NEW t \in S PROVE At(t) = "lock"
  BY <1>2 DEF Blockers
<1>4. ASSUME NEW t \in S PROVE \E u \in S : First(txn[t].todo) \in txn[u].held
  BY <1>3 DEF Blockers, Holders
<1> QED BY <1>3, <1>4

\* Whatever has a size that is a number, something has the least.
LEMMA Smallest ==
  ASSUME NEW S, S # {}, NEW size \in [S -> Nat]
  PROVE  \E t \in S : \A u \in S : size[t] <= size[u]
<1> DEFINE N == {size[t] : t \in S}
<1>1. N \subseteq Nat /\ N # {}
  OBVIOUS
<1>2. First(N) \in N /\ \A n \in N : First(N) <= n
  BY <1>1, LeastOf
<1> QED BY <1>2

\* Sources are locked in the order of their ids, so along a circle of waiting
\* transactions ever fewer sources would be left to lock.
LEMMA NoCircle ==
  ASSUME Types
  PROVE  NoDeadlock
<1> SUFFICES ASSUME managed, NEW S \in (SUBSET Txns) \ {{}},
                    \A t \in S : Blockers(t) \cap S # {}
             PROVE  FALSE
  BY DEF NoDeadlock
<1> DEFINE next(t) == First(txn[t].todo)
           above(t) == {a \in Archives : next(t) < a}
           size == [t \in S |-> Cardinality(above(t))]
<1>1. \A t \in S : At(t) = "lock" /\ \E u \in S : next(t) \in txn[u].held
  BY CircleIsOfSources
<1>2. \A t \in S : /\ txn[t].todo \subseteq Archives /\ txn[t].todo # {}
                   /\ txn[t].held \subseteq Archives
                   /\ \A a \in txn[t].held, b \in txn[t].todo : a < b
  BY <1>1 DEF Types, Sound, Locking, Transaction, At
<1>3. \A t \in S : next(t) \in txn[t].todo /\ next(t) \in Archives
  BY <1>2, LeastOf, CurationAssumption
<1>4. ASSUME NEW t \in S
      PROVE  \E u \in S : next(t) < next(u) /\ next(t) \in Archives /\ next(u) \in Archives
  <2>1. PICK u \in S : next(t) \in txn[u].held
    BY <1>1
  <2> QED BY <1>2, <1>3, <2>1
<1>5. \A t \in S : above(t) \in SUBSET Archives /\ IsFiniteSet(above(t)) /\ Cardinality(above(t)) \in Nat
  BY FS_Subset, FS_CardinalityType, CurationAssumption
<1>6. size \in [S -> Nat]
  BY <1>5
<1>7. PICK t \in S : \A u \in S : size[t] <= size[u]
  <2>1. S # {}
    OBVIOUS
  <2> HIDE DEF size
  <2> QED BY <1>6, <2>1, Smallest
<1>8. PICK u \in S : next(t) < next(u) /\ next(t) \in Archives /\ next(u) \in Archives
  BY <1>4
<1>9. above(u) \subseteq above(t) /\ above(u) # above(t)
  <2>1. next(t) \in Nat /\ next(u) \in Nat
    BY <1>8, CurationAssumption
  <2>2. next(u) \in above(t) /\ next(u) \notin above(u)
    BY <1>8, <2>1
  <2>3. \A a \in Archives : next(u) < a => next(t) < a
    BY <1>8, <2>1, CurationAssumption
  <2> HIDE DEF next
  <2> QED BY <2>2, <2>3
<1>10. Cardinality(above(u)) <= Cardinality(above(t)) /\ Cardinality(above(u)) # Cardinality(above(t))
  BY <1>5, <1>9, FS_Subset
<1>11. Cardinality(above(t)) <= Cardinality(above(u))
  BY <1>7
<1> HIDE DEF above
<1> QED BY <1>5, <1>10, <1>11

\* With managed generations no transactions ever wait for each other in a circle,
\* however many there are and whatever sources they lock.
THEOREM NeverDeadlocked == Spec => []NoDeadlock
BY NoCircle, AlwaysSound, PTL

-----------------------------------------------------------------------------
(* Decisions.  That a group is decided on once is not inductive: it rests on *)
(* what a reviewer's transaction knows at each stage, which rests in turn on *)
(* the locks of the sources whose facts it judges.                          *)

\* A source is locked by one transaction.
Exclusive == \A t, u \in Txns : txn[t].held \cap txn[u].held # {} => t = u

\* A fact in a group was published, and an active fact has a live source.
Grounded ==
    \A f \in Facts :
      /\ facts[f].group # Ungrouped => f[2] <= current[Source(f)]
      /\ facts[f].status = "active" => live[Source(f)]

\* A group that was decided on is empty, and was decided on once.
Settled ==
    \A g \in Groups :
      /\ decisions[g] <= 1
      /\ decisions[g] # 0 => InGroup(g) = {} /\ items[g].status # "absent"

\* The facts of a group that is up for a decision are in no other.
Membership ==
    \A g \in Groups : items[g].status = "pending" =>
      \A f \in members[g] : facts[f].group = g

\* What a reviewer's transaction knows: before it decides, no fact of its group
\* has a source it did not read; when it does, it has exactly the facts of the
\* group, all of them visible and locked.
Deciding(x) ==
    /\ x.req.op = "resolve" => items[x.req.group].status # "absent"
    /\ x.req.op = "resolve" /\ x.at \in {"lock", "apply"} =>
         /\ InGroup(x.req.group) \subseteq x.found
         /\ \A f \in x.found : Source(f) \in x.held \union x.todo
    /\ x.at = "commit" =>
         /\ x.found = InGroup(x.req.group)
         /\ x.kept # {} /\ x.kept \subseteq x.found
         /\ \A f \in x.found : Visible(f) /\ Source(f) \in x.held

Care ==
    /\ Exclusive /\ Grounded
    /\ managed => Settled /\ Membership /\ \A t \in Txns : Deciding(txn[t])

\* The requests that a user, a reviewer or a dispatch makes.
Begins(t) ==
    BeginDetect(t) \/ BeginResolve(t) \/ BeginPromote(t) \/ BeginEdit(t) \/ BeginDelete(t)

\* What a step other than that of a lock does to what a transaction holds.
LEMMA KeepsLocks ==
  ASSUME Types, NEW t \in Txns, Step(t), ~LockSource(t)
  PROVE  /\ \A u \in Txns : u # t => txn'[u] = txn[u]
         /\ txn'[t].held \subseteq txn[t].held
         /\ managed' = managed
         /\ End(t) \/ Begins(t) \/ txn'[t].req = txn[t].req
<1>1. txn[t] \in Transaction /\ txn \in [Txns -> Transaction]
  BY DEF Types
<1>2. CASE End(t)
  <2>1. txn' = [txn EXCEPT ![t] = Over] /\ Over.held = {}
    BY <1>2 DEF End, Update, Over
  <2>2. managed' = managed
    BY <1>2 DEF Step, BeginDetect, BeginResolve, BeginPromote, BeginEdit, BeginDelete, BeginWith,
                Abort, LockSource, CheckRun, FindCandidates, Decide, CreateGroup, LinkFacts,
                QueueItem, ReadItem, ReadFacts, Apply, Commit, LockFact, Insert, ReadFact,
                Write, Erase
  <2> QED BY <1>1, <1>2, <2>1, <2>2
<1>3. CASE ~End(t)
  <2>1. CASE Begins(t)
    <3>1. PICK m, todo : BeginWith(t, m, todo)
      BY <2>1 DEF Begins, BeginDetect, BeginResolve, BeginPromote, BeginEdit, BeginDelete
    <3>2. Update(t, [Over EXCEPT !.at = Entry(m), !.req = m, !.todo = todo]) /\ managed' = managed
      BY <3>1 DEF BeginWith
    <3>3. [Over EXCEPT !.at = Entry(m), !.req = m, !.todo = todo].held = {}
      BY DEF Over
    <3> QED BY <1>1, <2>1, <3>2, <3>3 DEF Update
  <2>2. CASE Reads(t) \/ CreateGroup(t) \/ LinkFacts(t)
    <3>1. \E r : Update(t, r) /\ r.held = txn[t].held /\ r.req = txn[t].req
      <4>1. CASE CheckRun(t) \/ ReadItem(t) \/ ReadFact(t) \/ LinkFacts(t)
        <5>1. PICK stage : Update(t, [txn[t] EXCEPT !.at = stage])
          BY <1>3, <4>1 DEF CheckRun, ReadItem, ReadFact, LinkFacts, Goto
        <5>2. /\ [txn[t] EXCEPT !.at = stage].held = txn[t].held
              /\ [txn[t] EXCEPT !.at = stage].req = txn[t].req
          BY <1>1 DEF Transaction
        <5> QED BY <5>1, <5>2
      <4>2. CASE FindCandidates(t)
        <5>1. PICK stage, found, todo :
                \/ Update(t, [txn[t] EXCEPT !.at = stage, !.found = found, !.todo = todo])
                \/ Update(t, [txn[t] EXCEPT !.at = stage, !.found = found])
          BY <1>3, <4>2 DEF FindCandidates
        <5>2. /\ [txn[t] EXCEPT !.at = stage, !.found = found, !.todo = todo].held = txn[t].held
              /\ [txn[t] EXCEPT !.at = stage, !.found = found].held = txn[t].held
              /\ [txn[t] EXCEPT !.at = stage, !.found = found, !.todo = todo].req = txn[t].req
              /\ [txn[t] EXCEPT !.at = stage, !.found = found].req = txn[t].req
          BY <1>1 DEF Transaction
        <5> QED BY <5>1, <5>2
      <4>3. CASE ReadFacts(t)
        <5>1. PICK F, todo :
                \/ Update(t, [[txn[t] EXCEPT !.found = F, !.todo = todo] EXCEPT !.at = "apply", !.todo = {}])
                \/ Update(t, [[txn[t] EXCEPT !.found = F, !.todo = todo] EXCEPT !.at = "lock"])
          BY <1>3, <4>3 DEF ReadFacts
        <5>2. /\ [[txn[t] EXCEPT !.found = F, !.todo = todo] EXCEPT !.at = "apply", !.todo = {}].held
                   = txn[t].held
              /\ [[txn[t] EXCEPT !.found = F, !.todo = todo] EXCEPT !.at = "lock"].held = txn[t].held
              /\ [[txn[t] EXCEPT !.found = F, !.todo = todo] EXCEPT !.at = "apply", !.todo = {}].req
                   = txn[t].req
              /\ [[txn[t] EXCEPT !.found = F, !.todo = todo] EXCEPT !.at = "lock"].req = txn[t].req
          BY <1>1 DEF Transaction
        <5> QED BY <5>1, <5>2
      <4>4. CASE Apply(t)
        <5>1. PICK F, kept : Update(t, [txn[t] EXCEPT !.at = "commit", !.found = F, !.kept = kept])
          BY <1>3, <4>4 DEF Apply
        <5>2. /\ [txn[t] EXCEPT !.at = "commit", !.found = F, !.kept = kept].held = txn[t].held
              /\ [txn[t] EXCEPT !.at = "commit", !.found = F, !.kept = kept].req = txn[t].req
          BY <1>1 DEF Transaction
        <5> QED BY <5>1, <5>2
      <4>5. CASE LockFact(t)
        <5>1. PICK row, stage : Update(t, [txn[t] EXCEPT !.row = row, !.at = stage])
          BY <4>5 DEF LockFact
        <5>2. /\ [txn[t] EXCEPT !.row = row, !.at = stage].held = txn[t].held
              /\ [txn[t] EXCEPT !.row = row, !.at = stage].req = txn[t].req
          BY <1>1 DEF Transaction
        <5> QED BY <5>1, <5>2
      <4>6. CASE CreateGroup(t)
        <5>1. PICK g : Update(t, [txn[t] EXCEPT !.at = "link", !.group = g])
          BY <4>6 DEF CreateGroup
        <5>2. /\ [txn[t] EXCEPT !.at = "link", !.group = g].held = txn[t].held
              /\ [txn[t] EXCEPT !.at = "link", !.group = g].req = txn[t].req
          BY <1>1 DEF Transaction
        <5> QED BY <5>1, <5>2
      <4> QED BY <1>3, <2>2, <4>1, <4>2, <4>3, <4>4, <4>5, <4>6 DEF Reads, Abort
    <3>2. managed' = managed
      BY <2>2, ReadsSound DEF CreateGroup, LinkFacts
    <3> QED BY <1>1, <3>1, <3>2 DEF Update
  <2> QED BY <1>3, <2>1, <2>2
          DEF Step, Reads, Begins, Decide, QueueItem, Commit, Insert, Write, Erase
<1> QED BY <1>2, <1>3

\* A lock is granted when nobody else has it.
LEMMA StepExclusive == ASSUME Types, Exclusive, [Next]_vars PROVE Exclusive'
<1>1. CASE UNCHANGED txn
  BY <1>1 DEF Exclusive
<1>2. ASSUME NEW t \in Txns, Step(t), ~LockSource(t) PROVE Exclusive'
  <2>1. \A u \in Txns : txn'[u].held \subseteq txn[u].held
    BY <1>2, KeepsLocks
  <2> QED BY <2>1 DEF Exclusive
<1>3. ASSUME NEW t \in Txns, LockSource(t) PROVE Exclusive'
  <2> DEFINE a == First(txn[t].todo)
  <2>1. PICK r : Update(t, r) /\ Sound(r) /\ r.held = txn[t].held \union {a}
    BY <1>3, LocksSource
  <2>2. txn'[t] = r /\ \A u \in Txns : u # t => txn'[u] = txn[u]
    BY <2>1 DEF Update, Types
  <2>3. \A u \in Txns : u # t => a \notin txn[u].held
    BY <1>3 DEF LockSource, Ready, Blockers, Holders, At
  <2> HIDE DEF a
  <2> QED BY <2>1, <2>2, <2>3 DEF Exclusive
<1>4. CASE UNCHANGED vars
  BY <1>1, <1>4 DEF vars
<1>5. ASSUME NEW c \in canonical, MarkDisputed(c) \/ DeleteCanonical(c) PROVE UNCHANGED txn
  BY <1>5 DEF MarkDisputed, DeleteCanonical
<1>6. ASSUME NEW a \in Archives, Publish(a) PROVE UNCHANGED txn
  BY <1>6 DEF Publish
<1> QED BY <1>1, <1>2, <1>3, <1>4, <1>5, <1>6 DEF Next

-----------------------------------------------------------------------------
(* What each operation does to the facts and to the groups *)

\* Facts that are grouped under the locks were free, and their group is new.
LEMMA DecideEffect ==
  ASSUME Types, NEW t \in Txns, Decide(t)
  PROVE  /\ UNCHANGED <<managed, live, current, decisions>>
         /\ \/ UNCHANGED <<facts, items, members>>
            \/ \E g \in Groups, L \in SUBSET Facts :
                 /\ items[g].status = "absent"
                 /\ \A f \in L : Free(f)
                 /\ \A f \in Facts : /\ facts'[f].status = facts[f].status
                                     /\ facts'[f].group = IF f \in L THEN g ELSE facts[f].group
                 /\ items'[g].status = "pending" /\ members'[g] = L
                 /\ \A h \in Groups \ {g} : items'[h] = items[h] /\ members'[h] = members[h]
<1>1. UNCHANGED <<managed, live, current, decisions>>
  BY DEF Decide
<1>2. CASE UNCHANGED <<facts, items, members>>
  BY <1>1, <1>2
<1>3. CASE ~UNCHANGED <<facts, items, members>>
  <2>1. PICK g \in Groups : /\ items[g].status = "absent"
                            /\ Link(ToLink(t), g) /\ Queue(g)
                            /\ members' = [members EXCEPT ![g] = ToLink(t)]
    BY <1>3 DEF Decide
  <2>2. ToLink(t) \in SUBSET Facts /\ \A f \in ToLink(t) : Free(f)
    BY DEF ToLink, FactsOf
  <2>3. \A f \in Facts : /\ facts'[f].status = facts[f].status
                         /\ facts'[f].group = IF f \in ToLink(t) THEN g ELSE facts[f].group
    <3>1. \A f \in Facts : facts[f] \in Fact
      BY DEF Types, Tables
    <3>2. \A f \in Facts : facts'[f] = IF f \in ToLink(t) THEN [facts[f] EXCEPT !.group = g] ELSE facts[f]
      BY <2>1 DEF Link
    <3> QED BY <3>1, <3>2 DEF Fact
  <2>4. /\ items'[g].status = "pending" /\ members'[g] = ToLink(t)
        /\ \A h \in Groups \ {g} : items'[h] = items[h] /\ members'[h] = members[h]
    BY <2>1 DEF Queue, Types, Tables
  <2> QED BY <1>1, <2>1, <2>2, <2>3, <2>4
<1> QED BY <1>2, <1>3

\* Of the facts of a group that are judged, some leave the group, the rest their
\* readers; its item is pending no more.
LEMMA CommitEffect ==
  ASSUME Types, NEW t \in Txns, Commit(t)
  PROVE  /\ UNCHANGED <<managed, live, current, members>>
         /\ Req(t).group \in Groups
         /\ \A f \in Facts :
              /\ facts'[f].status = IF f \in txn[t].found \ txn[t].kept
                                      THEN "source_removed" ELSE facts[f].status
              /\ facts'[f].group = IF f \in txn[t].kept THEN Ungrouped ELSE facts[f].group
         /\ items'[Req(t).group].status \in {"resolved", "dismissed"}
         /\ decisions'[Req(t).group] = IF decisions[Req(t).group] = 2
                                          THEN 2 ELSE decisions[Req(t).group] + 1
         /\ \A h \in Groups \ {Req(t).group} : items'[h] = items[h] /\ decisions'[h] = decisions[h]
<1>1. UNCHANGED <<managed, live, current, members>>
  BY DEF Commit
<1>2. Req(t).group \in Groups
  BY RequestFields DEF Types, Sound, Transaction, Requested, Commit, At, Req
<1>3. \A f \in Facts : facts[f] \in Fact
  BY DEF Types, Tables
<1>4. \A f \in Facts : facts'[f] =
        CASE f \in txn[t].kept -> [facts[f] EXCEPT !.group = Ungrouped]
          [] f \in txn[t].found \ txn[t].kept -> [facts[f] EXCEPT !.status = "source_removed"]
          [] OTHER -> facts[f]
  BY DEF Commit
<1>5. \A f \in Facts :
        /\ facts'[f].status = IF f \in txn[t].found \ txn[t].kept
                                THEN "source_removed" ELSE facts[f].status
        /\ facts'[f].group = IF f \in txn[t].kept THEN Ungrouped ELSE facts[f].group
  BY <1>3, <1>4 DEF Fact
<1>6. /\ items' = [items EXCEPT ![Req(t).group] =
                     [items[Req(t).group] EXCEPT !.status =
                        IF Req(t).verdict = "dismiss" THEN "dismissed" ELSE "resolved"]]
      /\ decisions' = [decisions EXCEPT ![Req(t).group] =
                          IF decisions[Req(t).group] = 2 THEN 2 ELSE decisions[Req(t).group] + 1]
  BY DEF Commit
<1>7. items \in [Groups -> Item] /\ decisions \in [Groups -> 0..2]
  BY DEF Types, Tables
<1>8. /\ items'[Req(t).group].status \in {"resolved", "dismissed"}
      /\ decisions'[Req(t).group] = IF decisions[Req(t).group] = 2
                                       THEN 2 ELSE decisions[Req(t).group] + 1
      /\ \A h \in Groups \ {Req(t).group} : items'[h] = items[h] /\ decisions'[h] = decisions[h]
  BY <1>2, <1>6, <1>7 DEF Item
<1> QED BY <1>1, <1>2, <1>5, <1>8

\* A deletion takes the facts of its source from all readers, and no other.
LEMMA EraseEffect ==
  ASSUME Types, NEW t \in Txns, Erase(t)
  PROVE  /\ UNCHANGED <<managed, current, members, decisions>>
         /\ Req(t).source \in Archives /\ Req(t).source \in txn[t].held
         /\ \A h \in Groups : items'[h].status = items[h].status
         /\ \A f \in Facts : /\ facts'[f].group = facts[f].group
                             /\ Source(f) # Req(t).source => facts'[f].status = facts[f].status
         /\ \/ UNCHANGED <<live, facts>>
            \/ /\ \A a \in Archives \ {Req(t).source} : live'[a] = live[a]
               /\ \A f \in Facts : Source(f) = Req(t).source => facts'[f].status = "source_removed"
<1> DEFINE a == Req(t).source
<1>1. UNCHANGED <<managed, current, members, decisions>>
  BY DEF Erase
<1>2. a \in Archives /\ a \in txn[t].held
  BY RequestFields DEF Types, Sound, Transaction, Requested, Locking, Erase, Ready, At, Req
<1>3. (\A f \in Facts : facts[f] \in Fact) /\ items \in [Groups -> Item] /\ live \in [Archives -> BOOLEAN]
  BY DEF Types, Tables
<1>4. CASE ~live[a]
  BY <1>1, <1>2, <1>4 DEF Erase
<1>5. CASE live[a]
  <2>1. /\ live' = [live EXCEPT ![a] = FALSE]
        /\ \A f \in Facts : facts'[f] = IF f \in FactsOf({a})
                                 THEN [facts[f] EXCEPT !.status = "source_removed", !.text = "erased"]
                                 ELSE facts[f]
    BY <1>5 DEF Erase
  <2>2. \A h \in Groups : items'[h] \in {items[h], [items[h] EXCEPT !.live = FALSE]}
    BY <1>5 DEF Erase
  <2> HIDE DEF a
  <2>3. \A h \in Groups : items'[h].status = items[h].status
    BY <1>3, <2>2 DEF Item
  <2>4. \A f \in Facts : /\ facts'[f].group = facts[f].group
                         /\ facts'[f].status = IF Source(f) = a THEN "source_removed"
                                                ELSE facts[f].status
    BY <1>3, <2>1 DEF FactsOf, Fact
  <2> QED BY <1>1, <1>2, <1>3, <2>1, <2>3, <2>4 DEF a
<1> QED BY <1>4, <1>5

\* An edit changes neither the status of a fact nor its group.
LEMMA WriteEffect ==
  ASSUME Types, NEW t \in Txns, Write(t)
  PROVE  /\ UNCHANGED <<managed, live, current, items, members, decisions>>
         /\ \A f \in Facts : facts'[f].status = facts[f].status /\ facts'[f].group = facts[f].group
<1>1. UNCHANGED <<managed, live, current, items, members, decisions>>
  BY DEF Write
<1>2. facts \in [Facts -> Fact]
  BY DEF Types, Tables
<1>3. \/ facts' = [facts EXCEPT ![Req(t).fact] = [facts[Req(t).fact] EXCEPT !.text = "edited"]]
      \/ \E review \in {"active", "disputed", "deleted"} :
           facts' = [facts EXCEPT ![Req(t).fact] = [facts[Req(t).fact] EXCEPT !.review = review]]
  BY DEF Write
<1>4. \A f \in Facts : facts'[f].status = facts[f].status /\ facts'[f].group = facts[f].group
  BY <1>2, <1>3 DEF Fact
<1> QED BY <1>1, <1>4

\* Everything else leaves the facts, the items and the decisions alone, but for
\* publication and for the grouping without generations.
LEMMA QuietEffect ==
  ASSUME Types, NEW t \in Txns, Step(t),
         ~Decide(t), ~Commit(t), ~Write(t), ~Erase(t), ~LinkFacts(t)
  PROVE  /\ UNCHANGED <<managed, live, current, facts, members, decisions>>
         /\ managed => items' = items
<1>1. CASE Reads(t)
  BY <1>1, ReadsSound DEF tables
<1>2. CASE \/ BeginDetect(t) \/ BeginResolve(t) \/ BeginPromote(t) \/ BeginEdit(t) \/ BeginDelete(t)
  BY <1>2 DEF BeginDetect, BeginResolve, BeginPromote, BeginEdit, BeginDelete, BeginWith, tables
<1>3. CASE LockSource(t)
  BY <1>3, LocksSource DEF tables
<1>4. CASE Insert(t)
  BY <1>4 DEF Insert
<1>5. CASE CreateGroup(t) \/ QueueItem(t)
  BY <1>5 DEF CreateGroup, QueueItem, Types, Sound, Locking, At
<1> QED BY <1>1, <1>2, <1>3, <1>4, <1>5 DEF Step, Reads

\* With generations facts are not linked without locks.
LEMMA LinkEffect ==
  ASSUME Types, NEW t \in Txns, LinkFacts(t)
  PROVE  /\ ~managed /\ UNCHANGED <<managed, live, current>>
         /\ \A f \in Facts : /\ facts'[f].status = facts[f].status
                             /\ facts'[f].group # facts[f].group => Active(f)
<1>1. ~managed /\ UNCHANGED <<managed, live, current>>
  BY DEF LinkFacts, Types, Sound, Locking, At
<1>2. \A f \in Facts : facts[f] \in Fact
  BY DEF Types, Tables
<1>3. \A f \in Facts : \/ facts'[f] = facts[f]
                       \/ Active(f) /\ facts'[f] = [facts[f] EXCEPT !.group = txn[t].group]
  <2> DEFINE F == {f \in FactsOf({Source(c) : c \in txn[t].found \union {Req(t).fact}}) :
                     Active(f) /\ facts[f].group = Ungrouped}
  <2>1. Link(F, txn[t].group)
    BY DEF LinkFacts
  <2>2. \A f \in F : Active(f)
    OBVIOUS
  <2> HIDE DEF F
  <2> QED BY <2>1, <2>2 DEF Link
<1>4. \A f \in Facts : [facts[f] EXCEPT !.group = txn[t].group].status = facts[f].status
  BY <1>2 DEF Fact
<1>5. \A f \in Facts : /\ facts'[f].status = facts[f].status
                       /\ facts'[f].group # facts[f].group => Active(f)
  BY <1>3, <1>4, Zenon
<1> QED BY <1>1, <1>5

\* Publication moves the current generation of a source that nobody holds.
LEMMA OthersEffect ==
  ASSUME Types,
         \/ \E c \in canonical : MarkDisputed(c) \/ DeleteCanonical(c)
         \/ \E a \in Archives : Publish(a)
  PROVE  /\ UNCHANGED <<managed, live, facts, items, members, txn, decisions>>
         /\ \A a \in Archives : /\ current[a] <= current'[a]
                                /\ current'[a] # current[a] => Holders(a) = {}
<1>1. UNCHANGED <<managed, live, facts, items, members, txn, decisions>>
  BY DEF MarkDisputed, DeleteCanonical, Publish
<1>2. current \in [Archives -> 1..MaxGenerations] /\ MaxGenerations \in Nat
  BY CurationAssumption DEF Types, Tables
<1>3. CASE UNCHANGED current
  <2>1. \A a \in Archives : current[a] <= current[a]
    BY <1>2
  <2> QED BY <1>1, <1>3, <2>1
<1>4. ASSUME NEW b \in Archives, Publish(b)
      PROVE  \A a \in Archives : /\ current[a] <= current'[a]
                                 /\ current'[a] # current[a] => Holders(a) = {}
  <2>1. current' = [current EXCEPT ![b] = current[b] + 1] /\ Holders(b) = {}
    BY <1>4 DEF Publish
  <2>2. \A a \in Archives : current'[a] = IF a = b THEN current[b] + 1 ELSE current[a]
    BY <1>2, <2>1
  <2> QED BY <1>2, <2>1, <2>2
<1> QED BY <1>1, <1>3, <1>4 DEF MarkDisputed, DeleteCanonical

-----------------------------------------------------------------------------
(* Decisions, continued *)

\* What a step that changes nothing of a fact but its generation's turn keeps.
LEMMA StepGrounded == ASSUME Types, Grounded, [Next]_vars PROVE Grounded'
<1>1. \A f \in Facts : /\ Source(f) \in Archives /\ f[2] \in Nat
                       /\ current[Source(f)] \in Nat
  <2>1. 1..MaxGenerations \subseteq Nat
    BY CurationAssumption
  <2>2. current \in [Archives -> 1..MaxGenerations]
    BY DEF Types, Tables
  <2> QED BY <2>1, <2>2 DEF Facts, Source
<1>2. CASE UNCHANGED <<live, current, facts>>
  BY <1>2 DEF Grounded
<1>3. ASSUME NEW t \in Txns, Decide(t) PROVE Grounded'
  <2>1. UNCHANGED <<live, current>>
    BY <1>3, DecideEffect
  <2>2. \A f \in Facts : /\ facts'[f].status = facts[f].status
                         /\ facts'[f].group # facts[f].group => Active(f)
    BY <1>3, DecideEffect DEF Free
  <2> QED BY <1>1, <2>1, <2>2 DEF Grounded, Active
<1>4. ASSUME NEW t \in Txns, Commit(t) PROVE Grounded'
  BY <1>1, <1>4, CommitEffect DEF Grounded
<1>5. ASSUME NEW t \in Txns, Write(t) PROVE Grounded'
  BY <1>5, WriteEffect DEF Grounded
<1>6. ASSUME NEW t \in Txns, Erase(t) PROVE Grounded'
  BY <1>1, <1>6, EraseEffect DEF Grounded
<1>7. ASSUME NEW t \in Txns, LinkFacts(t) PROVE Grounded'
  BY <1>1, <1>7, LinkEffect DEF Grounded, Active
<1>8. ASSUME NEW t \in Txns, Step(t) PROVE Grounded'
  BY <1>2, <1>3, <1>4, <1>5, <1>6, <1>7, <1>8, QuietEffect
<1>9. CASE \/ \E c \in canonical : MarkDisputed(c) \/ DeleteCanonical(c)
           \/ \E a \in Archives : Publish(a)
  <2>1. UNCHANGED <<live, facts>> /\ \A a \in Archives : current[a] <= current'[a]
    BY <1>9, OthersEffect
  <2>2. \A a \in Archives : current'[a] \in Nat
    BY StepSound, CurationAssumption DEF Types, Tables
  <2>3. \A f \in Facts : f[2] <= current[Source(f)] => f[2] <= current'[Source(f)]
    BY <1>1, <2>1, <2>2
  <2> QED BY <2>1, <2>3 DEF Grounded
<1>10. CASE UNCHANGED vars
  BY <1>2, <1>10 DEF vars, tables
<1> QED BY <1>8, <1>9, <1>10 DEF Next

\* A group that exists never gains a fact, and never ceases to exist.
LEMMA Shrinks ==
  ASSUME Types, Grounded, managed, [Next]_vars,
         NEW g \in Groups, items[g].status # "absent"
  PROVE  items'[g].status # "absent" /\ InGroup(g)' \subseteq InGroup(g)
<1>1. \A f \in Facts : /\ Source(f) \in Archives /\ f[2] \in Nat
                       /\ facts[f].group = g => f[2] <= current[Source(f)]
  <2>1. g # Ungrouped
    BY CurationAssumption DEF Ungrouped
  <2> QED BY <2>1 DEF Grounded, Facts, Source
<1>2. ASSUME \A f \in Facts : facts'[f].status = "active" /\ facts'[f].group = g
                 => facts[f].status = "active" /\ facts[f].group = g
      PROVE  InGroup(g)' \subseteq InGroup(g)
  BY <1>1, <1>2 DEF InGroup, Active
<1>3. ASSUME NEW t \in Txns, Decide(t)
      PROVE  items'[g].status # "absent" /\ InGroup(g)' \subseteq InGroup(g)
  BY <1>2, <1>3, DecideEffect
<1>4. ASSUME NEW t \in Txns, Commit(t)
      PROVE  items'[g].status # "absent" /\ InGroup(g)' \subseteq InGroup(g)
  <2>1. g # Ungrouped
    BY CurationAssumption DEF Ungrouped
  <2>2. InGroup(g)' \subseteq InGroup(g)
    <3>1. \A f \in Facts : facts'[f].status \in {facts[f].status, "source_removed"}
                          /\ facts'[f].group \in {facts[f].group, Ungrouped}
      BY <1>4, CommitEffect
    <3> QED BY <1>2, <2>1, <3>1
  <2>3. items'[g].status \in {items[g].status, "resolved", "dismissed"}
    BY <1>4, CommitEffect
  <2> QED BY <2>2, <2>3
<1>5. ASSUME NEW t \in Txns, Write(t)
      PROVE  items'[g].status # "absent" /\ InGroup(g)' \subseteq InGroup(g)
  BY <1>2, <1>5, WriteEffect
<1>6. ASSUME NEW t \in Txns, Erase(t)
      PROVE  items'[g].status # "absent" /\ InGroup(g)' \subseteq InGroup(g)
  BY <1>2, <1>6, EraseEffect
<1>7. ASSUME NEW t \in Txns, Step(t)
      PROVE  items'[g].status # "absent" /\ InGroup(g)' \subseteq InGroup(g)
  BY <1>2, <1>3, <1>4, <1>5, <1>6, <1>7, LinkEffect, QuietEffect
<1>8. CASE \/ \E c \in canonical : MarkDisputed(c) \/ DeleteCanonical(c)
           \/ \E a \in Archives : Publish(a)
  BY <1>2, <1>8, OthersEffect
<1>9. CASE UNCHANGED vars
  BY <1>2, <1>9 DEF vars, tables
<1> QED BY <1>7, <1>8, <1>9 DEF Next

\* A step of somebody else.
Elsewhere(t) ==
    \/ \E u \in Txns \ {t} : Step(u)
    \/ \E c \in canonical : MarkDisputed(c) \/ DeleteCanonical(c)
    \/ \E a \in Archives : Publish(a)
    \/ UNCHANGED vars

\* Nobody else touches a grouped fact while its source is locked.
LEMMA Protected ==
  ASSUME Types, Exclusive, managed, \A u \in Txns : Deciding(txn[u]),
         NEW t \in Txns, Elsewhere(t),
         NEW f \in Facts, Source(f) \in txn[t].held, facts[f].group \in Groups
  PROVE  /\ facts'[f].status = facts[f].status /\ facts'[f].group = facts[f].group
         /\ current'[Source(f)] = current[Source(f)]
<1>1. facts[f].group # Ungrouped /\ Source(f) \in Archives
  BY CurationAssumption, SourceOfFact DEF Ungrouped
<1>2. ASSUME NEW u \in Txns \ {t} PROVE Source(f) \notin txn[u].held
  BY DEF Exclusive
<1>3. ASSUME NEW u \in Txns \ {t}, Commit(u) PROVE f \notin txn[u].found /\ f \notin txn[u].kept
  BY <1>2, <1>3 DEF Commit, At, Deciding
<1>4. ASSUME NEW u \in Txns \ {t}, Erase(u) PROVE Source(f) # Req(u).source
  BY <1>2, <1>4, EraseEffect
<1>5. ASSUME NEW u \in Txns \ {t}, Step(u)
      PROVE  /\ facts'[f].status = facts[f].status /\ facts'[f].group = facts[f].group
             /\ current'[Source(f)] = current[Source(f)]
  <2>1. CASE Decide(u)
    BY <1>1, <2>1, DecideEffect DEF Free
  <2>2. CASE Commit(u)
    BY <1>3, <2>2, CommitEffect
  <2>3. CASE Write(u)
    BY <2>3, WriteEffect
  <2>4. CASE Erase(u)
    BY <1>4, <2>4, EraseEffect
  <2>5. CASE LinkFacts(u)
    BY <2>5, LinkEffect
  <2> QED BY <1>5, <2>1, <2>2, <2>3, <2>4, <2>5, QuietEffect
<1>6. CASE \/ \E c \in canonical : MarkDisputed(c) \/ DeleteCanonical(c)
           \/ \E a \in Archives : Publish(a)
  BY <1>1, <1>6, OthersEffect DEF Holders
<1>7. CASE UNCHANGED vars
  BY <1>7 DEF vars, tables
<1> QED BY <1>5, <1>6, <1>7 DEF Elsewhere

\* A step is one transaction's.
LEMMA OthersStay ==
  ASSUME Types, NEW t \in Txns, Elsewhere(t)
  PROVE  txn'[t] = txn[t]
<1>1. ASSUME NEW u \in Txns \ {t}, LockSource(u) PROVE txn'[t] = txn[t]
  <2>1. PICK r : Update(u, r)
    BY <1>1, LocksSource
  <2> QED BY <2>1 DEF Update, Types
<1>2. ASSUME NEW u \in Txns \ {t}, Step(u), ~LockSource(u) PROVE txn'[t] = txn[t]
  BY <1>2, KeepsLocks
<1>3. CASE UNCHANGED vars
  BY <1>3 DEF vars
<1>4. CASE \/ \E c \in canonical : MarkDisputed(c) \/ DeleteCanonical(c)
           \/ \E a \in Archives : Publish(a)
  BY <1>4, OthersEffect
<1> QED BY <1>1, <1>2, <1>3, <1>4 DEF Elsewhere

\* What a reviewer's transaction knows stays true while others work.
LEMMA KeepsDeciding ==
  ASSUME Types, Care, managed, NEW t \in Txns, Elsewhere(t), [Next]_vars
  PROVE  Deciding(txn[t])'
<1> DEFINE x == txn[t]
           g == x.req.group
<1>1. /\ txn'[t] = x /\ Deciding(x) /\ Requested(x)
      /\ x.req \in Requests \union {NoRequest} /\ x.found \subseteq Facts
  BY OthersStay DEF Care, Types, Sound, Transaction
<1>2. x.req.op = "resolve" => /\ g \in Groups
                              /\ items'[g].status # "absent" /\ InGroup(g)' \subseteq InGroup(g)
  BY <1>1, Shrinks, RequestFields DEF Care, Deciding
<1>3. managed' = managed
  BY KeepsLocks, LocksSource, OthersEffect DEF Elsewhere, vars
<1>4. ASSUME x.at = "commit"
      PROVE  x.found = InGroup(g)' /\ \A f \in x.found : Visible(f)'
  <2>1. x.req.op = "resolve" /\ x.found = InGroup(g) /\ \A f \in x.found : Visible(f) /\ Source(f) \in x.held
    BY <1>1, <1>4 DEF Requested, Deciding
  <2>2. \A f \in x.found : /\ facts'[f].status = facts[f].status /\ facts'[f].group = facts[f].group
                           /\ current'[Source(f)] = current[Source(f)]
    BY <1>1, <1>2, <2>1, Protected DEF Care, InGroup
  <2>3. InGroup(g) \subseteq InGroup(g)'
    BY <1>1, <2>1, <2>2 DEF InGroup, Active
  <2> QED BY <1>2, <1>3, <2>1, <2>2, <2>3 DEF Visible
<1> QED BY <1>1, <1>2, <1>4 DEF Deciding

\* What a reviewer's transaction learns with each of its own steps.
LEMMA OwnDecides ==
  ASSUME Types, Care, managed, NEW t \in Txns, Step(t), [Next]_vars
  PROVE  Deciding(txn[t])'
<1> DEFINE x == txn[t]
           g == x.req.group
<1>1. /\ x \in Transaction /\ Requested(x) /\ Locking(x) /\ Deciding(x)
      /\ x.req \in Requests \union {NoRequest} /\ x.found \subseteq Facts /\ txn \in [Txns -> Transaction]
  BY DEF Care, Types, Sound, Transaction
<1>2. Requested(txn[t])'
  BY StepSound DEF Types, Sound
<1>3. CASE End(t)
  <2>1. txn'[t] = Over
    BY <1>1, <1>3 DEF End, Update
  <2> QED BY <2>1 DEF Deciding, Over, NoRequest
<1>4. CASE Begins(t)
  <2>1. PICK m, todo : /\ BeginWith(t, m, todo)
                       /\ m.op = "resolve" => items[m.group].status # "absent"
    <3>1. CASE BeginResolve(t)
      <4>1. PICK h \in Groups, verdict \in {"keep", "suppress", "dismiss"} :
              /\ items[h].status # "absent"
              /\ BeginWith(t, [op |-> "resolve", group |-> h, verdict |-> verdict], {})
        BY <3>1 DEF BeginResolve
      <4> QED BY <4>1
    <3>2. CASE ~BeginResolve(t)
      <4>1. PICK m, todo : BeginWith(t, m, todo) /\ m.op # "resolve"
        <5>1. ASSUME NEW f, BeginWith(t, [op |-> "detect", fact |-> f], {})
              PROVE  \E m, todo : BeginWith(t, m, todo) /\ m.op # "resolve"
          BY <5>1
        <5>2. ASSUME NEW f, NEW todo, BeginWith(t, [op |-> "promote", fact |-> f], todo)
              PROVE  \E m, d : BeginWith(t, m, d) /\ m.op # "resolve"
          BY <5>2
        <5>3. ASSUME NEW f, NEW change, BeginWith(t, [op |-> "edit", fact |-> f, change |-> change], {})
              PROVE  \E m, todo : BeginWith(t, m, todo) /\ m.op # "resolve"
          BY <5>3
        <5>4. ASSUME NEW a, BeginWith(t, [op |-> "delete", source |-> a], {a})
              PROVE  \E m, todo : BeginWith(t, m, todo) /\ m.op # "resolve"
          BY <5>4
        <5> QED BY <1>4, <3>2, <5>1, <5>2, <5>3, <5>4
                DEF Begins, BeginDetect, BeginPromote, BeginEdit, BeginDelete
      <4> QED BY <4>1
    <3> QED BY <3>1, <3>2
  <2>2. Update(t, [Over EXCEPT !.at = Entry(m), !.req = m, !.todo = todo]) /\ items' = items
    BY <2>1 DEF BeginWith, tables
  <2>3. txn'[t] = [Over EXCEPT !.at = Entry(m), !.req = m, !.todo = todo]
    BY <1>1, <2>2 DEF Update
  <2>4. txn'[t].at = Entry(m) /\ txn'[t].req = m
    BY <2>3 DEF Over
  <2>5. Entry(m) \in {"start", "row", "lock"} /\ (m.op = "resolve" => Entry(m) = "start")
    BY DEF Entry
  <2> QED BY <2>1, <2>2, <2>4, <2>5 DEF Deciding
<1>5. CASE txn'[t].req = x.req /\ x.req.op # "resolve"
  BY <1>2, <1>5 DEF Deciding, Requested
<1>6. CASE ReadItem(t) /\ Goto(t, "facts")
  <2>1. txn'[t] = [x EXCEPT !.at = "facts"] /\ items' = items
    BY <1>1, <1>6 DEF ReadItem, Goto, Update, tables
  <2>2. txn'[t].at = "facts" /\ txn'[t].req = x.req
    BY <1>1, <2>1 DEF Transaction
  <2> QED BY <1>1, <2>1, <2>2 DEF Deciding
<1>7. CASE ReadFacts(t) /\ ~End(t)
  <2> DEFINE F == InGroup(g)
             todo == {Source(f) : f \in F}
  <2>1. /\ txn'[t] = [[x EXCEPT !.found = F, !.todo = todo] EXCEPT !.at = "lock"]
        /\ UNCHANGED <<items, facts, current>>
    BY <1>1, <1>7 DEF ReadFacts, Update, tables, Req
  <2> HIDE DEF F, todo
  <2>2. txn'[t].at = "lock" /\ txn'[t].req = x.req /\ txn'[t].found = F /\ txn'[t].todo = todo
    BY <1>1, <2>1 DEF Transaction
  <2>3. InGroup(txn[t].req.group)' = F
    BY <2>1, <2>2 DEF InGroup, Active, F
  <2>4. \A f \in F : Source(f) \in todo
    BY DEF todo
  <2> QED BY <1>1, <2>1, <2>2, <2>3, <2>4 DEF Deciding
<1>8. CASE LockSource(t) /\ x.req.op = "resolve"
  <2>1. PICK r : /\ Update(t, r)
                 /\ r.todo = x.todo \ {First(x.todo)}
                 /\ r.held = x.held \union {First(x.todo)}
                 /\ r.req = Req(t) /\ r.found = x.found
                 /\ r.at = IF r.todo = {} THEN AfterLocks(t) ELSE "lock"
    BY <1>8, LocksSource
  <2>2. txn'[t] = r /\ UNCHANGED <<items, facts, current>>
    BY <1>1, <1>8, <2>1, LocksSource DEF Update, tables
  <2>3. x.at = "lock" /\ r.at \in {"lock", "apply"}
    BY <1>8, <2>1 DEF LockSource, Ready, At, AfterLocks, Req
  <2>4. InGroup(txn[t].req.group)' = InGroup(g)
    BY <2>1, <2>2 DEF InGroup, Active, Req
  <2> QED BY <1>1, <1>8, <2>1, <2>2, <2>3, <2>4 DEF Deciding, Req
<1>9. CASE Apply(t) /\ ~End(t)
  <2> DEFINE F == InGroup(g)
  <2>1. managed /\ F # {} /\ \A f \in F : Visible(f)
    BY <1>9 DEF Apply, CurrentGroup, Judged, Req
  <2>2. PICK kept : /\ txn'[t] = [x EXCEPT !.at = "commit", !.found = F, !.kept = kept]
                    /\ kept # {} /\ kept \subseteq F
    <3>1. PICK kept \in IF Req(t).verdict = "suppress" /\ F # {} THEN {{f} : f \in F} ELSE {F} :
            Update(t, [txn[t] EXCEPT !.at = "commit", !.found = F, !.kept = kept])
      BY <1>9 DEF Apply, Judged, Req
    <3>2. kept # {} /\ kept \subseteq F
      BY <2>1, <3>1
    <3>3. txn'[t] = [x EXCEPT !.at = "commit", !.found = F, !.kept = kept]
      BY <1>1, <3>1 DEF Update
    <3> QED BY <3>2, <3>3
  <2>3. UNCHANGED <<managed, items, facts, current>>
    BY <1>9 DEF Apply, tables
  <2>4. x.at = "apply" /\ x.req.op = "resolve" /\ x.todo = {}
    BY <1>1, <1>9 DEF Apply, At, Requested, Locking
  <2>5. \A f \in F : Source(f) \in x.held
    BY <1>1, <2>4 DEF Deciding
  <2> HIDE DEF F
  <2>6. /\ txn'[t].at = "commit" /\ txn'[t].req = x.req /\ txn'[t].found = F
        /\ txn'[t].kept = kept /\ txn'[t].held = x.held
    BY <1>1, <2>2 DEF Transaction
  <2>7. InGroup(txn[t].req.group)' = F
    BY <2>3, <2>6 DEF InGroup, Active, F
  <2>8. \A f \in F : Visible(f)'
    BY <2>1, <2>3 DEF Visible
  <2> QED BY <1>1, <2>2, <2>3, <2>4, <2>5, <2>6, <2>7, <2>8 DEF Deciding
<1>10. CASE ~LockSource(t) /\ ~End(t) /\ ~Begins(t)
  <2>1. txn'[t].req = x.req
    BY <1>10, KeepsLocks
  <2>2. CASE x.req.op = "resolve"
    <3>1. x.at \notin {"find", "decide", "group", "link", "queue", "row", "insert", "erase", "write"}
      BY <1>1, <2>2 DEF Requested
    <3> QED BY <1>6, <1>7, <1>9, <1>10, <2>2, <3>1
            DEF Step, Begins, Abort, CheckRun, FindCandidates, Decide, CreateGroup, LinkFacts,
                QueueItem, ReadItem, Commit, LockFact, Insert, ReadFact, Write, Erase,
                Ready, At, Req
  <2> QED BY <1>5, <2>1, <2>2
<1>11. CASE LockSource(t) /\ x.req.op # "resolve"
  <2>1. PICK r : Update(t, r) /\ r.req = Req(t)
    BY <1>11, LocksSource
  <2> QED BY <1>1, <1>5, <1>11, <2>1 DEF Update, Req
<1> QED BY <1>3, <1>4, <1>8, <1>10, <1>11

\* What a decision finds: a group that nobody decided on, whose facts it has.
LEMMA CommitFinds ==
  ASSUME Types, Care, managed, NEW t \in Txns, Commit(t)
  PROVE  /\ Req(t).group \in Groups
         /\ txn[t].found = InGroup(Req(t).group) /\ InGroup(Req(t).group) # {}
         /\ txn[t].kept # {} /\ txn[t].kept \subseteq txn[t].found
         /\ \A f \in txn[t].kept : Visible(f)
         /\ decisions[Req(t).group] = 0
         /\ items[Req(t).group].status # "absent"
<1>1. Req(t).group \in Groups /\ Req(t).op = "resolve"
  BY CommitEffect DEF Types, Sound, Requested, Commit, At, Req
<1>2. /\ txn[t].found = InGroup(Req(t).group) /\ items[Req(t).group].status # "absent"
      /\ txn[t].kept # {} /\ txn[t].kept \subseteq txn[t].found
      /\ \A f \in txn[t].found : Visible(f)
  BY <1>1 DEF Care, Deciding, Commit, At, Req
<1>3. decisions[Req(t).group] = 0
  BY <1>1, <1>2 DEF Care, Settled
<1> QED BY <1>1, <1>2, <1>3

\* No group is decided on a second time: the first decision emptied it.
LEMMA StepSettled ==
  ASSUME Types, Care, managed, [Next]_vars
  PROVE  Settled'
<1>1. \A h \in Groups : items[h].status # "absent" =>
        items'[h].status # "absent" /\ InGroup(h)' \subseteq InGroup(h)
  BY Shrinks DEF Care
<1>2. ASSUME UNCHANGED decisions PROVE Settled'
  BY <1>1, <1>2 DEF Care, Settled
<1>3. ASSUME NEW t \in Txns, Commit(t) PROVE Settled'
  <2>1. PICK g \in Groups : g = Req(t).group
    BY <1>3, CommitFinds
  <2>2. /\ decisions[g] = 0 /\ items[g].status # "absent"
        /\ txn[t].found = InGroup(g) /\ txn[t].kept \subseteq txn[t].found
    BY <1>3, <2>1, CommitFinds
  <2>3. decisions'[g] = 1
    <3>1. decisions'[g] = IF decisions[g] = 2 THEN 2 ELSE decisions[g] + 1
      BY <1>3, <2>1, CommitEffect
    <3> QED BY <2>2, <3>1
  <2>4. \A h \in Groups \ {g} : decisions'[h] = decisions[h]
    BY <1>3, <2>1, CommitEffect
  <2>5. items'[g].status # "absent" /\ InGroup(g)' \subseteq InGroup(g)
    BY <1>1, <2>2
  <2>6. ASSUME NEW f \in Facts, f \in InGroup(g)' PROVE FALSE
    <3>1. f \in txn[t].found
      BY <2>2, <2>5, <2>6
    <3>2. facts'[f].group = g /\ facts'[f].status = "active"
      BY <2>6 DEF InGroup, Active
    <3>3. f \in txn[t].kept => facts'[f].group = Ungrouped
      BY <1>3, <2>6, CommitEffect
    <3>4. f \notin txn[t].kept => facts'[f].status = "source_removed"
      BY <1>3, <2>6, <3>1, CommitEffect
    <3> QED BY <3>2, <3>3, <3>4, CurationAssumption DEF Ungrouped
  <2>7. InGroup(g)' = {}
    BY <2>6 DEF InGroup
  <2> QED BY <1>1, <2>3, <2>4, <2>5, <2>7 DEF Care, Settled
<1>4. ASSUME NEW t \in Txns, Step(t) PROVE Settled'
  BY <1>2, <1>3, <1>4, DecideEffect, WriteEffect, EraseEffect, LinkEffect, QuietEffect
<1>5. CASE \/ \E c \in canonical : MarkDisputed(c) \/ DeleteCanonical(c)
           \/ \E a \in Archives : Publish(a)
  BY <1>2, <1>5, OthersEffect
<1>6. CASE UNCHANGED vars
  BY <1>2, <1>6 DEF vars
<1> QED BY <1>4, <1>5, <1>6 DEF Next

\* The facts of a group stay in it while it is up for a decision, since a fact
\* that is grouped joins no other.
LEMMA StepMembership ==
  ASSUME Types, Care, managed, [Next]_vars
  PROVE  Membership'
<1>1. \A h \in Groups : members[h] \subseteq Facts /\ h # Ungrouped
  BY CurationAssumption DEF Types, Tables, Ungrouped
<1>2. ASSUME \A h \in Groups : items'[h].status = "pending" => items[h].status = "pending",
             members' = members,
             \A f \in Facts : facts'[f].group = facts[f].group
      PROVE  Membership'
  BY <1>1, <1>2 DEF Care, Membership
<1>3. ASSUME NEW t \in Txns, Decide(t) PROVE Membership'
  <2>1. CASE UNCHANGED <<facts, items, members>>
    BY <1>2, <2>1
  <2>2. CASE ~UNCHANGED <<facts, items, members>>
    <3>1. PICK g \in Groups, L \in SUBSET Facts :
            /\ items[g].status = "absent"
            /\ \A f \in L : Free(f)
            /\ \A f \in Facts : /\ facts'[f].status = facts[f].status
                                /\ facts'[f].group = IF f \in L THEN g ELSE facts[f].group
            /\ items'[g].status = "pending" /\ members'[g] = L
            /\ \A h \in Groups \ {g} : items'[h] = items[h] /\ members'[h] = members[h]
      BY <1>3, <2>2, DecideEffect
    <3>2. ASSUME NEW h \in Groups \ {g}, items'[h].status = "pending", NEW f \in members'[h]
          PROVE  facts'[f].group = h
      <4>1. f \in Facts /\ facts[f].group = h
        BY <1>1, <3>1, <3>2 DEF Care, Membership
      <4>2. f \notin L
        BY <1>1, <3>1, <4>1 DEF Free
      <4> QED BY <3>1, <4>1, <4>2
    <3> QED BY <3>1, <3>2 DEF Membership
  <2> QED BY <2>1, <2>2
<1>4. ASSUME NEW t \in Txns, Commit(t) PROVE Membership'
  <2> DEFINE g == Req(t).group
  <2>1. /\ g \in Groups /\ items'[g].status # "pending" /\ members' = members
        /\ \A h \in Groups \ {g} : items'[h] = items[h]
    BY <1>4, CommitEffect
  <2>2. \A f \in Facts : facts[f].group # g => facts'[f].group = facts[f].group
    BY <1>4, CommitEffect, CommitFinds DEF InGroup
  <2> HIDE DEF g
  <2> QED BY <1>1, <2>1, <2>2 DEF Care, Membership
<1>5. ASSUME NEW t \in Txns, Write(t) PROVE Membership'
  BY <1>2, <1>5, WriteEffect
<1>6. ASSUME NEW t \in Txns, Erase(t) PROVE Membership'
  BY <1>2, <1>6, EraseEffect
<1>7. ASSUME NEW t \in Txns, Step(t) PROVE Membership'
  BY <1>2, <1>3, <1>4, <1>5, <1>6, <1>7, LinkEffect, QuietEffect
<1>8. CASE \/ \E c \in canonical : MarkDisputed(c) \/ DeleteCanonical(c)
           \/ \E a \in Archives : Publish(a)
  BY <1>2, <1>8, OthersEffect
<1>9. CASE UNCHANGED vars
  BY <1>2, <1>9 DEF vars, tables
<1> QED BY <1>7, <1>8, <1>9 DEF Next

\* The mode is a setting of the program, which no step changes.
LEMMA KeepsMode == ASSUME Types, [Next]_vars PROVE managed' = managed
BY KeepsLocks, LocksSource, OthersEffect DEF Next, vars

\* Every step keeps the care of published facts.
LEMMA StepCare == ASSUME Types, Care, [Next]_vars PROVE Care'
<1>1. Exclusive' /\ Grounded'
  BY StepExclusive, StepGrounded DEF Care
<1>2. ASSUME managed PROVE Settled' /\ Membership' /\ \A t \in Txns : Deciding(txn[t])'
  <2>1. ASSUME NEW t \in Txns PROVE Deciding(txn[t])'
    BY <1>2, OwnDecides, KeepsDeciding DEF Next, Elsewhere
  <2> QED BY <1>2, <2>1, StepSettled, StepMembership
<1> QED BY <1>1, <1>2, KeepsMode DEF Care

\* In the beginning nothing is locked, grouped or decided.
LEMMA InitialCare == ASSUME Init PROVE Care
<1>1. Exclusive
  BY DEF Init, Exclusive, Over
<1>2. Grounded
  BY CurationAssumption DEF Init, Grounded, Facts, Source
<1>3. Settled /\ Membership
  BY DEF Init, Settled, Membership
<1>4. \A t \in Txns : Deciding(txn[t])
  BY DEF Init, Deciding, Over, NoRequest
<1> QED BY <1>1, <1>2, <1>3, <1>4 DEF Care

LEMMA AlwaysCare == Spec => [](Types /\ Care)
<1>1. Init => Types /\ Care
  BY InitiallySound, InitialCare
<1>2. Types /\ Care /\ [Next]_vars => (Types /\ Care)'
  BY StepSound, StepCare
<1> QED BY <1>1, <1>2, PTL DEF Spec

\* However many reviewers answer the same item and however many detections run
\* at once, no group is decided on twice and no fact is up for two decisions.
THEOREM NobodyJudgesTwice == Spec => []JudgedOnce
<1>1. Types /\ Care => JudgedOnce
  <2> SUFFICES ASSUME Types, Care, managed PROVE JudgedOnce
    BY DEF JudgedOnce
  <2>1. \A g \in Groups : decisions[g] <= 1
    BY DEF Care, Settled
  <2>2. \A g, h \in Groups :
          items[g].status = "pending" /\ items[h].status = "pending"
             /\ members[g] \cap members[h] # {} => g = h
    BY DEF Care, Membership
  <2> QED BY <2>1, <2>2 DEF JudgedOnce
<1> QED BY <1>1, AlwaysCare, PTL

\* A decision to suppress keeps a fact of the current generation of a live source,
\* whatever was deleted or published since the reviewer read the group
\* (_apply_resolution); nothing is said of the kept fact's review status.
THEOREM SuppressionKeepsCurrent == Spec => SuppressKeepsCurrent
<1> DEFINE Keeps(t) ==
             managed /\ Commit(t) =>
               /\ txn[t].kept # {}
               /\ \A f \in txn[t].kept :
                    Visible(f) /\ live[Source(f)] /\ facts'[f].status = "active"
<1>1. ASSUME Types, Care, NEW t \in Txns PROVE Keeps(t)
  <2> SUFFICES ASSUME managed, Commit(t)
               PROVE  /\ txn[t].kept # {}
                      /\ \A f \in txn[t].kept :
                           Visible(f) /\ live[Source(f)] /\ facts'[f].status = "active"
    OBVIOUS
  <2> HIDE DEF Keeps
  <2>1. \A f \in txn[t].kept : f \in Facts /\ facts[f].status = "active"
    BY <1>1, CommitFinds DEF InGroup, Active
  <2>2. \A f \in txn[t].kept : live[Source(f)]
    BY <1>1, <2>1 DEF Care, Grounded
  <2>3. \A f \in Facts : facts'[f].status = IF f \in txn[t].found \ txn[t].kept
                                             THEN "source_removed" ELSE facts[f].status
    BY <1>1, CommitEffect
  <2> QED BY <1>1, <2>1, <2>2, <2>3, CommitFinds
<1>2. Types /\ Care /\ [Next]_vars => [\A t \in Txns : Keeps(t)]_vars
  BY <1>1
<1> QED BY <1>2, AlwaysCare, PTL DEF Spec, SuppressKeepsCurrent
=============================================================================
