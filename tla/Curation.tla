------------------------------ MODULE Curation ------------------------------
(***************************************************************************)
(* What becomes of published facts: duplicates are detected and grouped    *)
(* for review (conflict_detection.py), a reviewer keeps or suppresses the  *)
(* facts of a group (review_queue), a user edits a fact or promotes it to  *)
(* canonical memory (facts.py, canonical_memory), while new generations    *)
(* are published and sources are deleted.                                  *)
(*                                                                         *)
(* Each operation is a READ COMMITTED transaction, and each step here one  *)
(* statement that reads, waits for a row lock or commits.  With managed    *)
(* generations on, all but the edit lock the sources first, in the order   *)
(* of their ids; without them they lock little or nothing, and detection   *)
(* commits three times.  A fact stands for what one generation of a source *)
(* derived; distances, texts and confidence are left out.                  *)
(***************************************************************************)
EXTENDS Naturals, FiniteSets

CONSTANTS
    Archives,       \* raw archive rows, by id
    MaxGenerations, \* bound: generations published for a source
    Groups,         \* conflict groups, each with its review item
    Txns,           \* transactions that may be open at once
    MaxTxns         \* bound: transactions begun

ASSUME CurationAssumption ==
    /\ Archives \subseteq Nat /\ IsFiniteSet(Archives)
    /\ MaxGenerations \in Nat \ {0} /\ MaxTxns \in Nat
    /\ "none" \notin Groups

VARIABLES
    managed,   \* generation_idempotency_enabled
    live,      \* raw_archive.deleted_at is null
    current,   \* the generation readers see
    facts,     \* facts
    items,     \* review_queue_items, one for each group
    members,   \* conflict_group_members
    runs,      \* conflict_detection_runs, by generation
    canonical, \* canonical_memory
    txn,       \* transactions in progress
    begun,     \* transactions begun so far
    decisions  \* how often the facts of a group were decided on

tables == <<live, current, facts, items, members, runs, canonical>>
vars   == <<managed, tables, txn, begun, decisions>>

-----------------------------------------------------------------------------

Facts == Archives \X (1..MaxGenerations)
Source(f) == f[1]
Ungrouped == "none"

Fact == [status : {"active", "source_removed"}, review : {"active", "disputed", "deleted"},
         text : {"derived", "edited", "erased"}, group : Groups \union {Ungrouped}]

\* a group without a review item is absent, or only created
Item == [status : {"absent", "created", "pending", "resolved", "dismissed"}, live : BOOLEAN]

Canonical == [fact : Facts, live : BOOLEAN, status : {"active", "disputed", "required_review"}]

Operations == {"detect", "resolve", "promote", "delete", "edit"}

Requests ==
         [op : {"detect", "promote"}, fact : Facts]
  \union [op : {"edit"}, fact : Facts, change : {"text", "review"}]
  \union [op : {"resolve"}, group : Groups, verdict : {"keep", "suppress", "dismiss"}]
  \union [op : {"delete"}, source : Archives]

NoRequest == [op |-> "none"]

Stages == {"idle", "start", "find", "lock", "decide", "group", "link", "queue",
           "facts", "apply", "commit", "row", "insert", "erase", "write"}

Over == [at |-> "idle", req |-> NoRequest, todo |-> {}, held |-> {}, row |-> {},
         found |-> {}, kept |-> {}, group |-> Ungrouped]

Transaction == [at : Stages, req : Requests \union {NoRequest}, todo : SUBSET Archives,
                held : SUBSET Archives, row : SUBSET Facts, found : SUBSET Facts,
                kept : SUBSET Facts, group : Groups \union {Ungrouped}]

TypeOK ==
    /\ managed \in BOOLEAN
    /\ live \in [Archives -> BOOLEAN]
    /\ current \in [Archives -> 1..MaxGenerations]
    /\ facts \in [Facts -> Fact]
    /\ items \in [Groups -> Item]
    /\ members \in [Groups -> SUBSET Facts]
    /\ runs \in [Facts -> {"none", "no_candidates", "nothing_to_link", "grouped"}]
    /\ canonical \subseteq Canonical
    /\ txn \in [Txns -> Transaction]
    /\ begun \in 0..MaxTxns
    /\ decisions \in [Groups -> 0..2]

At(t)  == txn[t].at
Req(t) == txn[t].req

Update(t, r) == txn' = [txn EXCEPT ![t] = r]
Goto(t, stage) == Update(t, [txn[t] EXCEPT !.at = stage])
End(t) == Update(t, Over)

\* current: what ordinary readers of facts and embeddings see
Visible(f) == managed => f[2] = current[Source(f)]

Active(f) == facts[f].status = "active" /\ f[2] <= current[Source(f)]

\* the embedding derived with a fact: a review that suppresses the fact leaves it
Embedded(f) == live[Source(f)] /\ f[2] <= current[Source(f)]

-----------------------------------------------------------------------------
(* Row locks *)

First(S) == CHOOSE a \in S : \A b \in S : a <= b

Holders(a) == {t \in Txns : a \in txn[t].held}
RowOwners(F) == {t \in Txns : txn[t].row \cap F # {}}

FactsOf(A) == {f \in Facts : Source(f) \in A}

\* whom the next statement of a transaction waits for
Blockers(t) ==
    CASE At(t) = "lock"  -> Holders(First(txn[t].todo)) \ {t}
      [] At(t) \in {"row", "write"} -> RowOwners({Req(t).fact}) \ {t}
      [] At(t) = "erase" -> RowOwners(FactsOf({Req(t).source})) \ {t}
      [] OTHER -> {}

Ready(t, stage) == At(t) = stage /\ Blockers(t) = {}

AfterLocks(t) ==
    CASE Req(t).op = "detect"  -> "decide"
      [] Req(t).op = "resolve" -> "apply"
      [] Req(t).op = "promote" -> IF managed THEN "row" ELSE "insert"
      [] Req(t).op = "delete"  -> "erase"

\* lock_archives_and_heads and the locks of single sources
LockSource(t) ==
    /\ Ready(t, "lock")
    /\ LET a    == First(txn[t].todo)
           rest == txn[t].todo \ {a}
       IN Update(t, [txn[t] EXCEPT !.todo = rest, !.held = @ \union {a},
                       !.at = IF rest = {} THEN AfterLocks(t) ELSE "lock"])
    /\ UNCHANGED <<managed, tables, begun, decisions>>

-----------------------------------------------------------------------------

FactFirst_Bug(m) ==
    CASE m.op = "promote" -> "row"
      [] m.op = "delete"  -> "lock"
      [] OTHER            -> "start"

\* a promotion locks its source before the fact if generations are managed
Entry(m) ==
    CASE m.op = "promote" -> IF managed THEN "lock" ELSE "row"
      [] m.op = "delete"  -> "lock"
      [] OTHER            -> "start"

BeginWith(t, m, todo) ==
    /\ At(t) = "idle"
    /\ begun < MaxTxns
    /\ begun' = begun + 1
    /\ Update(t, [Over EXCEPT !.at = Entry(m), !.req = m, !.todo = todo])
    /\ UNCHANGED <<managed, tables, decisions>>

\* a dispatch looks for duplicates of what it has just published
BeginDetect(t) ==
    \E f \in Facts :
      /\ f[2] = current[Source(f)]
      /\ BeginWith(t, [op |-> "detect", fact |-> f], {})

\* a reviewer decides on an item that is or was in the queue
BeginResolve(t) ==
    \E g \in Groups, verdict \in {"keep", "suppress", "dismiss"} :
      /\ items[g].status \notin {"absent", "created"}
      /\ BeginWith(t, [op |-> "resolve", group |-> g, verdict |-> verdict], {})

\* a user promotes a fact that was published at some time
BeginPromote(t) ==
    \E f \in Facts :
      /\ f[2] <= current[Source(f)]
      /\ BeginWith(t, [op |-> "promote", fact |-> f], {Source(f)})

BeginEdit(t) ==
    \E f \in Facts, change \in {"text", "review"} :
      BeginWith(t, [op |-> "edit", fact |-> f, change |-> change], {})

BeginDelete(t) ==
    \E a \in Archives : BeginWith(t, [op |-> "delete", source |-> a], {a})

\* an error, a dead process, or the victim of a deadlock: what was not
\* committed is gone
Abort(t) ==
    /\ At(t) # "idle"
    /\ End(t)
    /\ UNCHANGED <<managed, tables, begun, decisions>>

-----------------------------------------------------------------------------
(* detect_and_group_duplicates *)

\* a generation that has a run is not looked at again
CheckRun(t) ==
    /\ At(t) = "start" /\ Req(t).op = "detect"
    /\ IF managed /\ runs[Req(t).fact] # "none" THEN End(t) ELSE Goto(t, "find")
    /\ UNCHANGED <<managed, tables, begun, decisions>>

\* the nearest embeddings, without any lock
FindCandidates(t) ==
    /\ At(t) = "find"
    /\ \E found \in SUBSET {f \in Facts : Embedded(f) /\ Visible(f)
                                            /\ Source(f) # Source(Req(t).fact)} :
         CASE managed ->
                Update(t, [txn[t] EXCEPT !.at = "lock", !.found = found,
                             !.todo = {Source(f) : f \in found \union {Req(t).fact}}])
           [] ~managed /\ found # {} -> Update(t, [txn[t] EXCEPT !.at = "group", !.found = found])
           [] OTHER -> End(t)
    /\ UNCHANGED <<managed, tables, begun, decisions>>

\* facts that may join a group
Free(f) == Active(f) /\ facts[f].review = "active" /\ facts[f].group = Ungrouped

AsFound_Bug(t) == txn[t].found \union {Req(t).fact}

\* what is linked is read again under the locks
ToLink(t) ==
    LET fresh == {f \in txn[t].found : Embedded(f) /\ Visible(f)} IN
    IF fresh = {} THEN {}
    ELSE {f \in FactsOf({Source(c) : c \in fresh \union {Req(t).fact}}) : Free(f) /\ Visible(f)}

Outcome(t) ==
    CASE \A f \in txn[t].found : ~(Embedded(f) /\ Visible(f)) -> "no_candidates"
      [] ToLink(t) = {} -> "nothing_to_link"
      [] OTHER -> "grouped"

Link(F, g) == facts' = [f \in Facts |-> IF f \in F THEN [facts[f] EXCEPT !.group = g] ELSE facts[f]]

Queue(g) == items' = [items EXCEPT ![g] = [status |-> "pending", live |-> TRUE]]

\* group, members, links, review item and run in one commit
Decide(t) ==
    /\ At(t) = "decide"
    /\ LET f == Req(t).fact
           unchanged == UNCHANGED <<facts, items, members>>
       IN IF \/ \E a \in txn[t].held : ~live[a]
             \/ ~(Embedded(f) /\ Visible(f))
             \/ runs[f] # "none"
          THEN unchanged /\ UNCHANGED runs
          ELSE /\ runs' = [runs EXCEPT ![f] = Outcome(t)]
               /\ IF Outcome(t) # "grouped" THEN unchanged
                  ELSE \E g \in Groups :
                         /\ items[g].status = "absent"
                         /\ Link(ToLink(t), g)
                         /\ Queue(g)
                         /\ members' = [members EXCEPT ![g] = ToLink(t)]
    /\ End(t)
    /\ UNCHANGED <<managed, live, current, canonical, begun, decisions>>

\* without generations: create_conflict_group, link_facts_to_group and
\* materialize_review_item commit one after the other
CreateGroup(t) ==
    /\ At(t) = "group"
    /\ \E g \in Groups :
         /\ items[g].status = "absent"
         /\ items' = [items EXCEPT ![g].status = "created"]
         /\ Update(t, [txn[t] EXCEPT !.at = "link", !.group = g])
    /\ UNCHANGED <<managed, live, current, facts, members, runs, canonical, begun, decisions>>

LinkFacts(t) ==
    /\ At(t) = "link"
    /\ Link({f \in FactsOf({Source(c) : c \in txn[t].found \union {Req(t).fact}}) :
               Active(f) /\ facts[f].group = Ungrouped}, txn[t].group)
    /\ Goto(t, "queue")
    /\ UNCHANGED <<managed, live, current, items, members, runs, canonical, begun, decisions>>

QueueItem(t) ==
    /\ At(t) = "queue"
    /\ Queue(txn[t].group)
    /\ End(t)
    /\ UNCHANGED <<managed, live, current, facts, members, runs, canonical, begun, decisions>>

-----------------------------------------------------------------------------
(* resolve_review_item and dismiss_review_item *)

InGroup(g) == {f \in Facts : facts[f].group = g /\ Active(f)}

\* the item is read without a lock
ReadItem(t) ==
    /\ At(t) = "start" /\ Req(t).op = "resolve"
    /\ LET item == items[Req(t).group] IN
       IF managed /\ (item.status # "pending" \/ ~item.live)
         THEN End(t) ELSE Goto(t, "facts")
    /\ UNCHANGED <<managed, tables, begun, decisions>>

\* _current_group: the sources of its facts, of all generations, to lock
ReadFacts(t) ==
    /\ At(t) = "facts"
    /\ LET F == InGroup(Req(t).group)
           read == [txn[t] EXCEPT !.found = F, !.todo = {Source(f) : f \in F}]
       IN CASE ~managed           -> Update(t, [read EXCEPT !.at = "apply", !.todo = {}])
            [] managed /\ F = {}  -> End(t)
            [] managed /\ F # {}  -> Update(t, [read EXCEPT !.at = "lock"])
    /\ UNCHANGED <<managed, tables, begun, decisions>>

Unlocked_Bug(t) == txn[t].found

\* the facts the decision is about, read again once the sources are locked
Judged(t) == InGroup(Req(t).group)

AnyGroup_Bug(t) == Judged(t) # {}

\* a group that is not wholly visible is stale
CurrentGroup(t) == Judged(t) # {} /\ \A f \in Judged(t) : Visible(f)

Apply(t) ==
    /\ At(t) = "apply"
    /\ IF managed /\ ~CurrentGroup(t) THEN End(t)
       ELSE LET F == Judged(t) IN
            \E kept \in IF Req(t).verdict = "suppress" /\ F # {} THEN {{f} : f \in F} ELSE {F} :
              Update(t, [txn[t] EXCEPT !.at = "commit", !.found = F, !.kept = kept])
    /\ UNCHANGED <<managed, tables, begun, decisions>>

\* what is kept leaves the group, the rest leaves all readers
Commit(t) ==
    /\ At(t) = "commit"
    /\ facts' = [f \in Facts |->
                   CASE f \in txn[t].kept -> [facts[f] EXCEPT !.group = Ungrouped]
                     [] f \in txn[t].found \ txn[t].kept ->
                          [facts[f] EXCEPT !.status = "source_removed"]
                     [] OTHER -> facts[f]]
    /\ LET g == Req(t).group IN
         /\ items' = [items EXCEPT ![g].status =
                        IF Req(t).verdict = "dismiss" THEN "dismissed" ELSE "resolved"]
         /\ decisions' = [decisions EXCEPT ![g] = IF @ = 2 THEN 2 ELSE @ + 1]
    /\ End(t)
    /\ UNCHANGED <<managed, live, current, members, runs, canonical, begun>>

-----------------------------------------------------------------------------
(* promote_fact_to_canonical, and edits of canonical items *)

LockFact(t) ==
    /\ Ready(t, "row")
    /\ Update(t, [txn[t] EXCEPT !.row = {Req(t).fact},
                    !.at = IF txn[t].held = {} THEN "lock" ELSE "insert"])
    /\ UNCHANGED <<managed, tables, begun, decisions>>

Exists_Bug(t) == TRUE

\* neither the fact nor its source is removed
Promotable(t) == facts[Req(t).fact].status = "active" /\ live[Source(Req(t).fact)]

Insert(t) ==
    /\ At(t) = "insert"
    /\ canonical' = IF Promotable(t)
                      THEN canonical \union {[fact |-> Req(t).fact, live |-> TRUE,
                                              status |-> "active"]}
                      ELSE canonical
    /\ End(t)
    /\ UNCHANGED <<managed, live, current, facts, items, members, runs, begun, decisions>>

\* update_canonical_item, whose callers do not look at source_status
MarkDisputed(c) ==
    /\ c \in canonical
    /\ canonical' = (canonical \ {c}) \union {[c EXCEPT !.status = "disputed"]}
    /\ UNCHANGED <<managed, live, current, facts, items, members, runs, txn, begun, decisions>>

\* delete_canonical_item
DeleteCanonical(c) ==
    /\ c \in canonical
    /\ canonical' = (canonical \ {c}) \union {[c EXCEPT !.live = FALSE]}
    /\ UNCHANGED <<managed, live, current, facts, items, members, runs, txn, begun, decisions>>

-----------------------------------------------------------------------------
(* Edits of facts, deletion of sources, publication *)

\* _get_mutable_fact: a visible active fact, without a lock
ReadFact(t) ==
    /\ At(t) = "start" /\ Req(t).op = "edit"
    /\ IF Active(Req(t).fact) /\ Visible(Req(t).fact) THEN Goto(t, "write") ELSE End(t)
    /\ UNCHANGED <<managed, tables, begun, decisions>>

\* the row is written by its id, whatever became of it
Write(t) ==
    /\ Ready(t, "write")
    /\ LET f == Req(t).fact IN
       IF Req(t).change = "text"
         THEN facts' = [facts EXCEPT ![f].text = "edited"]
         ELSE \E review \in {"active", "disputed", "deleted"} :
                facts' = [facts EXCEPT ![f].review = review]
    /\ End(t)
    /\ UNCHANGED <<managed, live, current, items, members, runs, canonical, begun, decisions>>

\* cascade_delete_archive_item, which waits for the facts it erases
Erase(t) ==
    /\ Ready(t, "erase")
    /\ LET a == Req(t).source
           F == FactsOf({a})
           touched == {facts[f].group : f \in F}
       IN IF ~live[a] THEN UNCHANGED <<live, facts, items, canonical>>
          ELSE /\ live' = [live EXCEPT ![a] = FALSE]
               /\ facts' = [f \in Facts |->
                              IF f \in F THEN [facts[f] EXCEPT !.status = "source_removed",
                                                               !.text = "erased"]
                              ELSE facts[f]]
               /\ items' = [g \in Groups |->
                              IF g \in touched THEN [items[g] EXCEPT !.live = FALSE] ELSE items[g]]
               /\ canonical' = {IF c.fact \in F /\ c.live
                                  THEN [c EXCEPT !.live = FALSE, !.status = "required_review"]
                                  ELSE c : c \in canonical}
    /\ End(t)
    /\ UNCHANGED <<managed, current, members, runs, begun, decisions>>

\* publication replaces the current generation under the lock of its source
Publish(a) ==
    /\ managed /\ live[a] /\ Holders(a) = {}
    /\ current[a] < MaxGenerations
    /\ current' = [current EXCEPT ![a] = @ + 1]
    /\ UNCHANGED <<managed, live, facts, items, members, runs, canonical, txn, begun, decisions>>

-----------------------------------------------------------------------------

Init ==
    /\ managed \in BOOLEAN
    /\ live = [a \in Archives |-> TRUE]
    /\ current = [a \in Archives |-> 1]
    /\ facts = [f \in Facts |-> [status |-> "active", review |-> "active",
                                 text |-> "derived", group |-> Ungrouped]]
    /\ items = [g \in Groups |-> [status |-> "absent", live |-> TRUE]]
    /\ members = [g \in Groups |-> {}]
    /\ runs = [f \in Facts |-> "none"]
    /\ canonical = {}
    /\ txn = [t \in Txns |-> Over]
    /\ begun = 0
    /\ decisions = [g \in Groups |-> 0]

Step(t) ==
    \/ BeginDetect(t) \/ BeginResolve(t) \/ BeginPromote(t) \/ BeginEdit(t) \/ BeginDelete(t)
    \/ Abort(t) \/ LockSource(t)
    \/ CheckRun(t) \/ FindCandidates(t) \/ Decide(t)
    \/ CreateGroup(t) \/ LinkFacts(t) \/ QueueItem(t)
    \/ ReadItem(t) \/ ReadFacts(t) \/ Apply(t) \/ Commit(t)
    \/ LockFact(t) \/ Insert(t)
    \/ ReadFact(t) \/ Write(t) \/ Erase(t)

Next ==
    \/ \E t \in Txns : Step(t)
    \/ \E c \in canonical : MarkDisputed(c) \/ DeleteCanonical(c)
    \/ \E a \in Archives : Publish(a)

Spec == Init /\ [][Next]_vars
=============================================================================
