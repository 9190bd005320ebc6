------------------------------- MODULE Recall -------------------------------
(***************************************************************************)
(* Retrieval (retrieval/service.py) as one process of the application runs *)
(* it, with the generation flag off: several requests at once, each with   *)
(* separate reads of committed data, the answer kept in a cache that the   *)
(* writers clear, and the handoff built from an answer within memory       *)
(* spaces.  The relevance of each row to the query is PostgreSQL's, one    *)
(* ranking for each search mode.                                           *)
(*                                                                         *)
(* A writer commits first and clears the cache in a later step.  The       *)
(* NOTIFY that would clear the caches of other processes is not committed  *)
(* (worker/loop.py closes its session), so there is one process here.      *)
(***************************************************************************)
EXTENDS Ranking, Handoff

CONSTANTS
    Sources,     \* archives
    Memory,      \* rows that full text search finds: canonical items, facts, excerpts
    Embedded,    \* rows of sources that are found by their embedding
    Links,       \* pairs of a source and a fact that one of its facts is linked to
    Spaces,      \* memory spaces
    SpacesOf,    \* the spaces each source is bound to
    Rankings,    \* pairs of a lexical and a semantic ranking
    Readers,     \* concurrent requests
    Budgets,     \* budgets in characters
    Asked,       \* the requests that are made, a bound
    Limit,       \* result limit of a scoped request
    TokenBudgets, ModelBudgets, \* of the handoff
    MaxRequests, \* bound: requests
    MaxChanges   \* bound: changes of memory

Rows == Memory \union Embedded

\* a request of the bridge names the spaces it may see, others none; a filter
\* on source or category is the source that passes it
Requests ==
    [mode : {"keyword", "semantic", "hybrid"}, budget : Budgets,
     scope : SUBSET Spaces,
     filter : {"none", "canonical"} \union Sources]

\* No search lists a row twice.  It may well list a source twice: the legacy
\* pipeline adds a row of text when it parks a job and another when the job is
\* resumed, and the query does not join the rows of a source.
ListsRowsOnce(ranking) ==
    \A i, j \in DOMAIN ranking : ranking[i].id = ranking[j].id => i = j

ASSUME RecallAssumption ==
    /\ \A c \in Rows : /\ c = [id |-> c.id, type |-> c.type, source |-> c.source,
                                size |-> c.size, score |-> 0]
                       /\ c.source \in Sources /\ c.type \in DOMAIN Layer /\ c.size \in Nat
    /\ \A c, d \in Rows : c.id = d.id => c = d
    /\ Links \subseteq Sources \X Memory /\ IsFiniteSet(Links)
    /\ SpacesOf \in [Sources -> SUBSET Spaces]
    /\ Rankings \subseteq Seq(Memory) \X Seq(Embedded)
    /\ \A ranking \in Rankings : ListsRowsOnce(ranking[1]) /\ ListsRowsOnce(ranking[2])
    /\ Asked \subseteq Requests
    /\ Budgets \union TokenBudgets \union ModelBudgets \subseteq Nat
    /\ {MaxRequests, MaxChanges, Limit} \subseteq Nat

VARIABLES
    relevance, \* the ranking of the query
    live,      \* sources whose memory is visible
    changes,   \* changes of memory so far
    unflushed, \* changes committed whose writer has not cleared the cache yet
    cache,     \* what the cache holds: requests and their answers, with the
               \* changes there were at their first read and when they were kept
    reader,    \* requests in progress
    asked      \* requests so far

vars == <<relevance, live, changes, unflushed, cache, reader, asked>>

-----------------------------------------------------------------------------

NoRequest == [mode |-> "none"]

Scoped(req) == req.scope # {}

NoAnswer == [items |-> <<>>, used |-> 0, reason |-> "none", degraded |-> FALSE]

Idle == [at |-> "idle", req |-> NoRequest, since |-> 0, lexical |-> <<>>, semantic |-> <<>>,
         answer |-> NoAnswer, packet |-> <<>>, payload |-> <<>>, rendered |-> <<>>]

At(r)  == reader[r].at
Req(r) == reader[r].req

TypeOK ==
    /\ relevance \in Rankings
    /\ live \subseteq Sources
    /\ changes \in 0..MaxChanges /\ unflushed \in 0..MaxChanges
    /\ \A e \in cache : e.since \in 0..e.kept /\ e.kept \in 0..changes
    /\ \A r \in Readers :
         /\ At(r) \in {"idle", "lexical", "semantic", "links", "fill", "answered", "handed"}
         /\ Req(r) \in Requests \union {NoRequest}
         /\ reader[r].since \in 0..changes
    /\ asked \in 0..MaxRequests

-----------------------------------------------------------------------------
(* What a request may see: the WHERE clauses of the candidate queries *)

Bound(c, req) == Scoped(req) => SpacesOf[c.source] \intersect req.scope # {}

\* a source filter or category leaves canonical items out
Passes(c, req) ==
    \/ req.filter = "none"
    \/ req.filter = "canonical" /\ c.type = "canonical"
    \/ req.filter = c.source /\ c.type # "canonical"

Visible(c, req) == c.source \in live /\ Bound(c, req) /\ Passes(c, req)

\* the ranks of the rows a request may see, best first
Seen(ranking, req) ==
    LET ranks == {i \in DOMAIN ranking : Visible(ranking[i], req)}
    IN InOrder(ranks, {pair \in ranks \X ranks : pair[1] < pair[2]})

Found(ranking, req) ==
    LET seen == Seen(ranking, req)
    IN [n \in 1..Min({MaxRank, Len(seen)}) |-> ranking[seen[n]]]

\* a score of the search mode itself
Ranked(list) == [i \in DOMAIN list |-> [list[i] EXCEPT !.score = Unit \div (i + 1)]]

Everything_Bug(req) == TRUE

\* answers are kept for a minute, those within memory spaces never
Cacheable(req) == ~Scoped(req)

\* _cache_key
Key(req) == [mode |-> req.mode, budget |-> req.budget, filter |-> req.filter]

-----------------------------------------------------------------------------
(* retrieve *)

Ask(r) ==
    /\ At(r) = "idle"
    /\ asked < MaxRequests
    /\ asked' = asked + 1
    /\ \E req \in Asked :
         LET hits == {e \in cache : Cacheable(req) /\ e.key = Key(req)}
         IN reader' = [reader EXCEPT ![r] =
              IF hits # {}
                THEN [Idle EXCEPT !.at = "answered", !.req = req,
                        !.answer = (CHOOSE e \in hits : TRUE).answer]
                ELSE [Idle EXCEPT !.req = req, !.since = changes,
                        !.at = IF req.mode = "semantic" THEN "semantic" ELSE "lexical"]]
    /\ UNCHANGED <<relevance, live, changes, unflushed, cache>>

\* _keyword_candidates
SearchKeyword(r) ==
    /\ At(r) = "lexical"
    /\ reader' = [reader EXCEPT ![r].lexical = Ranked(Found(relevance[1], Req(r))),
                    ![r].at = IF Req(r).mode = "hybrid" THEN "semantic" ELSE "links"]
    /\ UNCHANGED <<relevance, live, changes, unflushed, cache, asked>>

\* _semantic_candidates, or no model to embed the query with
SearchSemantic(r) ==
    /\ At(r) = "semantic"
    /\ \E found \in {<<>>, Ranked(Found(relevance[2], Req(r)))} :
         reader' = [reader EXCEPT ![r].semantic = found, ![r].at = "links"]
    /\ UNCHANGED <<relevance, live, changes, unflushed, cache, asked>>

\* a search by meaning that finds nothing leaves the other alone
Candidates(r) ==
    LET mode == Req(r).mode  lexical == reader[r].lexical  semantic == reader[r].semantic IN
    IF mode = "keyword" \/ (mode = "hybrid" /\ semantic = <<>>) THEN lexical
    ELSE IF mode = "semantic" THEN semantic
    ELSE MergeRRF(lexical, semantic, IF Scoped(Req(r)) THEN MaxRank ELSE RRF_TopN)

Degraded(r) ==
    /\ Req(r).mode # "keyword" /\ reader[r].semantic = <<>>
    /\ Req(r).mode = "semantic" => Req(r).filter # "canonical"

\* a linked fact passes the same filters as those the searches found
Linkable(c, req) == c.source \in live /\ Bound(c, req) /\ Passes(c, req)

\* _traverse_links: facts linked to a source in the result, once each, with half
\* their confidence as score; a failure of this query leaves the result as it is
Linked(r, direct) ==
    LET sources == {direct[i].source : i \in DOMAIN direct}
        facts   == {l[2] : l \in {l \in Links : l[1] \in sources /\ l[1] \in live
                                                /\ Linkable(l[2], Req(r))}}
    IN SetToSeq({[c EXCEPT !.score = Unit \div 4] :
                   c \in {c \in facts : \A i \in DOMAIN direct : direct[i].id # c.id}})

FollowLinks(r) ==
    /\ At(r) = "links"
    /\ \E linked \in {<<>>, Linked(r, Candidates(r))} :
         LET all     == Candidates(r) \o linked
             trimmed == Trim(all, Req(r).budget, IF Scoped(Req(r)) THEN Limit ELSE Len(all)) IN
         reader' = [reader EXCEPT ![r].at = "fill",
                      ![r].answer = [items |-> trimmed.items, used |-> trimmed.used,
                                     reason |-> trimmed.reason, degraded |-> Degraded(r)]]
    /\ UNCHANGED <<relevance, live, changes, unflushed, cache, asked>>

\* the audit event is flushed, and the answer is kept
Fill(r) ==
    /\ At(r) = "fill"
    /\ cache' = IF Cacheable(Req(r))
                  THEN {e \in cache : e.key # Key(Req(r))}
                         \union {[key |-> Key(Req(r)), answer |-> reader[r].answer,
                                  since |-> reader[r].since, kept |-> changes]}
                  ELSE cache
    /\ reader' = [reader EXCEPT ![r].at = "answered", ![r].lexical = <<>>, ![r].semantic = <<>>]
    /\ UNCHANGED <<relevance, live, changes, unflushed, asked>>

-----------------------------------------------------------------------------
(* _continuity_handoff, and the payload made of it *)

HandOver(r) ==
    /\ At(r) = "answered" /\ Scoped(Req(r))
    /\ \E tokens \in TokenBudgets, max \in ModelBudgets :
         LET packet == Packet(reader[r].answer, tokens) IN
         reader' = [reader EXCEPT ![r].at = "handed", ![r].packet = packet,
                      ![r].payload = [max |-> max, given |-> Consume(packet, max)],
                      ![r].rendered = [max |-> max, given |-> Render(packet.selected, max)]]
    /\ UNCHANGED <<relevance, live, changes, unflushed, cache, asked>>

Leave(r) ==
    /\ At(r) \in {"answered", "handed"}
    /\ reader' = [reader EXCEPT ![r] = Idle]
    /\ UNCHANGED <<relevance, live, changes, unflushed, cache, asked>>

-----------------------------------------------------------------------------
(* The writers and the clock *)

Change(visible) ==
    /\ changes < MaxChanges
    /\ changes' = changes + 1
    /\ unflushed' = unflushed + 1
    /\ live' = visible
    /\ UNCHANGED <<relevance, cache, reader, asked>>

\* a derivation is published, or a source withdrawn
Publish(s) == s \notin live /\ Change(live \union {s})
Withdraw(s) == s \in live /\ Change(live \ {s})

OneKey_Bug == IF cache = {} THEN {} ELSE cache \ {CHOOSE e \in cache : TRUE}

\* invalidate_cache, once per change
Cleared == {}

Invalidate ==
    /\ unflushed > 0
    /\ unflushed' = unflushed - 1
    /\ cache' = Cleared
    /\ UNCHANGED <<relevance, live, changes, reader, asked>>

\* sixty seconds, or 256 other answers
Expire ==
    /\ \E e \in cache : cache' = cache \ {e}
    /\ UNCHANGED <<relevance, live, changes, unflushed, reader, asked>>

-----------------------------------------------------------------------------

Init ==
    /\ relevance \in Rankings
    /\ live = Sources
    /\ changes = 0 /\ unflushed = 0
    /\ cache = {}
    /\ reader = [r \in Readers |-> Idle]
    /\ asked = 0

Step(r) ==
    \/ Ask(r) \/ SearchKeyword(r) \/ SearchSemantic(r) \/ FollowLinks(r) \/ Fill(r)
    \/ HandOver(r) \/ Leave(r)

Next ==
    \/ \E r \in Readers : Step(r)
    \/ \E s \in Sources : Publish(s) \/ Withdraw(s)
    \/ Invalidate \/ Expire

Spec == Init /\ [][Next]_vars
=============================================================================
