--------------------------- MODULE RecallProperties ---------------------------
(* What those who ask, and the models that are handed an answer, rely on. *)
EXTENDS Recall

SameUnit(c, d) ==
    \/ c.id = d.id
    \/ {c.type, d.type} \subseteq {"summary", "excerpt"} /\ c.source = d.source

Among(c, list) == \E i \in DOMAIN list : SameUnit(c, list[i])

\* A list holds the unit more than once: as several rows of its source.
Repeats(c, list) ==
    \E i, j \in DOMAIN list : i # j /\ SameUnit(c, list[i]) /\ SameUnit(c, list[j])

\* the request joins the two searches
Fuses(r) == Req(r).mode = "hybrid" /\ reader[r].semantic # <<>>

FoundByBoth(r, c) == Among(c, reader[r].lexical) /\ Among(c, reader[r].semantic)

\* The docstrings of the fusion and of the trimming: where the searches are
\* joined a unit shows once however many rows of it they found, what both found
\* comes before what one found, unless that one listed it several times, and an
\* item is left out in favour of one of a lower layer only if it did not fit
\* beside the items of its own and of higher layers.
AnswersAreRanked ==
    \A r \in Readers : At(r) = "fill" =>
        LET found  == Candidates(r)
            answer == reader[r].answer.items
        IN /\ \A i, j \in DOMAIN found : i < j =>
                /\ found[i].id # found[j].id
                /\ Fuses(r) => ~SameUnit(found[i], found[j])
                /\ FoundByBoth(r, found[j]) =>
                     \/ FoundByBoth(r, found[i])
                     \/ Repeats(found[i], reader[r].lexical) \/ Repeats(found[i], reader[r].semantic)
           /\ \A i \in DOMAIN found, j \in DOMAIN answer :
                /\ \A k \in DOMAIN answer : answer[k].id # found[i].id
                /\ Layer[found[i].type] < Layer[answer[j].type]
                => found[i].size + SumFunctionOnSet([k \in DOMAIN answer |-> answer[k].size],
                     {k \in DOMAIN answer : Layer[answer[k].type] <= Layer[found[i].type]})
                   > Req(r).budget

\* No answer, however it was come by, holds an item from outside the memory
\* spaces of its request or that its filters leave out: not through the cache,
\* whose key names no space, and not through the links of what was found.
AnswersStayInScope ==
    \A r \in Readers : \A i \in DOMAIN reader[r].answer.items :
        LET c == reader[r].answer.items[i] IN Bound(c, Req(r)) /\ Passes(c, Req(r))

\* A cached answer outlives the clearing that its missed changes caused only if
\* it was read before one of them and kept after it.  The time to live is the
\* only bound on those.
StaleOnlyByOverlap ==
    \A e \in cache : unflushed = 0 /\ e.since < changes => e.since < e.kept

\* What a model is given accounts for the answer within its budget: every item
\* of the packet is in the text or named as omitted, omissions are warned of in
\* the text that was measured, what the packet left out is warned of too, and
\* nothing of the mandatory part was given up for memory.
HandoffAccounts ==
    \A r \in Readers : At(r) = "handed" =>
        LET packet   == reader[r].packet
            given    == reader[r].payload.given
            rendered == reader[r].rendered.given
            Ids(list) == {list[i].id : i \in DOMAIN list}
        IN /\ Ids(packet.selected) \union Ids(packet.excluded) = Ids(reader[r].answer.items)
           /\ given.status = "ok" =>
                /\ Ids(given.included) \union Ids(given.omitted) = Ids(packet.selected)
                /\ Ids(given.included) \intersect Ids(given.omitted) = {}
                /\ given.reduced <=> given.omitted # <<>>
                /\ given.chars = Mandatory(packet, given.omitted # <<>>) + Blocks(given.included)
                /\ given.chars <= reader[r].payload.max
           /\ rendered.chars <= Max({reader[r].rendered.max, OverflowChars})
           /\ Cardinality(rendered.included) + rendered.omitted = Len(packet.selected)
           /\ rendered.omitted > 0 => rendered.truncated

-----------------------------------------------------------------------------
(* Promises the code does not keep *)

\* retrieval-and-ranking.md: "Cache must not serve results across a policy
\* change (sensitivity overrides or deletion events must flush relevant cache
\* entries)".
CacheHonorsDeletion ==
    unflushed = 0 => \A e \in cache : \A i \in DOMAIN e.answer.items :
        e.answer.items[i].source \in live

\* test_retrieval.py: "An item found by both modes outranks an item found by
\* only one mode."
AgreementOutranks ==
    \A r \in Readers : At(r) = "fill" =>
        LET found == Candidates(r) IN
        \A i, j \in DOMAIN found :
            i < j /\ FoundByBoth(r, found[j]) => FoundByBoth(r, found[i])

\* retrieval/service.py scores a linked fact "discount vs direct match".
LinkedBelowDirect ==
    \A r \in Readers : At(r) = "fill" /\ Req(r).mode = "hybrid" =>
        LET answer  == reader[r].answer.items
            Direct(i) == \E j \in DOMAIN Candidates(r) : Candidates(r)[j].id = answer[i].id
        IN \A i, j \in DOMAIN answer :
             answer[i].type = "fact" /\ answer[j].type = "fact" /\ i < j /\ Direct(j) => Direct(i)
=============================================================================
