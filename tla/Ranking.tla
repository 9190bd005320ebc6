------------------------------ MODULE Ranking ------------------------------
(***************************************************************************)
(* From ranked candidates to a bounded answer (retrieval/service.py): the  *)
(* reciprocal rank fusion of two lists, and the selection of items by      *)
(* memory layer within a budget of characters.                             *)
(*                                                                         *)
(* A candidate is a record with its row, memory layer, source and length.  *)
(* Scores are fractions of Unit, so that 1 / (k + rank) is exact for the   *)
(* ranks up to MaxRank.                                                    *)
(***************************************************************************)
EXTENDS Naturals, Sequences, FiniteSetsExt, SequencesExt

CONSTANTS
    RRF_K,      \* dampens the weight of the first ranks
    RRF_Worst,  \* the rank that a single vote must reach
    RRF_TopN,   \* units kept for an unscoped request
    MaxRank     \* candidates of a mode

\* fifty candidates and a dampening of sixty: two late votes outweigh a first one
ASSUME RankingAssumption ==
    /\ {RRF_K, RRF_Worst, RRF_TopN, MaxRank} \subseteq Nat \ {0}
    /\ MaxRank <= RRF_K + 1

Unit == ProductSet({RRF_K + i : i \in 1..MaxRank})

\* _PRIORITY_ORDER
Layer == [canonical |-> 1, fact |-> 2, summary |-> 3, excerpt |-> 4]

\* The elements of a finite set in the order that a set of pairs gives them: the
\* n-th is the one with n - 1 before it.
InOrder(S, before) ==
    [n \in 1..Cardinality(S) |->
       CHOOSE x \in S : Cardinality({y \in S : <<y, x>> \in before}) = n - 1]

-----------------------------------------------------------------------------
(* _merge_rrf_limited *)

rrf_score(rank) == Unit \div (RRF_K + rank)

RowKey_Bug(c) == <<"row", c.id>>

\* the retrievable unit: canonical items and facts stand for themselves, all
\* else for its source
FusionKey(c) ==
    IF c.type \in {"canonical", "fact"} THEN <<c.type, c.id>> ELSE <<"archive", c.source>>

Votes(list, key) == {rank \in DOMAIN list : FusionKey(list[rank]) = key}

Units(list) == {FusionKey(list[rank]) : rank \in DOMAIN list}

Fused(lexical, semantic, key) ==
    LET Cast(list) == SumFunction([rank \in Votes(list, key) |-> rrf_score(rank)])
    IN Cast(lexical) + Cast(semantic)

\* the first candidate of the unit's highest layer
Representative(both, key) ==
    both[CHOOSE i \in Votes(both, key) :
           \A j \in Votes(both, key) :
              \/ Layer[both[i].type] < Layer[both[j].type]
              \/ Layer[both[i].type] = Layer[both[j].type] /\ i <= j]

\* each unit with its score and the position at which it was first seen
Scores(lexical, semantic) ==
    {[key |-> key, score |-> Fused(lexical, semantic, key),
      seen |-> Min(Votes(lexical \o semantic, key))] : key \in Units(lexical \o semantic)}

\* the units that reach the threshold
Kept(lexical, semantic) ==
    {unit \in Scores(lexical, semantic) : unit.score * (RRF_K + RRF_Worst) >= Unit}

\* best score first, and what was seen first among equals
BestFirst(units) ==
    {pair \in units \X units :
       \/ pair[1].score > pair[2].score
       \/ pair[1].score = pair[2].score /\ pair[1].seen < pair[2].seen}

MergeRRF(lexical, semantic, limit) ==
    LET kept  == Kept(lexical, semantic)
        order == InOrder(kept, BestFirst(kept))
    IN [i \in 1..Min({limit, Cardinality(kept)}) |->
          [Representative(lexical \o semantic, order[i].key) EXCEPT !.score = order[i].score]]

-----------------------------------------------------------------------------
(* apply_budget_trimming, and its variant with a limit for scoped requests *)

\* by layer, then score, then position
Precedes(items) ==
    {pair \in (DOMAIN items) \X (DOMAIN items) :
       LET left == items[pair[1]]  right == items[pair[2]] IN
       \/ Layer[left.type] < Layer[right.type]
       \/ Layer[left.type] = Layer[right.type] /\ left.score > right.score
       \/ Layer[left.type] = Layer[right.type] /\ left.score = right.score /\ pair[1] < pair[2]}

Precedence(items) == InOrder(DOMAIN items, Precedes(items))

NothingYet == [items |-> <<>>, used |-> 0, reason |-> "result_exhausted"]

\* an item that does not fit is left out whole, and a later one may still fit
Considered(so_far, item, budget, limit) ==
    LET used == so_far.used + item.size
        next == IF used > budget THEN so_far
                ELSE [so_far EXCEPT !.items = Append(@, item), !.used = used]
    IN IF so_far.reason # "result_exhausted" THEN so_far
       ELSE IF Len(so_far.items) >= limit THEN [so_far EXCEPT !.reason = "result_limit"]
       ELSE IF next.used >= budget THEN [next EXCEPT !.reason = "budget_met"]
       ELSE next

Trim(items, budget, limit) ==
    FoldLeft(LAMBDA so_far, i : Considered(so_far, items[i], budget, limit),
             NothingYet, Precedence(items))
=============================================================================
