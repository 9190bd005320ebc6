------------------------------- MODULE MCRecall -------------------------------
(* Recall on a small memory: two sources in different spaces. *)
EXTENDS RecallProperties

CONSTANTS a, b

Candidate(id, type, source, size) ==
    [id |-> id, type |-> type, source |-> source, size |-> size, score |-> 0]

Canon == Candidate("canon", "canonical", a, 2)
FactA == Candidate("fact a", "fact", a, 1)
TextA == Candidate("text a", "excerpt", a, 3)
FactB == Candidate("fact b", "fact", b, 2)
SumA  == Candidate("summary a", "summary", a, 2)
TextB == Candidate("text b", "excerpt", b, 3)

\* what a parked pass and the pass that resumed it have written for a, and
\* another text of b
AgainA == Candidate("text a again", "excerpt", a, 3)
WordsB == Candidate("words b", "excerpt", b, 3)

SmallMemory   == {Canon, FactA, TextA, FactB, AgainA, WordsB}
SmallEmbedded == {SumA, TextB}
SmallLinks    == {<<a, FactB>>}
SmallSpacesOf == a :> {"p"} @@ b :> {"p", "q"}

SmallRankings ==
    {<<<<Canon, TextA, FactB>>, <<SumA, TextB>>>>,
     <<<<FactB, TextA, FactA>>, <<TextB, SumA>>>>,
     <<<<TextA, AgainA, WordsB>>, <<TextB>>>>}

SmallRequests ==
    LET Of(modes, scopes, filters) ==
          [mode : modes, budget : {4}, scope : scopes, filter : filters]
    IN   Of({"hybrid"}, {{}, {"q"}}, {"none"})
         \union Of({"keyword"}, {{}}, {"canonical"})
         \union Of({"keyword"}, {{"p"}}, {"none"})
         \union Of({"semantic"}, {{}}, {a})

SmallOptional == <<1, 2>>

Symmetry == Permutations(Readers)
=============================================================================
