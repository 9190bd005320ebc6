-------------------------- MODULE CurationProperties --------------------------
(* What reviewers, and the owners of sources, rely on. *)
EXTENDS Curation

\* With managed generations a fact is up for one decision at a time, however
\* many detections run at once, and no group is decided on twice, however many
\* reviewers answer the same item.
JudgedOnce ==
    managed =>
        /\ \A g \in Groups : decisions[g] <= 1
        /\ \A g, h \in Groups :
             items[g].status = "pending" /\ items[h].status = "pending"
                 /\ members[g] \cap members[h] # {} => g = h

\* A decision to suppress is never taken on outdated facts: what it keeps is of
\* the generation readers see and its source is live when the others disappear,
\* though sources were deleted and generations published while the reviewer
\* decided (_current_group under the source locks).  Whether readers list the
\* kept fact depends on its review status, which nobody looks at: KeptIsListed.
SuppressKeepsCurrent ==
    [][\A t \in Txns :
         managed /\ Commit(t) =>
             /\ txn[t].kept # {}
             /\ \A f \in txn[t].kept :
                  Visible(f) /\ live[Source(f)] /\ facts'[f].status = "active"]_vars

\* Promotion never brings deleted content back: an active canonical item that
\* came from a fact has a live source, in either mode.
PromotedIsLive == \A c \in canonical : c.live => live[Source(c.fact)]

\* "Never take a fact lock before the source lock used by deletion/publication":
\* with managed generations no transactions ever wait for each other in a circle.
NoDeadlock ==
    managed => ~\E S \in (SUBSET Txns) \ {{}} : \A t \in S : Blockers(t) \cap S # {}

\* Deletion erases derived plaintext "so the content cannot survive": no text a
\* user gave a fact is found there once the source is deleted.
ErasedStaysErased == \A f \in Facts : ~live[Source(f)] => facts[f].text = "erased"

\* the facts page and retrieval show a fact unless the user has deleted it
Listed(f) == Active(f) /\ Visible(f) /\ facts[f].review # "deleted"

\* "keep the best fact, suppress the duplicates" (resolve_review_item): when
\* readers see some fact of the group, the one that is kept is such a fact.
KeptIsListed ==
    [][\A t \in Txns :
         managed /\ Apply(t) /\ txn'[t].at = "commit" /\ (\E f \in Judged(t) : Listed(f))
           => \E f \in txn'[t].kept : Listed(f)]_vars
=============================================================================
