------------------------ MODULE DerivationProperties ------------------------
(***************************************************************************)
(* What the generation coordinator must keep true, over Derivation.        *)
(***************************************************************************)
EXTENDS Derivation

\* "Every open managed candidate is represented by that pointer": the head's
\* two pointers are exactly the generation published and the generation still
\* open, so the partial unique indexes on both never reject a commit.
HeadsAgree ==
    \A g \in GenIds : /\ gens[g].status = "active" <=> head.active = g
                      /\ gens[g].status \in Open <=> head.candidate = g

\* Required outputs are durable before a generation can be seen, and only a
\* generation that was published carries an embedding.
PublishedComplete ==
    \A g \in GenIds :
        /\ gens[g].status \in {"prepared", "active", "superseded"} =>
             gens[g].sum # "none" /\ gens[g].ext # "none" /\ gens[g].proj # "none"
        /\ gens[g].emb => gens[g].proj # "none"

\* After cascade_delete_archive_item commits, no worker that read the source
\* before it can bring anything back: nothing is open, published or searchable.
RemovedStaysWithdrawn ==
    source.deleted =>
        /\ head.active = NoGen /\ head.candidate = NoGen
        /\ baseline # "active"
        /\ \A g \in GenIds : /\ gens[g].status \notin Resumable
                             /\ gens[g].proj # "active"

\* A managed job says completed only while the generation it is bound to is
\* the published one, and it says "partial" just when the summary was given up.
CompletedIsPublished ==
    job.status = "completed" /\ job.gen # NoGen /\ ~source.deleted =>
        /\ head.active = job.gen
        /\ job.err = "partial" <=> gens[job.gen].sum = "partial_failure"

\* resolve_conflict never blames a consistent state: no interleaving ends a job
\* as blocked or broken, a job is cancelled only for a removed source, and the
\* one reachable phase error belongs to a prepared generation that wants a
\* provider.
NoFalseVerdict ==
    /\ job.err \notin {"claim_lost", "already_published", "generation_retired",
                       "state_inconsistent", "outputs_inconsistent"}
    /\ job.err = "source_removed" => source.deleted \/ source.twin
    /\ job.err = "invalid_phase" /\ job.status = "failed" =>
         gens[job.gen].status = "prepared" \/ source.deleted

\* A reprocess that names the binding it saw, of a failed or of a completed job,
\* conflicts when it is retried instead of creating another
\* generation: each observed binding admits at most one.
LostAckIsSafe ==
    \A g, h \in GenIds : gens[g].cas \intersect gens[h].cas # {} => g = h

-----------------------------------------------------------------------------
(* The inductive strengthening *)

\* sequence numbers are used in order and unused rows are blank
Numbered == \A g \in GenIds : /\ gens[g].status = "absent" <=> g > ngens
                              /\ g > ngens => gens[g] = Absent

\* the job is always bound to the newest generation, which nothing but a
\* removal retires before the next one is created
BoundToNewest ==
    /\ job.gen = ngens
    /\ ngens # NoGen /\ ~source.deleted => gens[ngens].status \in Resumable

\* the candidate is the newest generation and succeeds the published one
Succession ==
    /\ head.candidate # NoGen => /\ head.candidate = ngens
                                 /\ gens[ngens].pred = head.active
    /\ head.active # NoGen => head.retired
    /\ head.active <= ngens

\* a claimed job consumed an attempt for its claim
Counted == job.status = "claimed" => job.att > 0

\* The published state is coherent: what the head, the generations and the job
\* say of each other, before and after every step of every actor.
Coherent ==
    /\ Numbered /\ BoundToNewest /\ Succession
    /\ HeadsAgree /\ PublishedComplete
    /\ RemovedStaysWithdrawn /\ CompletedIsPublished

IndInv == TypeOK /\ Counted /\ Coherent

\* a generation is admitted on a binding older than itself
AdmittedOnOlder == \A g \in GenIds : \A e \in gens[g].cas : e < g

-----------------------------------------------------------------------------

HoldsJob(w) == job.status = "claimed" /\ job.at = claim[w].at

\* claimed_at identifies a claim: of two running dispatches at most one carries
\* the job's, and that one passes the whole fence
Tokens ==
    /\ job.at <= clock
    /\ \A w \in Workers : pc[w] \in Busy =>
         /\ claim[w].at <= clock
         /\ HoldsJob(w) => Owns(claim[w])
         /\ \A v \in Workers \ {w} : pc[v] \in Busy => claim[v].at # claim[w].at

\* A worker whose claim was taken over (reset as stale and claimed again, or
\* settled by someone else) changes no durable row, wherever it stopped.
StaleClaimHarmless ==
    [][\A w \in Workers :
         pc[w] \in Busy /\ ~HoldsJob(w) /\ <<pc[w], ctx[w]>>' # <<pc[w], ctx[w]>>
           => UNCHANGED durable]_vars

\* A dispatch that returns to its loop has settled the claim it took; only a
\* failed recovery transaction leaves the job claimed by nobody.
ClaimIsSettled ==
    [][\A w \in Workers :
         pc[w] \in Busy \ {"escaped"} /\ pc'[w] = "idle"
           => ~(job'.status = "claimed" /\ job'.at = claim[w].at)]_vars

\* superseded, failed and abandoned are final, a published generation is only
\* superseded or withdrawn, and legacy retirement is permanent.
LifecycleIsMonotone ==
    [][/\ \A g \in GenIds :
            /\ gens[g].status \in Retired => gens'[g].status = gens[g].status
            /\ gens[g].status = "active" =>
                 gens'[g].status \in {"active", "superseded", "abandoned"}
       /\ head.retired => head'.retired]_vars

\* Once the source is deleted or its content is covered by a tombstone, nothing
\* more is published for it.
NoPublicationAfterRemoval ==
    [][source.deleted \/ source.twin => head'.active \in {head.active, NoGen}]_vars

\* Every dispatch ends: the published replay is taken once and no conflict is
\* raised for ever.
DispatchEnds ==
    \A w \in Workers : pc[w] \in Busy ~> pc[w] \notin Busy

\* Readers get what PublishedMemory promises, through visibility.current.
Readers == INSTANCE PublishedMemory WITH
    Summaries   <- SummaryOutcome,
    Extractions <- ExtractionOutcome,
    shown       <- head.active,
    outputs     <- IF head.active = NoGen THEN [sum |-> "none", ext |-> "none"]
                   ELSE [sum |-> gens[head.active].sum, ext |-> gens[head.active].ext],
    legacy      <- head.active = NoGen /\ ~head.retired /\ ~source.deleted,
    sealed      <- source.twin,
    removed     <- source.deleted

\* The coordinator implements the promise to readers, step by step.
ReadersSpec == Readers!Spec

-----------------------------------------------------------------------------
(* Why a verdict is true *)

\* only a removal makes rows "source_removed", and only prepare_fts, which ends
\* the building, gives a generation its projection
Searchable ==
    /\ ~source.deleted => /\ baseline # "source_removed"
                          /\ \A g \in GenIds : gens[g].proj # "source_removed"
    /\ \A g \in GenIds : gens[g].status = "building" => gens[g].proj = "none"

\* the worker's claim is the job's, and its source is still there
Holds(w) == Owns(claim[w]) /\ Live

\* what is durable at each stage of a dispatch that would pass the fence
Progress(w) ==
    LET row == gens[claim[w].gen] IN
    pc[w] \in Fenced /\ Holds(w) =>
        /\ claim[w].gen # NoGen
        /\ pc[w] = "park" => row.status # "active"
        /\ pc[w] \in {"review", "extraction", "assess", "fts", "publish"} => row.sum # "none"
        /\ pc[w] \in {"assess", "fts", "publish"} => row.ext # "none"
        /\ pc[w] = "publish" => row.proj # "none"
        /\ pc[w] \in {"enrich", "finish"} => row.status = "active"

\* a conflict of a worker that still holds its claim has one of two reasons, and
\* the generation is still what raised it
Blamed(w) ==
    LET row == gens[claim[w].gen] IN
    pc[w] = "resolve" /\ Holds(w) =>
        /\ claim[w].gen # NoGen
        /\ \/ ctx[w].why = "already_published" /\ row.status = "active"
           \/ ctx[w].why = "invalid_phase" /\ row.status = "prepared"

\* a verdict stands until the job is requeued
Verdicts == /\ job.err \in Reasons => job.status = "failed"
            /\ NoFalseVerdict

Reasoned == /\ Searchable /\ Verdicts
            /\ \A w \in Workers : Progress(w) /\ Blamed(w)

-----------------------------------------------------------------------------
(* What comments in the code say and the code does not do *)

\* "jobs don't stay blocked forever when user adds a key" (reactivation): a job
\* waiting in the queue can still be claimed.
PendingIsEligible == job.status = "pending" => job.att < MaxAttempts

\* "On missing provider: job -> pending_provider (amber badge, not failure)".
MissingProviderNeverFails == job.err # "invalid_phase"
=============================================================================
