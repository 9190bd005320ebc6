----------------------------- MODULE Derivation -----------------------------
(***************************************************************************)
(* The generation coordinator of one archived source: its processing job,  *)
(* its derivation head, the generations built for it and the workers that  *)
(* dispatch the job (app/domain/derivations/service.py, driven by          *)
(* app/worker/managed_dispatcher.py, app/worker/loop.py and                *)
(* app/domain/jobs/service.py, withdrawn by app/domain/archive/service.py).*)
(*                                                                         *)
(* Every coordinator transaction locks source, head, job and generations   *)
(* FOR UPDATE and re-reads them, so each one is a single action; what a    *)
(* worker remembers between two transactions is kept in claim and ctx.     *)
(* Model and provider calls run between transactions: all other actors may *)
(* step there.  The managed switch is on, and the source's content hash,   *)
(* processing mode and contract version never change after ingest.         *)
(* An operator named ..._Bug is a faulty variant of the definition that    *)
(* follows it, kept to show that some property notices it; nothing uses it.*)
(***************************************************************************)
EXTENDS Naturals, FiniteSets

CONSTANTS
    Workers,      \* worker loops, each in a process of its own
    Settings,     \* the provider configurations a process may start with
    MaxAttempts,  \* job.max_attempts
    MaxGens,      \* bound: generations ever created for the source
    MaxClaims     \* bound: claims ever made of the job

\* a provider configuration: "llm" when any provider key is set, and each
\* operation whose selected provider resolves
Ops     == {"sum", "ext"}
Configs == {k \in SUBSET (Ops \union {"llm"}) : k # {} => "llm" \in k}

ASSUME ConstantsAssumption ==
    /\ Settings \subseteq Configs
    /\ MaxAttempts \in Nat \ {0}
    /\ MaxGens \in Nat
    /\ MaxClaims \in Nat

VARIABLES
    source,    \* the raw_archive row and the tombstones that cover it
    job,       \* the source's only job row
    head,      \* the archive_derivation_heads row; blank = absent
    gens,      \* the derivation_generations rows with stages and projection
    ngens,     \* highest sequence number in use
    baseline,  \* the projection row that belongs to no generation
    clock,     \* claims made so far: the value the next claimed_at exceeds
    pc,        \* where each worker is in its dispatch
    claim,     \* the Claim each worker captured
    ctx        \* what else each worker holds between transactions

durable == <<source, job, head, gens, ngens, baseline, clock>>
local   == <<pc, claim, ctx>>
vars    == <<source, job, head, gens, ngens, baseline, clock, pc, claim, ctx>>

-----------------------------------------------------------------------------
(* Values *)

NoGen  == 0
GenIds == 1..MaxGens

Open      == {"building", "prepared"}
Resumable == Open \union {"active"}
Retired   == {"superseded", "failed", "abandoned"}
GenStatus == Resumable \union Retired \union {"absent"}

JobStatus == {"pending", "claimed", "completed", "failed",
              "retryable_failed", "pending_provider"}

SummaryOutcome    == {"succeeded", "empty", "policy_skipped", "partial_failure"}
ExtractionOutcome == {"succeeded", "policy_skipped"}
ProjectionStatus  == {"none", "active", "source_removed"}

\* ConflictReason, less the members no code path of one managed source raises
Reasons == {"claim_lost", "already_published", "source_removed",
            "generation_retired", "state_inconsistent",
            "outputs_inconsistent", "invalid_phase"}

Stale   == {"claim_lost"}
Cancels == {"source_removed"}
Blocks  == {"generation_retired"}

\* error_message of the job, by what wrote it
Errors == {"none", "error", "no_provider", "partial"} \union Reasons

Generation == [status : GenStatus,
               pred   : 0..MaxGens,
               cas    : SUBSET (0..MaxGens),  \* expected binding it was admitted on
               sum    : SummaryOutcome \union {"none"},
               ext    : ExtractionOutcome \union {"none"},
               proj   : ProjectionStatus,
               emb    : BOOLEAN]

Absent == [status |-> "absent", pred |-> NoGen, cas |-> {},
           sum |-> "none", ext |-> "none", proj |-> "none", emb |-> FALSE]

NoClaim == [att |-> 0, at |-> 0, gen |-> NoGen]
Fresh(keys) == [keys |-> keys, replay |-> FALSE, extern |-> FALSE,
                allowed |-> {}, sum |-> "none", why |-> "claim_lost",
                retry |-> FALSE]

Admission == {"admit"}
Fenced    == {"snapshot", "gate", "baseline", "decide", "park", "summary",
              "review", "extraction", "assess", "fts", "publish", "enrich",
              "finish"}
Exits     == {"failing", "resolve", "escaped"}
Busy      == Admission \union Fenced \union Exits
PCs       == Busy \union {"down", "idle"}

SourceRow == [deleted : BOOLEAN, twin : BOOLEAN]
JobRow    == [status : JobStatus, att : 0..MaxAttempts, at : 0..MaxClaims,
              gen : 0..MaxGens, aged : BOOLEAN, err : Errors]
HeadRow   == [active : 0..MaxGens, candidate : 0..MaxGens, retired : BOOLEAN]
Claims    == [att : 0..MaxAttempts, at : 0..MaxClaims, gen : 0..MaxGens]
Memories  == [keys : Configs, replay : BOOLEAN, extern : BOOLEAN,
              allowed : SUBSET Ops, sum : SummaryOutcome \union {"none"},
              why : Reasons, retry : BOOLEAN]

TypeOK ==
    /\ source \in SourceRow
    /\ job \in JobRow
    /\ head \in HeadRow
    /\ gens \in [GenIds -> Generation]
    /\ ngens \in 0..MaxGens
    /\ baseline \in ProjectionStatus
    /\ clock \in 0..MaxClaims
    /\ pc \in [Workers -> PCs]
    /\ claim \in [Workers -> Claims]
    /\ ctx \in [Workers -> Memories]

-----------------------------------------------------------------------------
(* What a transaction reads under its locks *)

LiveUnlessTwin_Bug == ~source.twin
LiveUnlessDeleted_Bug == ~source.deleted

\* source_live: not deleted, and no tombstone by source id or content hash
Live == ~source.deleted /\ ~source.twin

OwnsCount_Bug(c) == job.status = "claimed" /\ job.att = c.att

\* owns_claim; admission does not compare the generation
OwnsAttempt(c) == job.status = "claimed" /\ job.att = c.att /\ job.at = c.at
Owns(c) == OwnsAttempt(c) /\ (c.gen # NoGen => job.gen = c.gen)

\* the head points at a resumable generation in the way its status requires
Attached(g) == IF gens[g].status = "active" THEN head.active = g
                                            ELSE head.candidate = g

RetiredBeforeRemoved_Bug(c, g) ==
    IF ~Owns(c) THEN "claim_lost"
    ELSE IF g = NoGen THEN "state_inconsistent"
    ELSE IF gens[g].status \in Retired THEN "generation_retired"
    ELSE IF ~Live THEN "source_removed"
    ELSE IF gens[g].status = "absent" \/ ~Attached(g) THEN "state_inconsistent"
    ELSE "ok"

\* state_reason, in its order of precedence; "ok" is None
StateReason(c, g) ==
    IF ~Owns(c) THEN "claim_lost"
    ELSE IF ~Live THEN "source_removed"
    ELSE IF g = NoGen THEN "state_inconsistent"
    ELSE IF gens[g].status \in Retired THEN "generation_retired"
    ELSE IF gens[g].status = "absent" \/ ~Attached(g) THEN "state_inconsistent"
    ELSE "ok"

ContextOfSource_Bug(w) == IF ~Live THEN "source_removed" ELSE "ok"

\* context: the fence every worker transaction passes first
Context(w) == StateReason(claim[w], claim[w].gen)

\* validate_publication: required outputs durable, and the head agrees
Validation(g) ==
    IF gens[g].sum = "none" \/ gens[g].ext = "none" \/ gens[g].proj # "active"
      THEN "outputs_inconsistent"
    ELSE IF gens[g].status = "active"
      THEN IF head.active = g /\ head.retired THEN "ok" ELSE "state_inconsistent"
    ELSE IF gens[g].status = "prepared" /\ head.active = gens[g].pred
      THEN "ok" ELSE "invalid_phase"

-----------------------------------------------------------------------------
(* Steps of a worker's control, and of the rows they leave alone *)

Goto(w, label) == pc' = [pc EXCEPT ![w] = label]

\* the dispatch returns: the loop forgets the job and polls again
Return(w) == /\ Goto(w, "idle")
             /\ claim' = [claim EXCEPT ![w] = NoClaim]
             /\ ctx' = [ctx EXCEPT ![w] = Fresh(ctx[w].keys)]

\* what a worker still knows once an exception or a failure has left
\* dispatch_claim and its local variables
Unwound(w) == [Fresh(ctx[w].keys) EXCEPT !.replay = ctx[w].replay]

\* a DerivationConflict rolls the transaction back; its reason is resolved later
Raise(w, reason) == /\ Goto(w, "resolve")
                    /\ ctx' = [ctx EXCEPT ![w] = [Unwound(w) EXCEPT !.why = reason]]
                    /\ UNCHANGED <<durable, claim>>

\* an exception the dispatcher turns into fail_current_claim
Fail(w, retryable) == /\ Goto(w, "failing")
                      /\ ctx' = [ctx EXCEPT ![w] = [Unwound(w) EXCEPT !.retry = retryable]]
                      /\ UNCHANGED <<durable, claim>>

OnlyGen(g, row) == /\ gens' = [gens EXCEPT ![g] = row]
                   /\ UNCHANGED <<source, job, head, ngens, baseline, clock>>
OnlyJob == UNCHANGED <<source, head, gens, ngens, baseline, clock>>

\* fail_job: retryable until the attempts are used up
FailedJob(retryable, err) ==
    [job EXCEPT !.status = IF retryable /\ job.att < MaxAttempts
                             THEN "retryable_failed" ELSE "failed",
                !.err = err]

\* _new_generation: the next sequence number, bound to the job
NewGeneration(pred, cas) ==
    [Absent EXCEPT !.status = "building", !.pred = pred, !.cas = cas]
KeepsBinding_Bug(g) == [job EXCEPT !.status = "pending", !.att = 0, !.err = "none"]

Requeued(g) == [job EXCEPT !.status = "pending", !.att = 0, !.err = "none", !.gen = g]

-----------------------------------------------------------------------------
(* The worker: claiming, admission, dispatch_claim *)

\* what claim_next_job selects
Eligible == /\ job.status \in {"pending", "retryable_failed"}
            /\ job.att < MaxAttempts

\* claim_next_job, and the Claim captured before anything can refresh the row
ClaimNext(w) ==
    /\ pc[w] = "idle"
    /\ Eligible
    /\ clock < MaxClaims
    /\ clock' = clock + 1
    /\ job' = [job EXCEPT !.status = "claimed", !.att = @ + 1,
                          !.at = clock + 1, !.aged = FALSE]
    /\ claim' = [claim EXCEPT ![w] = [att |-> job.att + 1, at |-> clock + 1,
                                      gen |-> job.gen]]
    /\ Goto(w, "admit")
    /\ UNCHANGED <<source, head, gens, ngens, baseline, ctx>>

\* why automatic admission rejects the captured claim
AdmissionReason(c) ==
    IF ~OwnsAttempt(c) THEN "claim_lost"
    ELSE IF ~Live THEN "source_removed"
    ELSE IF job.gen # NoGen
      THEN IF gens[job.gen].status \notin Resumable THEN "generation_retired"
           ELSE IF ~Attached(job.gen) THEN "state_inconsistent"
           ELSE "ok"
    ELSE IF head.candidate # NoGen THEN "state_inconsistent"
    ELSE "ok"

\* admit_generation(manual=False): resume the job's generation, or build its first
Admit(w) ==
    /\ pc[w] = "admit"
    /\ \/ /\ AdmissionReason(claim[w]) # "ok"
          /\ Raise(w, AdmissionReason(claim[w]))
       \/ /\ AdmissionReason(claim[w]) = "ok"
          /\ job.gen # NoGen
          /\ claim' = [claim EXCEPT ![w].gen = job.gen]
          /\ Goto(w, "snapshot")
          /\ UNCHANGED <<durable, ctx>>
       \/ /\ AdmissionReason(claim[w]) = "ok"
          /\ job.gen = NoGen
          /\ ngens < MaxGens
          /\ ngens' = ngens + 1
          /\ gens' = [gens EXCEPT ![ngens + 1] = NewGeneration(head.active, {})]
          /\ job' = [job EXCEPT !.gen = ngens + 1]
          /\ head' = [head EXCEPT !.candidate = ngens + 1]
          /\ claim' = [claim EXCEPT ![w].gen = ngens + 1]
          /\ Goto(w, "snapshot")
          /\ UNCHANGED <<source, baseline, clock, ctx>>

\* require_local_model_ready_async raises before the admission transaction
ModelNotReady(w) == pc[w] = "admit" /\ Fail(w, FALSE)

\* any fenced transaction of the dispatch finds its claim or its state gone
FenceFails(w) ==
    /\ pc[w] \in Fenced
    /\ Context(w) # "ok"
    /\ Raise(w, Context(w))

Passes(w, label) == pc[w] = label /\ Context(w) = "ok"

\* the first snapshot: a published generation only needs its enrichment replayed
Snapshot(w) ==
    /\ Passes(w, "snapshot")
    /\ IF gens[claim[w].gen].status = "active" /\ ~ctx[w].replay
         THEN Raise(w, "already_published")
         ELSE Goto(w, "gate") /\ UNCHANGED <<durable, claim, ctx>>

\* the gate model fails: the job never reaches a provider unclassified
GateFails(w) == pc[w] = "gate" /\ Fail(w, TRUE)

\* the gate decides, the effective policy and the providers are resolved and
\* write_policy records them
Classify(w) ==
    /\ Passes(w, "gate")
    /\ \E extern \in BOOLEAN, onHost \in SUBSET Ops :
         ctx' = [ctx EXCEPT ![w].extern = extern,
                            ![w].allowed = {op \in ctx[w].keys \intersect Ops :
                                              extern \/ op \in onHost}]
    /\ Goto(w, "baseline")
    /\ UNCHANGED <<durable, claim>>

\* raw_baseline: raw text is searchable until something is published
RawBaseline(w) ==
    /\ Passes(w, "baseline")
    /\ IF head.active = NoGen /\ ~head.retired /\ baseline = "source_removed"
         THEN Raise(w, "outputs_inconsistent")
         ELSE /\ baseline' = IF head.active = NoGen /\ ~head.retired
                               THEN "active" ELSE baseline
              /\ Goto(w, "decide")
              /\ UNCHANGED <<source, job, head, gens, ngens, clock, claim, ctx>>

\* the second snapshot: wait for a provider, or go on with what is missing
Decide(w) ==
    /\ Passes(w, "decide")
    /\ LET row == gens[claim[w].gen] IN
       Goto(w, IF row.status # "active" /\ (ctx[w].extern \/ ctx[w].allowed # {})
                  /\ "llm" \notin ctx[w].keys
                 THEN "park"
               ELSE IF row.sum = "none" THEN "summary"
               ELSE "review")
    /\ UNCHANGED <<durable, claim, ctx>>

\* finish_claim(pending_provider=True)
Park(w) ==
    /\ Passes(w, "park")
    /\ IF gens[claim[w].gen].status # "building"
         THEN Raise(w, "invalid_phase")
         ELSE /\ job' = [job EXCEPT !.status = "pending_provider", !.err = "no_provider"]
              /\ OnlyJob
              /\ Return(w)

\* the summary call fails and may still be retried
SummaryFails(w) ==
    /\ pc[w] = "summary"
    /\ "sum" \in ctx[w].allowed
    /\ Fail(w, TRUE)

\* what the summary stage may record: only the last attempt may do without
SummaryResults(w) ==
    IF "sum" \notin ctx[w].allowed THEN {"policy_skipped"}
    ELSE {"succeeded", "empty"} \union
         (IF claim[w].att < MaxAttempts THEN {} ELSE {"partial_failure"})

\* persist_summary, idempotent once the stage is complete
PersistSummary(w) ==
    /\ Passes(w, "summary")
    /\ LET g == claim[w].gen IN
       IF gens[g].sum = "none" /\ gens[g].status # "building"
         THEN Raise(w, "invalid_phase")
         ELSE /\ IF gens[g].sum = "none"
                   THEN \E outcome \in SummaryResults(w) :
                          OnlyGen(g, [gens[g] EXCEPT !.sum = outcome])
                   ELSE UNCHANGED durable
              /\ Goto(w, "review")
              /\ UNCHANGED <<claim, ctx>>

\* the third snapshot fixes the partial-failure marker and whether to extract
Review(w) ==
    /\ Passes(w, "review")
    /\ ctx' = [ctx EXCEPT ![w].sum = gens[claim[w].gen].sum,
                       ![w].extern = FALSE]   \* not read again
    /\ Goto(w, IF gens[claim[w].gen].ext = "none" THEN "extraction" ELSE "assess")
    /\ UNCHANGED <<durable, claim>>

\* extraction fails: no retry once the summary was given up
ExtractionFails(w) ==
    /\ pc[w] = "extraction"
    /\ Fail(w, ctx[w].sum # "partial_failure")

\* persist_extraction: facts, tags and the stage completion in one commit
PersistExtraction(w) ==
    /\ Passes(w, "extraction")
    /\ LET g == claim[w].gen IN
       IF gens[g].ext = "none" /\ gens[g].status # "building"
         THEN Raise(w, "invalid_phase")
         ELSE /\ IF gens[g].ext = "none"
                   THEN OnlyGen(g, [gens[g] EXCEPT
                          !.ext = IF "ext" \in ctx[w].allowed
                                    THEN "succeeded" ELSE "policy_skipped"])
                   ELSE UNCHANGED durable
              /\ Goto(w, "assess")
              /\ UNCHANGED <<claim, ctx>>

\* the fourth snapshot: a published generation is not prepared again
Assess(w) ==
    /\ Passes(w, "assess")
    /\ Goto(w, IF gens[claim[w].gen].status = "active" THEN "enrich" ELSE "fts")
    /\ ctx' = [ctx EXCEPT ![w].allowed = {}, ![w].sum = "none"]   \* not read again
    /\ UNCHANGED <<durable, claim>>

\* prepare_fts
PrepareFts(w) ==
    /\ Passes(w, "fts")
    /\ LET g == claim[w].gen IN
       IF gens[g].proj = "none"
         THEN IF gens[g].status = "building" /\ gens[g].sum # "none" /\ gens[g].ext # "none"
                THEN /\ OnlyGen(g, [gens[g] EXCEPT !.proj = "active", !.status = "prepared"])
                     /\ Goto(w, "publish")
                     /\ UNCHANGED <<claim, ctx>>
                ELSE Raise(w, "invalid_phase")
         ELSE IF gens[g].proj = "active"
                THEN Goto(w, "publish") /\ UNCHANGED <<durable, claim, ctx>>
                ELSE Raise(w, "outputs_inconsistent")

\* publish_generation: one commit supersedes the old generation, moves the head
\* and retires legacy derivations for good
Publish(w) ==
    /\ Passes(w, "publish")
    /\ LET g == claim[w].gen IN
       IF Validation(g) # "ok"
         THEN Raise(w, Validation(g))
         ELSE /\ IF gens[g].status = "active"
                   THEN UNCHANGED <<gens, head>>
                   ELSE /\ gens' = [h \in GenIds |->
                              IF h = g THEN [gens[h] EXCEPT !.status = "active"]
                              ELSE IF h = head.active
                                THEN [gens[h] EXCEPT !.status = "superseded"]
                              ELSE gens[h]]
                        /\ head' = [active |-> g, candidate |-> NoGen, retired |-> TRUE]
              /\ Goto(w, "enrich")
              /\ UNCHANGED <<source, job, ngens, baseline, clock, claim, ctx>>

\* enrich_and_finish up to its last write: the embedding may fail without harm
Enrich(w) ==
    /\ Passes(w, "enrich")
    /\ LET g == claim[w].gen IN
       IF ~gens[g].emb /\ gens[g].status # "active"
         THEN Raise(w, "invalid_phase")
         ELSE /\ \E embedded \in BOOLEAN :
                   OnlyGen(g, [gens[g] EXCEPT !.emb = @ \/ embedded])
              /\ Goto(w, "finish")
              /\ UNCHANGED <<claim, ctx>>

\* finish_claim
Finish(w) ==
    /\ Passes(w, "finish")
    /\ LET g == claim[w].gen IN
       IF gens[g].status # "active"
         THEN Raise(w, "invalid_phase")
         ELSE /\ job' = [job EXCEPT !.status = "completed",
                           !.err = IF gens[g].sum = "partial_failure"
                                     THEN "partial" ELSE "none"]
              /\ OnlyJob
              /\ Return(w)

-----------------------------------------------------------------------------
(* The worker: conflicts, failures, crashes *)

\* the reason resolve_conflict settles on, from fresh rows and the raised one
ResolvedReason(w) ==
    LET fresh   == StateReason(claim[w], job.gen)
        raised  == ctx[w].why
        settled == IF fresh # "ok" THEN fresh
                   ELSE IF raised \in Stale \union Cancels \union Blocks
                     THEN "state_inconsistent"
                   ELSE raised
    IN  IF settled # "already_published" THEN settled
        ELSE IF gens[job.gen].status # "active" THEN "state_inconsistent"
        ELSE IF Validation(job.gen) = "ok" THEN "already_published"
        ELSE Validation(job.gen)

Forgotten_Bug(w) == ctx

\* replay = True
Replaying(w) == [ctx EXCEPT ![w].replay = TRUE]

\* resolve_conflict and what dispatch_managed_job does with its disposition
Resolve(w) ==
    /\ pc[w] = "resolve"
    /\ \/ \* stale: another claim owns the job
          /\ ~Owns(claim[w])
          /\ UNCHANGED durable
          /\ Return(w)
       \/ \* published replay, once
          /\ Owns(claim[w])
          /\ ResolvedReason(w) = "already_published"
          /\ Goto(w, IF ctx[w].replay THEN "escaped" ELSE "snapshot")
          /\ ctx' = Replaying(w)
          /\ UNCHANGED <<durable, claim>>
       \/ \* cancelled, blocked or invariant
          /\ Owns(claim[w])
          /\ ResolvedReason(w) # "already_published"
          /\ job' = [job EXCEPT !.status = "failed", !.err = ResolvedReason(w)]
          /\ OnlyJob
          /\ Return(w)

RetryableOnly_Bug(w) ==
    /\ pc[w] = "failing"
    /\ job' = IF Owns(claim[w]) /\ ctx[w].retry THEN FailedJob(TRUE, "error") ELSE job
    /\ OnlyJob
    /\ Return(w)

\* fail_current_claim: only the claim that failed
FailCurrentClaim(w) ==
    /\ pc[w] = "failing"
    /\ job' = IF Owns(claim[w]) THEN FailedJob(ctx[w].retry, "error") ELSE job
    /\ OnlyJob
    /\ Return(w)

\* a database error leaves the dispatcher; extraction catches its own
Escape(w) ==
    /\ pc[w] \in Busy \ {"extraction", "escaped"}
    /\ Goto(w, "escaped")
    /\ ctx' = [ctx EXCEPT ![w] = Unwound(w)]
    /\ UNCHANGED <<durable, claim>>

\* recover_claimed_job_after_dispatch_failure, by the loop's fingerprint
Recover(w) ==
    /\ pc[w] = "escaped"
    /\ job' = IF OwnsAttempt(claim[w]) THEN FailedJob(TRUE, "error") ELSE job
    /\ OnlyJob
    /\ Return(w)

\* the recovery transaction fails too: the loop logs, sleeps and polls again
RecoverFails(w) ==
    /\ pc[w] = "escaped"
    /\ UNCHANGED durable
    /\ Return(w)

\* the process dies or the loop is cancelled: the claim stays behind
Crash(w) ==
    /\ pc[w] # "down"
    /\ Goto(w, "down")
    /\ claim' = [claim EXCEPT ![w] = NoClaim]
    /\ ctx' = [ctx EXCEPT ![w] = Fresh({})]
    /\ UNCHANGED durable

StaleAnyStatus_Bug == job.aged

\* what reset_stale_jobs takes back from a worker that may have died
IsStale == job.status = "claimed" /\ job.aged

\* a process starts with its settings, and reset_stale_jobs runs once
Start(w) ==
    /\ pc[w] = "down"
    /\ \E keys \in Settings : ctx' = [ctx EXCEPT ![w] = Fresh(keys)]
    /\ Goto(w, "idle")
    /\ job' = IF IsStale
                THEN [job EXCEPT !.status = "pending", !.att = @ - 1]
                ELSE job
    /\ OnlyJob
    /\ UNCHANGED claim

-----------------------------------------------------------------------------
(* Everyone else *)

\* _STALE_THRESHOLD_MINUTES pass since the claim
Age ==
    /\ job.status = "claimed" /\ ~job.aged
    /\ job' = [job EXCEPT !.aged = TRUE]
    /\ OnlyJob /\ UNCHANGED local

StillOpen_Bug(row) ==
    [row EXCEPT !.status = IF job.status = "failed" THEN "failed" ELSE @]

\* the candidate of a failed job has failed, any other one is abandoned
GivenUp(row) ==
    [row EXCEPT !.status = IF job.status = "failed" THEN "failed" ELSE "abandoned"]

AnyBinding_Bug(expected) == TRUE

\* the binding the caller saw (NoGen is "legacy") is still the job's
BindingIs(expected) == job.gen = expected

\* the preconditions a request may name and pass: none, or the job's binding
Preconditions == SUBSET {e \in 0..MaxGens : BindingIs(e)}

\* reprocess_job -> admit_generation(manual=True): the open candidate is given
\* up as failed or abandoned and a new generation takes the head's candidate
\* place; a caller that names the binding it saw is refused when it has moved
ReprocessFailed ==
    /\ job.status \in {"failed", "retryable_failed", "pending_provider"}
    /\ Live
    /\ ngens < MaxGens
    /\ ngens' = ngens + 1
    /\ \E expected \in Preconditions :
         gens' = [g \in GenIds |->
                    IF g = ngens + 1 THEN NewGeneration(head.active, expected)
                    ELSE IF g = head.candidate THEN GivenUp(gens[g])
                    ELSE gens[g]]
    /\ head' = [head EXCEPT !.candidate = ngens + 1]
    /\ job' = Requeued(ngens + 1)
    /\ UNCHANGED <<source, baseline, clock, local>>

\* reprocess_job -> admit_completed_generation; a request may come late, or again
ReprocessCompleted(expected) ==
    /\ BindingIs(expected)
    /\ job.status = "completed"
    /\ Live
    /\ IF job.gen = NoGen
         THEN ngens = 0 /\ head = [active |-> NoGen, candidate |-> NoGen, retired |-> FALSE]
         ELSE /\ gens[job.gen].status = "active"
              /\ head.active = job.gen
              /\ head.candidate = NoGen
              /\ \A g \in GenIds : gens[g].status \notin Open
              /\ Validation(job.gen) = "ok"
    /\ ngens < MaxGens
    /\ ngens' = ngens + 1
    /\ gens' = [gens EXCEPT ![ngens + 1] = NewGeneration(job.gen, {expected})]
    /\ head' = [head EXCEPT !.candidate = ngens + 1]
    /\ job' = Requeued(ngens + 1)
    /\ UNCHANGED <<source, baseline, clock, local>>

\* reactivate_pending_provider_jobs, after a key was validated
Reactivate ==
    /\ job.status = "pending_provider"
    /\ job' = [job EXCEPT !.status = "pending", !.err = "none"]
    /\ OnlyJob /\ UNCHANGED local

WithdrawnAll_Bug(row) ==
    [row EXCEPT !.status = IF @ = "absent" THEN @ ELSE "abandoned",
                !.proj   = IF @ = "none" THEN @ ELSE "source_removed"]

\* suppress_generations on one row: open and published work is withdrawn
Withdrawn(row) ==
    [row EXCEPT !.status = IF @ \in Resumable THEN "abandoned" ELSE @,
                !.proj   = IF @ = "none" THEN @ ELSE "source_removed"]

CandidateCleared_Bug == [head EXCEPT !.candidate = NoGen]

\* suppress_generations on the head: retirement is left alone
ClearedHead == [head EXCEPT !.active = NoGen, !.candidate = NoGen]

\* cascade_delete_archive_item: suppression, erasure, tombstone, one commit
Delete ==
    /\ ~source.deleted
    /\ source' = [source EXCEPT !.deleted = TRUE]
    /\ gens' = [g \in GenIds |-> Withdrawn(gens[g])]
    /\ head' = ClearedHead
    /\ baseline' = IF baseline = "none" THEN "none" ELSE "source_removed"
    /\ UNCHANGED <<job, ngens, clock, local>>

\* another archive row with the same content is deleted: its tombstone covers
\* this source by content hash
DeleteTwin ==
    /\ ~source.twin
    /\ source' = [source EXCEPT !.twin = TRUE]
    /\ UNCHANGED <<job, head, gens, ngens, baseline, clock, local>>

-----------------------------------------------------------------------------

\* an ingested source awaits its first dispatch, or was completed before the
\* managed switch was turned on
Init ==
    /\ source = [deleted |-> FALSE, twin |-> FALSE]
    /\ job \in {[status |-> "pending", att |-> 0, at |-> 0, gen |-> NoGen,
                 aged |-> FALSE, err |-> "none"],
                [status |-> "completed", att |-> 1, at |-> 0, gen |-> NoGen,
                 aged |-> FALSE, err |-> "none"]}
    /\ head = [active |-> NoGen, candidate |-> NoGen, retired |-> FALSE]
    /\ gens = [g \in GenIds |-> Absent]
    /\ ngens = 0
    /\ baseline \in {"none", "active"}
    /\ clock = 0
    /\ pc = [w \in Workers |-> "down"]
    /\ claim = [w \in Workers |-> NoClaim]
    /\ ctx = [w \in Workers |-> Fresh({})]

Dispatch(w) ==
    \/ Admit(w) \/ ModelNotReady(w)
    \/ FenceFails(w)
    \/ Snapshot(w) \/ GateFails(w) \/ Classify(w) \/ RawBaseline(w)
    \/ Decide(w) \/ Park(w)
    \/ SummaryFails(w) \/ PersistSummary(w)
    \/ Review(w) \/ ExtractionFails(w) \/ PersistExtraction(w)
    \/ Assess(w) \/ PrepareFts(w) \/ Publish(w)
    \/ Enrich(w) \/ Finish(w)
    \/ Resolve(w) \/ FailCurrentClaim(w)
    \/ Escape(w) \/ Recover(w) \/ RecoverFails(w)

Environment ==
    \/ Age \/ Reactivate \/ ReprocessFailed \/ Delete \/ DeleteTwin
    \/ \E e \in 0..MaxGens : ReprocessCompleted(e)

Next ==
    \/ \E w \in Workers : ClaimNext(w) \/ Dispatch(w) \/ Crash(w) \/ Start(w)
    \/ Environment

Spec == Init /\ [][Next]_vars

\* a running process keeps executing its dispatch: asyncio resumes the task and
\* every provider call and transaction ends, with a result or an exception
FairSpec == Spec /\ \A w \in Workers : WF_vars(Dispatch(w))
=============================================================================
