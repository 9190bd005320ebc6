-------------------------- MODULE DerivationProofs --------------------------
(***************************************************************************)
(* Proofs about Derivation, for every set of workers and every bound:      *)
(* types, coherence of the published state, what a step may never do,      *)
(* claims, and the refinement of PublishedMemory.                          *)
(***************************************************************************)
EXTENDS DerivationProperties, TLAPS

USE DEF NoGen

-----------------------------------------------------------------------------
(* Types *)

\* A dispatch starts with an empty memory of its process settings.
LEMMA FreshTyped ==
    ASSUME NEW keys \in Configs
    PROVE  Fresh(keys) \in Memories
BY DEF Fresh, Memories, Reasons, SummaryOutcome

\* What a worker still knows after an exception or a conflict is a memory.
LEMMA UnwoundTyped ==
    ASSUME TypeOK, NEW w \in Workers, NEW reason \in Reasons, NEW r \in BOOLEAN
    PROVE  /\ Unwound(w) \in Memories
           /\ [Unwound(w) EXCEPT !.why = reason] \in Memories
           /\ [Unwound(w) EXCEPT !.retry = r] \in Memories
<1>1. ctx[w] \in Memories
    BY DEF TypeOK
<1>2. Fresh(ctx[w].keys) \in Memories
    BY <1>1, FreshTyped DEF Memories
<1> QED
    BY <1>1, <1>2 DEF Unwound, Memories

\* An idle worker holds the blank claim.
LEMMA NoClaimTyped == NoClaim \in Claims
BY ConstantsAssumption DEF NoClaim, Claims

\* The states the code starts from have their types: a source just ingested, or
\* one the legacy pipeline completed.
LEMMA InitTyped == Init => TypeOK
<1> SUFFICES ASSUME Init PROVE TypeOK
    OBVIOUS
<1>1. {} \in Configs
    BY DEF Configs
<1>2. ctx \in [Workers -> Memories]
    BY <1>1, FreshTyped DEF Init
<1>3. gens \in [GenIds -> Generation]
  <2>1. Absent \in Generation
      BY ConstantsAssumption DEF Absent, Generation, GenStatus, ProjectionStatus
  <2> QED BY <2>1 DEF Init
<1>4. claim \in [Workers -> Claims]
    BY NoClaimTyped DEF Init
<1>5. pc \in [Workers -> PCs]
    BY DEF Init, PCs
<1>6. job \in JobRow
  <2>1. 0 \in 0..MaxAttempts /\ 1 \in 0..MaxAttempts /\ 0 \in 0..MaxClaims /\ 0 \in 0..MaxGens
      BY ConstantsAssumption
  <2>2. {"pending", "completed"} \subseteq JobStatus /\ "none" \in Errors
      BY DEF JobStatus, Errors
  <2>3. PICK status \in {"pending", "completed"}, att \in {0, 1} :
            job = [status |-> status, att |-> att, at |-> 0, gen |-> NoGen,
                   aged |-> FALSE, err |-> "none"]
      BY DEF Init
  <2> QED BY <2>1, <2>2, <2>3 DEF JobRow
<1>7. source \in SourceRow /\ head \in HeadRow /\ ngens \in 0..MaxGens
      /\ baseline \in ProjectionStatus /\ clock \in 0..MaxClaims
    BY ConstantsAssumption DEF Init, SourceRow, HeadRow, ProjectionStatus
<1> QED
    BY <1>2, <1>3, <1>4, <1>5, <1>6, <1>7 DEF TypeOK

\* A step that leaves the durable rows alone keeps the types once the local
\* state of its worker has them.
LEMMA LocalStep ==
    ASSUME TypeOK, UNCHANGED durable, pc' \in [Workers -> PCs],
           claim' \in [Workers -> Claims], ctx' \in [Workers -> Memories]
    PROVE  TypeOK'
BY DEF TypeOK, durable

\* Control moves between the labels of the dispatch.
LEMMA GotoTyped ==
    ASSUME TypeOK, NEW w \in Workers, NEW label \in PCs, Goto(w, label)
    PROVE  pc' \in [Workers -> PCs]
BY DEF TypeOK, Goto

\* Returning to the loop leaves a blank claim and a fresh memory.
LEMMA ReturnTyped ==
    ASSUME TypeOK, NEW w \in Workers, Return(w)
    PROVE  /\ pc' \in [Workers -> PCs]
           /\ claim' \in [Workers -> Claims]
           /\ ctx' \in [Workers -> Memories]
<1>1. ctx[w].keys \in Configs
    BY DEF TypeOK, Memories
<1>2. Fresh(ctx[w].keys) \in Memories
    BY <1>1, FreshTyped
<1>3. "idle" \in PCs
    BY DEF PCs
<1> QED
    BY <1>2, <1>3, NoClaimTyped DEF Return, Goto, TypeOK

\* A conflict rolls back every row and remembers only its reason.
LEMMA RaiseTyped ==
    ASSUME TypeOK, NEW w \in Workers, NEW reason \in Reasons, Raise(w, reason)
    PROVE  TypeOK'
<1>1. [Unwound(w) EXCEPT !.why = reason] \in Memories
    BY UnwoundTyped
<1>2. "resolve" \in PCs
    BY DEF PCs, Busy, Exits
<1> QED
    BY <1>1, <1>2, LocalStep DEF Raise, Goto, TypeOK

\* A failure touches no row and remembers only whether to retry.
LEMMA FailTyped ==
    ASSUME TypeOK, NEW w \in Workers, NEW r \in BOOLEAN, Fail(w, r)
    PROVE  TypeOK'
<1>1. [Unwound(w) EXCEPT !.retry = r] \in Memories
  <2>1. "claim_lost" \in Reasons
      BY DEF Reasons
  <2> QED BY <2>1, UnwoundTyped
<1>2. "failing" \in PCs
    BY DEF PCs, Busy, Exits
<1> QED
    BY <1>1, <1>2, LocalStep DEF Fail, Goto, TypeOK

\* What the fences answer is a reason, or "ok".
LEMMA ReasonsTyped ==
    /\ \A c, g : StateReason(c, g) \in Reasons \union {"ok"}
    /\ \A w : Context(w) \in Reasons \union {"ok"}
    /\ \A g : Validation(g) \in Reasons \union {"ok"}
    /\ \A c : AdmissionReason(c) \in Reasons \union {"ok"}
BY DEF StateReason, Context, Validation, AdmissionReason, Reasons

\* resolve_conflict always settles on one of the reasons.
LEMMA ResolvedTyped ==
    ASSUME TypeOK, NEW w \in Workers
    PROVE  ResolvedReason(w) \in Reasons \union {"ok"}
<1>1. ctx[w].why \in Reasons
    BY DEF TypeOK, Memories
<1> QED
    BY <1>1, ReasonsTyped DEF ResolvedReason, Reasons

\* A job row keeps its type when its status and error are replaced.
LEMMA FailedJobTyped ==
    ASSUME TypeOK, NEW r \in BOOLEAN, NEW err \in Errors
    PROVE  FailedJob(r, err) \in JobRow
BY DEF TypeOK, FailedJob, JobRow, JobStatus

\* Manual reprocessing leaves a job row of the table.
LEMMA RequeuedTyped ==
    ASSUME TypeOK, NEW g \in 0..MaxGens
    PROVE  Requeued(g) \in JobRow
<1>1. 0 \in 0..MaxAttempts
    BY ConstantsAssumption
<1>2. "pending" \in JobStatus /\ "none" \in Errors
    BY DEF JobStatus, Errors
<1> QED
    BY <1>1, <1>2 DEF TypeOK, Requeued, JobRow

\* _new_generation inserts a building row of the table.
LEMMA NewGenerationTyped ==
    ASSUME NEW pred \in 0..MaxGens, NEW cas \in SUBSET (0..MaxGens)
    PROVE  NewGeneration(pred, cas) \in Generation
BY DEF NewGeneration, Absent, Generation, GenStatus, Resumable, Open, ProjectionStatus

\* A request that names a binding and passes its fence names the job's own
\* (CompletedReprocessMismatch otherwise), whatever row it then starts from.
LEMMA PreconditionsMet ==
    ASSUME NEW expected \in Preconditions
    PROVE  expected = {} \/ expected = {job.gen}
BY DEF Preconditions, BindingIs

\* A step that replaces only the job row.
LEMMA JobStep ==
    ASSUME TypeOK, job' \in JobRow, OnlyJob, pc' \in [Workers -> PCs],
           claim' \in [Workers -> Claims], ctx' \in [Workers -> Memories]
    PROVE  TypeOK'
BY DEF TypeOK, OnlyJob

\* A step that replaces only one generation row.
LEMMA GenStep ==
    ASSUME TypeOK, NEW g, NEW row \in Generation, OnlyGen(g, row),
           pc' \in [Workers -> PCs],
           claim' \in [Workers -> Claims], ctx' \in [Workers -> Memories]
    PROVE  TypeOK'
BY DEF TypeOK, OnlyGen

\* One step of a dispatch keeps the types.
LEMMA DispatchTyped ==
    ASSUME TypeOK, NEW w \in Workers, Dispatch(w)
    PROVE  TypeOK'
<1> DEFINE g == claim[w].gen
<1>0. /\ pc \in [Workers -> PCs] /\ claim \in [Workers -> Claims]
      /\ ctx \in [Workers -> Memories] /\ gens \in [GenIds -> Generation]
      /\ job \in JobRow /\ head \in HeadRow /\ ngens \in 0..MaxGens
      /\ claim[w] \in Claims /\ ctx[w] \in Memories
    BY DEF TypeOK
<1>p. /\ Fenced \subseteq PCs /\ Exits \subseteq PCs /\ "idle" \in PCs
      /\ {"snapshot", "gate", "baseline", "decide", "park", "summary", "review",
          "extraction", "assess", "fts", "publish", "enrich", "finish",
          "escaped", "resolve"} \subseteq PCs
    BY DEF PCs, Busy, Fenced, Exits
<1>r. {"already_published", "invalid_phase", "outputs_inconsistent"} \subseteq Reasons
    BY DEF Reasons
<1>1. CASE Admit(w)
  <2>1. CASE AdmissionReason(claim[w]) # "ok" /\ Raise(w, AdmissionReason(claim[w]))
    <3>1. AdmissionReason(claim[w]) \in Reasons
        BY <2>1, ReasonsTyped
    <3> QED BY <3>1, <2>1, RaiseTyped
  <2>2. CASE /\ claim' = [claim EXCEPT ![w].gen = job.gen]
             /\ Goto(w, "snapshot") /\ UNCHANGED <<durable, ctx>>
    <3>1. pc' \in [Workers -> PCs]
        BY <2>2, <1>p, GotoTyped
    <3>2. claim' \in [Workers -> Claims]
        BY <2>2, <1>0 DEF Claims, JobRow
    <3> QED BY <2>2, <3>1, <3>2, <1>0, LocalStep
  <2>3. CASE /\ ngens < MaxGens /\ ngens' = ngens + 1
             /\ gens' = [gens EXCEPT ![ngens + 1] = NewGeneration(head.active, {})]
             /\ job' = [job EXCEPT !.gen = ngens + 1]
             /\ head' = [head EXCEPT !.candidate = ngens + 1]
             /\ claim' = [claim EXCEPT ![w].gen = ngens + 1]
             /\ Goto(w, "snapshot")
             /\ UNCHANGED <<source, baseline, clock, ctx>>
    <3>0. ngens + 1 \in 0..MaxGens
        BY <2>3, <1>0, ConstantsAssumption
    <3>1. pc' \in [Workers -> PCs]
        BY <2>3, <1>p, GotoTyped
    <3>2. claim' \in [Workers -> Claims]
        BY <2>3, <3>0, <1>0 DEF Claims
    <3>3. job' \in JobRow /\ head' \in HeadRow
        BY <2>3, <3>0, <1>0 DEF JobRow, HeadRow
    <3>4. NewGeneration(head.active, {}) \in Generation
        BY <1>0, NewGenerationTyped DEF HeadRow
    <3>5. gens' \in [GenIds -> Generation]
        BY <2>3, <3>4, <1>0
    <3> QED BY <2>3, <3>0, <3>1, <3>2, <3>3, <3>5 DEF TypeOK
  <2> QED BY <1>1, <2>1, <2>2, <2>3 DEF Admit
<1>2. CASE ModelNotReady(w)
    BY <1>2, FailTyped DEF ModelNotReady
<1>3. CASE FenceFails(w)
  <2>1. Context(w) \in Reasons
      BY <1>3, ReasonsTyped DEF FenceFails
  <2> QED BY <1>3, <2>1, RaiseTyped DEF FenceFails
<1>4. CASE Snapshot(w)
  <2>1. CASE Raise(w, "already_published")
      BY <2>1, <1>r, RaiseTyped
  <2>2. CASE Goto(w, "gate") /\ UNCHANGED <<durable, claim, ctx>>
      BY <2>2, <1>p, <1>0, GotoTyped, LocalStep
  <2> QED BY <1>4, <2>1, <2>2 DEF Snapshot
<1>5. CASE GateFails(w)
    BY <1>5, FailTyped DEF GateFails
<1>6. CASE Classify(w)
  <2>1. PICK extern \in BOOLEAN, onHost \in SUBSET Ops :
          ctx' = [ctx EXCEPT ![w].extern = extern,
                             ![w].allowed = {op \in ctx[w].keys \intersect Ops :
                                               extern \/ op \in onHost}]
      BY <1>6 DEF Classify
  <2>2. {op \in ctx[w].keys \intersect Ops : extern \/ op \in onHost} \in SUBSET Ops
      OBVIOUS
  <2>3. ctx' \in [Workers -> Memories]
      BY <2>1, <2>2, <1>0 DEF Memories
  <2> QED BY <1>6, <2>3, <1>p, <1>0, GotoTyped, LocalStep DEF Classify
<1>7. CASE RawBaseline(w)
  <2>1. CASE Raise(w, "outputs_inconsistent")
      BY <2>1, <1>r, RaiseTyped
  <2>2. CASE /\ baseline' = IF head.active = NoGen /\ ~head.retired
                              THEN "active" ELSE baseline
             /\ Goto(w, "decide")
             /\ UNCHANGED <<source, job, head, gens, ngens, clock, claim, ctx>>
    <3>1. pc' \in [Workers -> PCs]
        BY <2>2, <1>p, GotoTyped
    <3>2. baseline' \in ProjectionStatus
        BY <2>2 DEF TypeOK, ProjectionStatus
    <3> QED BY <2>2, <3>1, <3>2 DEF TypeOK
  <2> QED BY <1>7, <2>1, <2>2 DEF RawBaseline
<1>8. CASE Decide(w)
  <2>1. PICK label \in {"park", "summary", "review"} : Goto(w, label)
      BY <1>8 DEF Decide
  <2>2. pc' \in [Workers -> PCs]
      BY <2>1, <1>p, GotoTyped
  <2> QED BY <1>8, <2>2, <1>0, LocalStep DEF Decide
<1>9. CASE Park(w)
  <2>1. CASE Raise(w, "invalid_phase")
      BY <2>1, <1>r, RaiseTyped
  <2>2. CASE /\ job' = [job EXCEPT !.status = "pending_provider", !.err = "no_provider"]
             /\ OnlyJob /\ Return(w)
    <3>1. job' \in JobRow
        BY <2>2, <1>0 DEF JobRow, JobStatus, Errors
    <3> QED BY <2>2, <3>1, ReturnTyped, JobStep
  <2> QED BY <1>9, <2>1, <2>2 DEF Park
<1>10. CASE SummaryFails(w)
    BY <1>10, FailTyped DEF SummaryFails
<1>11. CASE PersistSummary(w)
  <2>1. CASE Raise(w, "invalid_phase")
      BY <2>1, <1>r, RaiseTyped
  <2>2. CASE /\ \E outcome \in SummaryResults(w) :
                   OnlyGen(g, [gens[g] EXCEPT !.sum = outcome])
             /\ gens[g].sum = "none" /\ Context(w) = "ok"
             /\ Goto(w, "review") /\ UNCHANGED <<claim, ctx>>
    <3>1. PICK outcome \in SummaryResults(w) : OnlyGen(g, [gens[g] EXCEPT !.sum = outcome])
        BY <2>2
    <3>2. outcome \in SummaryOutcome
        BY DEF SummaryResults, SummaryOutcome
    <3>3. g \in GenIds
        BY <2>2, <1>0 DEF Context, StateReason, Claims, GenIds
    <3>4. [gens[g] EXCEPT !.sum = outcome] \in Generation
        BY <3>2, <3>3, <1>0 DEF Generation
    <3>5. pc' \in [Workers -> PCs]
        BY <2>2, <1>p, GotoTyped
    <3> QED BY <2>2, <3>1, <3>4, <3>5, <1>0, GenStep
  <2>3. CASE UNCHANGED durable /\ Goto(w, "review") /\ UNCHANGED <<claim, ctx>>
      BY <2>3, <1>p, <1>0, GotoTyped, LocalStep
  <2> QED BY <1>11, <2>1, <2>2, <2>3 DEF PersistSummary, Passes
<1>12. CASE Review(w)
  <2>1. PICK label \in {"extraction", "assess"} : Goto(w, label)
      BY <1>12 DEF Review
  <2>2. pc' \in [Workers -> PCs]
      BY <2>1, <1>p, GotoTyped
  <2>3. g \in GenIds
      BY <1>12, <1>0 DEF Review, Passes, Context, StateReason, Claims, GenIds
  <2>4. gens[g].sum \in SummaryOutcome \union {"none"}
      BY <2>3, <1>0 DEF Generation
  <2>5. ctx' \in [Workers -> Memories]
      BY <1>12, <2>4, <1>0 DEF Review, Memories
  <2> QED BY <1>12, <2>2, <2>5, <1>0, LocalStep DEF Review
<1>13. CASE ExtractionFails(w)
    BY <1>13, FailTyped DEF ExtractionFails
<1>14. CASE PersistExtraction(w)
  <2> DEFINE outcome == IF "ext" \in ctx[w].allowed THEN "succeeded" ELSE "policy_skipped"
  <2>1. CASE Raise(w, "invalid_phase")
      BY <2>1, <1>r, RaiseTyped
  <2>2. CASE /\ OnlyGen(g, [gens[g] EXCEPT !.ext = outcome]) /\ Context(w) = "ok"
             /\ Goto(w, "assess") /\ UNCHANGED <<claim, ctx>>
    <3>1. g \in GenIds
        BY <2>2, <1>0 DEF Context, StateReason, Claims, GenIds
    <3>2. [gens[g] EXCEPT !.ext = outcome] \in Generation
        BY <3>1, <1>0 DEF Generation, ExtractionOutcome
    <3>3. pc' \in [Workers -> PCs]
        BY <2>2, <1>p, GotoTyped
    <3> QED BY <2>2, <3>2, <3>3, <1>0, GenStep
  <2>3. CASE UNCHANGED durable /\ Goto(w, "assess") /\ UNCHANGED <<claim, ctx>>
      BY <2>3, <1>p, <1>0, GotoTyped, LocalStep
  <2> QED BY <1>14, <2>1, <2>2, <2>3 DEF PersistExtraction, Passes
<1>15. CASE Assess(w)
  <2>1. PICK label \in {"enrich", "fts"} : Goto(w, label)
      BY <1>15 DEF Assess
  <2>2. pc' \in [Workers -> PCs]
      BY <2>1, <1>p, GotoTyped
  <2>3. ctx' \in [Workers -> Memories]
      BY <1>15, <1>0 DEF Assess, Memories
  <2> QED BY <1>15, <2>2, <2>3, <1>0, LocalStep DEF Assess
<1>16. CASE PrepareFts(w)
  <2>1. CASE Raise(w, "invalid_phase") \/ Raise(w, "outputs_inconsistent")
      BY <2>1, <1>r, RaiseTyped
  <2>2. CASE /\ OnlyGen(g, [gens[g] EXCEPT !.proj = "active", !.status = "prepared"])
             /\ Context(w) = "ok"
             /\ Goto(w, "publish") /\ UNCHANGED <<claim, ctx>>
    <3>1. g \in GenIds
        BY <2>2, <1>0 DEF Context, StateReason, Claims, GenIds
    <3>2. [gens[g] EXCEPT !.proj = "active", !.status = "prepared"] \in Generation
      <4>1. "prepared" \in GenStatus /\ "active" \in ProjectionStatus
          BY DEF GenStatus, Resumable, Open, ProjectionStatus
      <4> QED BY <4>1, <3>1, <1>0 DEF Generation
    <3>3. pc' \in [Workers -> PCs]
        BY <2>2, <1>p, GotoTyped
    <3> QED BY <2>2, <3>2, <3>3, <1>0, GenStep
  <2>3. CASE Goto(w, "publish") /\ UNCHANGED <<durable, claim, ctx>>
      BY <2>3, <1>p, <1>0, GotoTyped, LocalStep
  <2> QED BY <1>16, <2>1, <2>2, <2>3 DEF PrepareFts, Passes
<1>17. CASE Publish(w)
  <2>1. CASE Validation(g) # "ok" /\ Raise(w, Validation(g))
    <3>1. Validation(g) \in Reasons
        BY <2>1, ReasonsTyped
    <3> QED BY <2>1, <3>1, RaiseTyped
  <2>2. CASE Validation(g) = "ok"
    <3>1. g \in 0..MaxGens
        BY <1>0 DEF Claims
    <3>2. gens' \in [GenIds -> Generation] /\ head' \in HeadRow
      <4>1. CASE UNCHANGED <<gens, head>>
          BY <4>1, <1>0
      <4>2. CASE /\ gens' = [h \in GenIds |->
                        IF h = g THEN [gens[h] EXCEPT !.status = "active"]
                        ELSE IF h = head.active
                          THEN [gens[h] EXCEPT !.status = "superseded"]
                        ELSE gens[h]]
                 /\ head' = [active |-> g, candidate |-> NoGen, retired |-> TRUE]
        <5>1. \A h \in GenIds : /\ [gens[h] EXCEPT !.status = "active"] \in Generation
                                /\ [gens[h] EXCEPT !.status = "superseded"] \in Generation
            BY <1>0 DEF Generation, GenStatus, Resumable, Retired
        <5>2. head' \in HeadRow
            BY <4>2, <3>1, ConstantsAssumption DEF HeadRow
        <5> QED BY <4>2, <5>1, <5>2, <1>0
      <4> QED BY <1>17, <2>2, <4>1, <4>2 DEF Publish
    <3>3. /\ pc' \in [Workers -> PCs]
          /\ UNCHANGED <<source, job, ngens, baseline, clock, claim, ctx>>
        BY <1>17, <2>2, <1>p, GotoTyped DEF Publish
    <3> QED BY <3>2, <3>3 DEF TypeOK
  <2> QED BY <1>17, <2>1, <2>2 DEF Publish
<1>18. CASE Enrich(w)
  <2>1. CASE Raise(w, "invalid_phase")
      BY <2>1, <1>r, RaiseTyped
  <2>2. CASE /\ \E embedded \in BOOLEAN : OnlyGen(g, [gens[g] EXCEPT !.emb = @ \/ embedded])
             /\ Goto(w, "finish") /\ UNCHANGED <<claim, ctx>>
    <3>1. PICK embedded \in BOOLEAN : OnlyGen(g, [gens[g] EXCEPT !.emb = @ \/ embedded])
        BY <2>2
    <3>2. g \in GenIds
        BY <1>18, <1>0 DEF Enrich, Passes, Context, StateReason, Claims, GenIds
    <3>3. (gens[g].emb \/ embedded) \in BOOLEAN
        OBVIOUS
    <3>4. [gens[g] EXCEPT !.emb = @ \/ embedded] \in Generation
        BY <3>2, <3>3, <1>0 DEF Generation
    <3>5. pc' \in [Workers -> PCs]
        BY <2>2, <1>p, GotoTyped
    <3> QED BY <2>2, <3>1, <3>4, <3>5, <1>0, GenStep
  <2> QED BY <1>18, <2>1, <2>2 DEF Enrich
<1>19. CASE Finish(w)
  <2>1. CASE Raise(w, "invalid_phase")
      BY <2>1, <1>r, RaiseTyped
  <2>2. CASE /\ job' = [job EXCEPT !.status = "completed",
                          !.err = IF gens[g].sum = "partial_failure"
                                    THEN "partial" ELSE "none"]
             /\ OnlyJob /\ Return(w)
    <3>1. job' \in JobRow
        BY <2>2, <1>0 DEF JobRow, JobStatus, Errors
    <3> QED BY <2>2, <3>1, ReturnTyped, JobStep
  <2> QED BY <1>19, <2>1, <2>2 DEF Finish
<1>20. CASE Resolve(w)
  <2>1. CASE UNCHANGED durable /\ Return(w)
      BY <2>1, ReturnTyped, LocalStep
  <2>2. CASE /\ Goto(w, IF ctx[w].replay THEN "escaped" ELSE "snapshot")
             /\ ctx' = Replaying(w) /\ UNCHANGED <<durable, claim>>
    <3>1. PICK label \in {"escaped", "snapshot"} : Goto(w, label)
        BY <2>2
    <3>2. pc' \in [Workers -> PCs]
        BY <3>1, <1>p, GotoTyped
    <3>3. ctx' \in [Workers -> Memories]
        BY <2>2, <1>0 DEF Replaying, Memories
    <3> QED BY <2>2, <3>2, <3>3, <1>0, LocalStep
  <2>3. CASE /\ ResolvedReason(w) # "already_published"
             /\ job' = [job EXCEPT !.status = "failed", !.err = ResolvedReason(w)]
             /\ Owns(claim[w]) /\ OnlyJob /\ Return(w)
    <3>1. ResolvedReason(w) \in Errors
      <4>1. ctx[w].why # "ok"
          BY <1>0 DEF Memories, Reasons
      <4> QED BY <4>1, ReasonsTyped, <1>0, <2>3
              DEF ResolvedReason, Errors, Memories, Reasons
    <3>2. job' \in JobRow
        BY <2>3, <3>1, <1>0 DEF JobRow, JobStatus
    <3> QED BY <2>3, <3>2, ReturnTyped, JobStep
  <2> QED BY <1>20, <2>1, <2>2, <2>3 DEF Resolve
<1>21. CASE FailCurrentClaim(w)
  <2>1. ctx[w].retry \in BOOLEAN /\ "error" \in Errors
      BY <1>0 DEF Memories, Errors
  <2>2. job' \in JobRow
      BY <1>21, <2>1, <1>0, FailedJobTyped DEF FailCurrentClaim
  <2> QED BY <1>21, <2>2, ReturnTyped, JobStep DEF FailCurrentClaim
<1>22. CASE Escape(w)
  <2>1. Unwound(w) \in Memories
    <3>1. "claim_lost" \in Reasons
        BY DEF Reasons
    <3> QED BY <3>1, UnwoundTyped
  <2>2. ctx' \in [Workers -> Memories]
      BY <1>22, <2>1, <1>0 DEF Escape
  <2> QED BY <1>22, <2>2, <1>p, <1>0, GotoTyped, LocalStep DEF Escape
<1>23. CASE Recover(w)
  <2>1. "error" \in Errors
      BY DEF Errors
  <2>2. job' \in JobRow
      BY <1>23, <2>1, <1>0, FailedJobTyped DEF Recover
  <2> QED BY <1>23, <2>2, ReturnTyped, JobStep DEF Recover
<1>24. CASE RecoverFails(w)
    BY <1>24, ReturnTyped, LocalStep DEF RecoverFails
<1> QED
    BY <1>1, <1>2, <1>3, <1>4, <1>5, <1>6, <1>7, <1>8, <1>9, <1>10, <1>11, <1>12,
       <1>13, <1>14, <1>15, <1>16, <1>17, <1>18, <1>19, <1>20, <1>21, <1>22, <1>23,
       <1>24 DEF Dispatch

\* Claiming, dying and starting keep the types.
LEMMA LoopTyped ==
    ASSUME TypeOK, Counted, NEW w \in Workers, ClaimNext(w) \/ Crash(w) \/ Start(w)
    PROVE  TypeOK'
<1>0. /\ pc \in [Workers -> PCs] /\ claim \in [Workers -> Claims]
      /\ ctx \in [Workers -> Memories] /\ job \in JobRow
      /\ clock \in 0..MaxClaims
    BY DEF TypeOK
<1>p. {"admit", "down", "idle"} \subseteq PCs
    BY DEF PCs, Busy, Admission
<1>1. CASE ClaimNext(w)
  <2>1. clock + 1 \in 0..MaxClaims /\ job.att + 1 \in 0..MaxAttempts
      BY <1>1, <1>0, ConstantsAssumption DEF ClaimNext, Eligible, JobRow
  <2>2. "claimed" \in JobStatus
      BY DEF JobStatus
  <2>3. job' \in JobRow
      BY <1>1, <2>1, <2>2, <1>0 DEF ClaimNext, JobRow
  <2>4. claim' \in [Workers -> Claims]
      BY <1>1, <2>1, <1>0 DEF ClaimNext, Claims, JobRow
  <2>5. pc' \in [Workers -> PCs]
      BY <1>1, <1>p, GotoTyped DEF ClaimNext
  <2> QED BY <1>1, <2>1, <2>3, <2>4, <2>5 DEF ClaimNext, TypeOK
<1>2. CASE Crash(w)
  <2>1. Fresh({}) \in Memories
      BY FreshTyped DEF Configs
  <2>2. ctx' \in [Workers -> Memories] /\ claim' \in [Workers -> Claims]
      BY <1>2, <2>1, <1>0, NoClaimTyped DEF Crash
  <2> QED BY <1>2, <2>2, <1>p, GotoTyped, LocalStep DEF Crash
<1>3. CASE Start(w)
  <2>1. PICK keys \in Settings : ctx' = [ctx EXCEPT ![w] = Fresh(keys)]
      BY <1>3 DEF Start, IsStale
  <2>2. ctx' \in [Workers -> Memories]
      BY <2>1, <1>0, FreshTyped, ConstantsAssumption
  <2>3. job' \in JobRow
    <3>1. CASE UNCHANGED job
        BY <3>1, <1>0
    <3>2. CASE job' = [job EXCEPT !.status = "pending", !.att = @ - 1]
               /\ job.status = "claimed"
      <4>1. job.att - 1 \in 0..MaxAttempts /\ "pending" \in JobStatus
          BY <3>2, <1>0, ConstantsAssumption DEF JobRow, JobStatus, Counted
      <4> QED BY <3>2, <4>1, <1>0 DEF JobRow
    <3> QED BY <1>3, <3>1, <3>2 DEF Start, IsStale
  <2> QED BY <1>3, <2>2, <2>3, <1>p, <1>0, GotoTyped, JobStep DEF Start, IsStale
<1> QED
    BY <1>1, <1>2, <1>3

\* Requests, settings and deletions keep the types.
LEMMA EnvironmentTyped ==
    ASSUME TypeOK, Environment
    PROVE  TypeOK'
<1>0. /\ source \in SourceRow /\ job \in JobRow /\ head \in HeadRow
      /\ gens \in [GenIds -> Generation] /\ ngens \in 0..MaxGens
      /\ baseline \in ProjectionStatus
    BY DEF TypeOK
<1>1. CASE Age
  <2>1. job' \in JobRow
      BY <1>1, <1>0 DEF Age, JobRow
  <2> QED BY <1>1, <2>1 DEF Age, OnlyJob, local, TypeOK
<1>2. CASE Reactivate
  <2>1. "pending" \in JobStatus /\ "none" \in Errors
      BY DEF JobStatus, Errors
  <2>2. job' \in JobRow
      BY <1>2, <2>1, <1>0 DEF Reactivate, JobRow
  <2> QED BY <1>2, <2>2 DEF Reactivate, OnlyJob, local, TypeOK
<1>3. CASE ReprocessFailed
  <2>1. ngens + 1 \in 0..MaxGens
      BY <1>3, <1>0, ConstantsAssumption DEF ReprocessFailed
  <2>0. PICK expected \in Preconditions :
         gens' = [g \in GenIds |->
                    IF g = ngens + 1 THEN NewGeneration(head.active, expected)
                    ELSE IF g = head.candidate THEN GivenUp(gens[g])
                    ELSE gens[g]]
      BY <1>3 DEF ReprocessFailed
  <2>2. NewGeneration(head.active, expected) \in Generation
    <3>1. expected \in SUBSET (0..MaxGens)
        BY DEF Preconditions
    <3> QED BY <3>1, <1>0, NewGenerationTyped DEF HeadRow
  <2>3. \A g \in GenIds : GivenUp(gens[g]) \in Generation
    <3>1. {"failed", "abandoned"} \subseteq GenStatus
        BY DEF GenStatus, Retired
    <3> QED BY <3>1, <1>0 DEF GivenUp, Generation
  <2>4. gens' \in [GenIds -> Generation]
      BY <2>0, <2>2, <2>3, <1>0
  <2>5. job' \in JobRow
      BY <1>3, <2>1, RequeuedTyped DEF ReprocessFailed
  <2>6. head' \in HeadRow
      BY <1>3, <2>1, <1>0 DEF ReprocessFailed, HeadRow
  <2> QED BY <1>3, <2>1, <2>4, <2>5, <2>6 DEF ReprocessFailed, local, TypeOK
<1>4. CASE \E e \in 0..MaxGens : ReprocessCompleted(e)
  <2>1. PICK e \in 0..MaxGens : ReprocessCompleted(e)
      BY <1>4
  <2>2. ngens + 1 \in 0..MaxGens
      BY <2>1, <1>0, ConstantsAssumption DEF ReprocessCompleted
  <2>3. NewGeneration(job.gen, {e}) \in Generation
      BY <1>0, NewGenerationTyped DEF JobRow
  <2>4. gens' \in [GenIds -> Generation]
      BY <2>1, <2>3, <1>0 DEF ReprocessCompleted
  <2>5. job' \in JobRow
      BY <2>1, <2>2, RequeuedTyped DEF ReprocessCompleted
  <2>6. head' \in HeadRow
      BY <2>1, <2>2, <1>0 DEF ReprocessCompleted, HeadRow
  <2> QED BY <2>1, <2>2, <2>4, <2>5, <2>6 DEF ReprocessCompleted, local, TypeOK
<1>5. CASE Delete
  <2>1. \A g \in GenIds : Withdrawn(gens[g]) \in Generation
    <3>1. "abandoned" \in GenStatus /\ {"none", "source_removed"} \subseteq ProjectionStatus
        BY DEF GenStatus, Retired, ProjectionStatus
    <3> QED BY <3>1, <1>0 DEF Withdrawn, Generation
  <2>2. gens' \in [GenIds -> Generation]
      BY <1>5, <2>1 DEF Delete
  <2>3. head' \in HeadRow /\ source' \in SourceRow
    <3>1. 0 \in 0..MaxGens
        BY ConstantsAssumption
    <3>2. head' \in HeadRow
        BY <1>5, <3>1, <1>0 DEF Delete, ClearedHead, HeadRow
    <3>3. source' \in SourceRow
        BY <1>5, <1>0 DEF Delete, SourceRow
    <3> QED BY <3>2, <3>3
  <2>4. baseline' \in ProjectionStatus
      BY <1>5 DEF Delete, ProjectionStatus
  <2> QED BY <1>5, <2>2, <2>3, <2>4 DEF Delete, local, TypeOK
<1>6. CASE DeleteTwin
  <2>1. source' \in SourceRow
      BY <1>6, <1>0 DEF DeleteTwin, SourceRow
  <2> QED BY <1>6, <2>1 DEF DeleteTwin, local, TypeOK
<1> QED
    BY <1>1, <1>2, <1>3, <1>4, <1>5, <1>6 DEF Environment

\* A claimed job has an attempt to give back: the stale reset cannot underflow.
LEMMA CountedStep ==
    ASSUME TypeOK, Counted, [Next]_vars
    PROVE  Counted'
<1>0. job \in JobRow
    BY DEF TypeOK
<1>1. CASE UNCHANGED job
    BY <1>1 DEF Counted
<1>2. CASE job'.status # "claimed"
    BY <1>2 DEF Counted
<1>3. CASE job'.status = job.status /\ job'.att = job.att
    BY <1>3 DEF Counted
<1>4. ASSUME NEW w \in Workers, ClaimNext(w)
      PROVE  job'.att > 0
    BY <1>4, <1>0 DEF ClaimNext, JobRow
<1>5. ASSUME NEW w \in Workers, Dispatch(w)
      PROVE  \/ UNCHANGED job \/ job'.status # "claimed"
             \/ job'.status = job.status /\ job'.att = job.att
  <2>1. CASE Admit(w)
      BY <2>1, <1>0 DEF Admit, Raise, durable, JobRow
  <2>2. CASE Park(w) \/ Finish(w) \/ Resolve(w) \/ FailCurrentClaim(w) \/ Recover(w)
    <3>1. \A r, e : FailedJob(r, e).status # "claimed"
        BY <1>0 DEF FailedJob, JobRow
    <3>2. CASE FailCurrentClaim(w) \/ Recover(w)
        BY <3>1, <3>2 DEF FailCurrentClaim, Recover
    <3>3. CASE Park(w) \/ Finish(w) \/ Resolve(w)
        BY <3>3, <1>0 DEF Park, Finish, Resolve, Raise, durable, JobRow
    <3> QED BY <2>2, <3>2, <3>3
  <2>3. CASE ModelNotReady(w) \/ FenceFails(w) \/ Snapshot(w) \/ GateFails(w)
             \/ Classify(w) \/ RawBaseline(w) \/ Decide(w) \/ SummaryFails(w)
             \/ Review(w) \/ ExtractionFails(w) \/ Assess(w) \/ Escape(w) \/ RecoverFails(w)
      BY <2>3 DEF ModelNotReady, FenceFails, Snapshot, GateFails, Classify, RawBaseline,
                  Decide, SummaryFails, Review, ExtractionFails, Assess, Escape,
                  RecoverFails, Raise, Fail, durable
  <2>4. CASE PersistSummary(w) \/ PersistExtraction(w) \/ PrepareFts(w)
             \/ Publish(w) \/ Enrich(w)
      BY <2>4 DEF PersistSummary, PersistExtraction, PrepareFts, Publish, Enrich,
                  Raise, OnlyGen, durable
  <2> QED BY <1>5, <2>1, <2>2, <2>3, <2>4 DEF Dispatch
<1>6. ASSUME NEW w \in Workers, Crash(w) \/ Start(w)
      PROVE  UNCHANGED job \/ job'.status # "claimed"
  <2>1. CASE Crash(w)
      BY <2>1 DEF Crash, durable
  <2>2. CASE Start(w)
      BY <2>2, <1>0 DEF Start, IsStale, JobRow
  <2> QED BY <1>6, <2>1, <2>2
<1>7. ASSUME Environment
      PROVE  \/ UNCHANGED job \/ job'.status # "claimed"
             \/ job'.status = job.status /\ job'.att = job.att
    BY <1>7, <1>0 DEF Environment, Age, Reactivate, ReprocessFailed, ReprocessCompleted,
                      Delete, DeleteTwin, Requeued, JobRow
<1>8. CASE UNCHANGED vars
    BY <1>8 DEF vars, Counted
<1> QED
    BY <1>1, <1>2, <1>3, <1>4, <1>5, <1>6, <1>7, <1>8 DEF Next, Counted

\* One step of any actor keeps the types.
LEMMA TypedStep ==
    ASSUME TypeOK, Counted, [Next]_vars
    PROVE  TypeOK'
<1>1. CASE UNCHANGED vars
    BY <1>1 DEF vars, TypeOK
<1> QED
    BY <1>1, DispatchTyped, LoopTyped, EnvironmentTyped DEF Next

\* The rows and the workers' memories always have their declared types; in
\* particular the stale reset of jobs/service.py never takes attempts below 0.
THEOREM TypeCorrect == Spec => []TypeOK
<1>1. Init => TypeOK /\ Counted
  <2>1. Init => job.status # "claimed"
      BY DEF Init
  <2> QED BY <2>1, InitTyped DEF Counted
<1>2. TypeOK /\ Counted /\ [Next]_vars => (TypeOK /\ Counted)'
    BY TypedStep, CountedStep
<1> QED
    BY <1>1, <1>2, PTL DEF Spec

-----------------------------------------------------------------------------
(***************************************************************************)
(* The published state is coherent (IndInv of DerivationProperties): every *)
(* step of every actor keeps head, generations and job in agreement.       *)
(***************************************************************************)

\* What a transaction knows once its fence has passed.
LEMMA ContextOk ==
    ASSUME TypeOK, NEW w \in Workers, Context(w) = "ok"
    PROVE  /\ claim[w].gen \in GenIds
           /\ OwnsAttempt(claim[w]) /\ job.status = "claimed"
           /\ job.gen = claim[w].gen
           /\ ~source.deleted /\ Live
           /\ gens[claim[w].gen].status \in Resumable
           /\ Attached(claim[w].gen)
<1> DEFINE g == claim[w].gen
<1>1. /\ Owns(claim[w]) /\ Live /\ g # NoGen
      /\ gens[g].status \notin Retired /\ gens[g].status # "absent" /\ Attached(g)
    BY DEF Context, StateReason
<1>2. g \in GenIds
    BY <1>1, ConstantsAssumption DEF TypeOK, Claims, GenIds
<1>3. gens[g].status \in GenStatus
    BY <1>2 DEF TypeOK, Generation
<1>4. gens[g].status \in Resumable
    BY <1>1, <1>3 DEF GenStatus
<1> QED
    BY <1>1, <1>2, <1>4 DEF Owns, OwnsAttempt, Live

\* Steps that leave everything readers or the head depend on alone.
LEMMA QuietStep ==
    ASSUME Coherent, UNCHANGED <<source, head, gens, ngens, baseline>>,
           job'.gen = job.gen, job'.status = "completed" => UNCHANGED job
    PROVE  Coherent'
<1>1. Numbered' /\ Succession' /\ HeadsAgree' /\ PublishedComplete'
    BY DEF Coherent, Numbered, Succession, HeadsAgree, PublishedComplete
<1>2. BoundToNewest' /\ RemovedStaysWithdrawn'
    BY DEF Coherent, BoundToNewest, RemovedStaysWithdrawn
<1>3. CompletedIsPublished'
    BY DEF Coherent, CompletedIsPublished
<1> QED
    BY <1>1, <1>2, <1>3 DEF Coherent

\* Steps that fill in one resumable generation of a live source.
LEMMA FillStep ==
    ASSUME TypeOK, Coherent, NEW g \in GenIds, NEW row \in Generation,
           OnlyGen(g, row), ~source.deleted, job.status = "claimed",
           gens[g].status \in Resumable, row.pred = gens[g].pred,
           \/ row.status = gens[g].status
           \/ gens[g].status = "building" /\ row.status = "prepared",
           row.status \in {"prepared", "active"} =>
             row.sum # "none" /\ row.ext # "none" /\ row.proj # "none",
           row.emb => row.proj # "none"
    PROVE  Coherent'
<1>0. /\ gens \in [GenIds -> Generation] /\ ngens \in 0..MaxGens
      /\ gens' = [gens EXCEPT ![g] = row]
      /\ UNCHANGED <<source, job, head, ngens, baseline>>
    BY DEF TypeOK, OnlyGen
<1>1. row.status \in Resumable /\ row.status # "absent" /\ gens[g].status # "absent"
    BY DEF Resumable, Open
<1>2. Numbered'
    BY <1>0, <1>1 DEF Coherent, Numbered
<1>3. BoundToNewest'
    BY <1>0, <1>1 DEF Coherent, BoundToNewest, GenIds
<1>4. Succession'
    BY <1>0 DEF Coherent, Succession
<1>5. HeadsAgree'
    BY <1>0 DEF Coherent, HeadsAgree, Open, Resumable
<1>6. PublishedComplete'
  <2>1. row.status # "superseded"
      BY <1>1 DEF Resumable, Open
  <2> QED BY <1>0, <2>1 DEF Coherent, PublishedComplete
<1>7. RemovedStaysWithdrawn' /\ CompletedIsPublished'
    BY <1>0 DEF RemovedStaysWithdrawn, CompletedIsPublished
<1> QED
    BY <1>2, <1>3, <1>4, <1>5, <1>6, <1>7 DEF Coherent

\* Steps that append a building generation as the candidate of a live source,
\* giving up the candidate it replaces.
LEMMA AppendStep ==
    ASSUME TypeOK, Coherent, ~source.deleted, ngens < MaxGens,
           NEW cas,
           ngens' = ngens + 1,
           head' = [head EXCEPT !.candidate = ngens + 1],
           job'.gen = ngens + 1, job'.status # "completed",
           UNCHANGED <<source, baseline>>,
           gens' \in [GenIds -> Generation],
           gens'[ngens + 1] = NewGeneration(head.active, cas),
           \A g \in GenIds \ {ngens + 1, head.candidate} : gens'[g] = gens[g],
           head.candidate # NoGen =>
             /\ gens'[head.candidate].status \in {"failed", "abandoned"}
             /\ gens'[head.candidate].emb = gens[head.candidate].emb
             /\ gens'[head.candidate].proj = gens[head.candidate].proj
    PROVE  Coherent'
<1> DEFINE n == ngens + 1
<1>0. /\ gens \in [GenIds -> Generation] /\ ngens \in Nat /\ head \in HeadRow
      /\ n \in GenIds /\ n # NoGen
      /\ head.active \in Nat /\ head.active <= ngens /\ head.candidate <= ngens
      /\ head.candidate \in 0..MaxGens
    BY ConstantsAssumption DEF TypeOK, HeadRow, GenIds, Coherent, Succession
<1>1. /\ head'.active = head.active /\ head'.candidate = n
      /\ head'.retired = head.retired
    BY <1>0 DEF HeadRow
<1>2. /\ gens'[n].status = "building" /\ gens'[n].pred = head.active
      /\ gens'[n].emb = FALSE
    BY DEF NewGeneration, Absent
<1>3. head.candidate # NoGen =>
         /\ head.candidate \in GenIds
         /\ gens[head.candidate].status \in Open
         /\ gens[head.candidate].status # "absent"
    BY <1>0 DEF Coherent, HeadsAgree, GenIds, Open
<1>4. Numbered'
  <2> SUFFICES ASSUME NEW g \in GenIds
               PROVE  /\ gens'[g].status = "absent" <=> g > n
                      /\ g > n => gens'[g] = Absent
      BY DEF Numbered
  <2>1. CASE g = n
      BY <2>1, <1>0, <1>2
  <2>2. CASE g # n /\ g = head.candidate
      BY <2>2, <1>0, <1>3 DEF GenIds
  <2>3. CASE g # n /\ g # head.candidate
    <3>1. gens'[g] = gens[g]
        BY <2>3
    <3> QED BY <2>3, <3>1, <1>0 DEF Coherent, Numbered, GenIds
  <2> QED BY <2>1, <2>2, <2>3
<1>5. BoundToNewest'
    BY <1>2 DEF BoundToNewest, Resumable, Open
<1>6. Succession'
    BY <1>0, <1>1, <1>2 DEF Coherent, Succession
<1>7. HeadsAgree'
  <2> SUFFICES ASSUME NEW g \in GenIds
               PROVE  /\ gens'[g].status = "active" <=> head.active = g
                      /\ gens'[g].status \in Open <=> g = n
      BY <1>1 DEF HeadsAgree
  <2>1. CASE g = n
      BY <2>1, <1>0, <1>2 DEF Open
  <2>2. CASE g # n /\ g = head.candidate
    <3>1. gens[g].status \in Open /\ gens[g].status # "active"
        BY <2>2, <1>3, <1>0 DEF GenIds, Open
    <3>2. head.active # g
        BY <3>1 DEF Coherent, HeadsAgree
    <3> QED BY <2>2, <3>2, <1>0 DEF GenIds, Open
  <2>3. CASE g # n /\ g # head.candidate
      BY <2>3, <1>0 DEF Coherent, HeadsAgree
  <2> QED BY <2>1, <2>2, <2>3
<1>8. PublishedComplete'
  <2> SUFFICES ASSUME NEW g \in GenIds
               PROVE  /\ gens'[g].status \in {"prepared", "active", "superseded"} =>
                           gens'[g].sum # "none" /\ gens'[g].ext # "none" /\ gens'[g].proj # "none"
                      /\ gens'[g].emb => gens'[g].proj # "none"
      BY DEF PublishedComplete
  <2>1. CASE g = n
      BY <2>1, <1>2
  <2>2. CASE g # n /\ g = head.candidate
      BY <2>2, <1>0 DEF Coherent, PublishedComplete, GenIds
  <2>3. CASE g # n /\ g # head.candidate
      BY <2>3 DEF Coherent, PublishedComplete
  <2> QED BY <2>1, <2>2, <2>3
<1>9. RemovedStaysWithdrawn' /\ CompletedIsPublished'
    BY DEF RemovedStaysWithdrawn, CompletedIsPublished
<1> QED
    BY <1>4, <1>5, <1>6, <1>7, <1>8, <1>9 DEF Coherent

-----------------------------------------------------------------------------
(* The initial state, and the steps of a dispatch *)

\* A source nobody has dispatched yet is coherent.
LEMMA InitCoherent == Init => Coherent
<1> SUFFICES ASSUME Init PROVE Coherent
    OBVIOUS
<1>1. /\ gens = [g \in GenIds |-> Absent] /\ ngens = 0 /\ job.gen = 0
      /\ head = [active |-> 0, candidate |-> 0, retired |-> FALSE]
      /\ source.deleted = FALSE
    BY DEF Init
<1>2. \A g \in GenIds : /\ gens[g] = Absent /\ g > 0 /\ g # 0
                        /\ gens[g].status = "absent" /\ ~gens[g].emb
    BY <1>1 DEF GenIds, Absent
<1>3. Numbered
    BY <1>1, <1>2 DEF Numbered
<1>4. HeadsAgree /\ PublishedComplete
    BY <1>1, <1>2 DEF HeadsAgree, PublishedComplete, Open
<1>5. BoundToNewest /\ Succession
    BY <1>1 DEF BoundToNewest, Succession
<1>6. RemovedStaysWithdrawn /\ CompletedIsPublished
    BY <1>1 DEF RemovedStaysWithdrawn, CompletedIsPublished
<1> QED
    BY <1>3, <1>4, <1>5, <1>6 DEF Coherent

\* Steps that touch no durable row.
LEMMA IdleStep ==
    ASSUME Coherent, UNCHANGED durable
    PROVE  Coherent'
BY QuietStep DEF durable

\* Settling the job as anything but completed.
LEMMA SettleStep ==
    ASSUME Coherent, TypeOK, OnlyJob,
           job' = job \/ (job'.gen = job.gen /\ job'.status # "completed")
    PROVE  Coherent'
BY QuietStep DEF OnlyJob

\* Admission creates the first generation of a job that has none.
LEMMA AdmitCoherent ==
    ASSUME TypeOK, Coherent, NEW w \in Workers, Admit(w)
    PROVE  Coherent'
<1>1. CASE UNCHANGED durable
    BY <1>1, IdleStep
<1>2. CASE /\ AdmissionReason(claim[w]) = "ok" /\ job.gen = NoGen /\ ngens < MaxGens
           /\ ngens' = ngens + 1
           /\ gens' = [gens EXCEPT ![ngens + 1] = NewGeneration(head.active, {})]
           /\ job' = [job EXCEPT !.gen = ngens + 1]
           /\ head' = [head EXCEPT !.candidate = ngens + 1]
           /\ UNCHANGED <<source, baseline>>
  <2>1. OwnsAttempt(claim[w]) /\ Live /\ head.candidate = NoGen
      BY <1>2 DEF AdmissionReason
  <2>2. ~source.deleted /\ job.status = "claimed" /\ job \in JobRow
      BY <2>1 DEF Live, OwnsAttempt, TypeOK
  <2>3. job'.gen = ngens + 1 /\ job'.status # "completed"
      BY <1>2, <2>2 DEF JobRow
  <2>4. /\ ngens + 1 \in GenIds /\ gens \in [GenIds -> Generation]
        /\ head.active \in 0..MaxGens
      BY <1>2, ConstantsAssumption DEF TypeOK, GenIds, HeadRow
  <2>5. NewGeneration(head.active, {}) \in Generation
      BY <2>4, NewGenerationTyped
  <2>6. /\ gens' \in [GenIds -> Generation]
        /\ gens'[ngens + 1] = NewGeneration(head.active, {})
        /\ \A g \in GenIds \ {ngens + 1, head.candidate} : gens'[g] = gens[g]
      BY <1>2, <2>4, <2>5
  <2> QED BY <1>2, <2>1, <2>2, <2>3, <2>6, AppendStep
<1> QED
    BY <1>1, <1>2 DEF Admit, Raise, durable

\* Raw text is searchable only while nothing was published or removed.
LEMMA RawBaselineCoherent ==
    ASSUME TypeOK, Coherent, NEW w \in Workers, RawBaseline(w)
    PROVE  Coherent'
<1>1. CASE UNCHANGED durable
    BY <1>1, IdleStep
<1>2. CASE UNCHANGED <<source, job, head, gens, ngens>>
  <2>1. ~source.deleted
      BY ContextOk DEF RawBaseline, Passes
  <2>2. Numbered' /\ Succession' /\ HeadsAgree' /\ PublishedComplete'
      BY <1>2 DEF Coherent, Numbered, Succession, HeadsAgree, PublishedComplete
  <2>3. BoundToNewest' /\ CompletedIsPublished'
      BY <1>2 DEF Coherent, BoundToNewest, CompletedIsPublished
  <2>4. RemovedStaysWithdrawn'
      BY <1>2, <2>1 DEF RemovedStaysWithdrawn
  <2> QED BY <2>2, <2>3, <2>4 DEF Coherent
<1> QED
    BY <1>1, <1>2 DEF RawBaseline, Raise

\* The stages write into the generation their fence found resumable.
LEMMA StagesCoherent ==
    ASSUME TypeOK, Coherent, NEW w \in Workers,
           \/ PersistSummary(w) \/ PersistExtraction(w) \/ PrepareFts(w) \/ Enrich(w)
    PROVE  Coherent'
<1> DEFINE g == claim[w].gen
<1>1. CASE UNCHANGED durable
    BY <1>1, IdleStep
<1>2. Context(w) = "ok"
    BY DEF PersistSummary, PersistExtraction, PrepareFts, Enrich, Passes
<1>3. /\ g \in GenIds /\ ~source.deleted /\ job.status = "claimed"
      /\ gens[g].status \in Resumable
    BY <1>2, ContextOk
<1>4. gens[g] \in Generation
    BY <1>3 DEF TypeOK
<1>5. /\ gens[g].status \in {"prepared", "active"} =>
           gens[g].sum # "none" /\ gens[g].ext # "none" /\ gens[g].proj # "none"
      /\ gens[g].emb => gens[g].proj # "none"
    BY <1>3 DEF Coherent, PublishedComplete
<1>6. ASSUME NEW outcome \in SummaryOutcome, OnlyGen(g, [gens[g] EXCEPT !.sum = outcome])
      PROVE  Coherent'
  <2> DEFINE row == [gens[g] EXCEPT !.sum = outcome]
  <2>1. row \in Generation /\ outcome # "none"
      BY <1>4 DEF Generation, SummaryOutcome
  <2>2. /\ row.pred = gens[g].pred /\ row.status = gens[g].status
        /\ row.sum = outcome /\ row.ext = gens[g].ext /\ row.proj = gens[g].proj
        /\ row.emb = gens[g].emb
      BY <1>4 DEF Generation
  <2> QED BY <1>3, <1>5, <1>6, <2>1, <2>2, FillStep
<1>7. ASSUME NEW outcome \in ExtractionOutcome, OnlyGen(g, [gens[g] EXCEPT !.ext = outcome])
      PROVE  Coherent'
  <2> DEFINE row == [gens[g] EXCEPT !.ext = outcome]
  <2>1. row \in Generation /\ outcome # "none"
      BY <1>4 DEF Generation, ExtractionOutcome
  <2>2. /\ row.pred = gens[g].pred /\ row.status = gens[g].status
        /\ row.sum = gens[g].sum /\ row.ext = outcome /\ row.proj = gens[g].proj
        /\ row.emb = gens[g].emb
      BY <1>4 DEF Generation
  <2> QED BY <1>3, <1>5, <1>7, <2>1, <2>2, FillStep
<1>8. ASSUME gens[g].status = "building", gens[g].sum # "none", gens[g].ext # "none",
             OnlyGen(g, [gens[g] EXCEPT !.proj = "active", !.status = "prepared"])
      PROVE  Coherent'
  <2> DEFINE row == [gens[g] EXCEPT !.proj = "active", !.status = "prepared"]
  <2>1. "prepared" \in GenStatus /\ "active" \in ProjectionStatus
      BY DEF GenStatus, Resumable, Open, ProjectionStatus
  <2>2. row \in Generation
      BY <1>4, <2>1 DEF Generation
  <2>3. /\ row.pred = gens[g].pred /\ row.status = "prepared" /\ row.sum = gens[g].sum
        /\ row.ext = gens[g].ext /\ row.proj = "active"
      BY <1>4 DEF Generation
  <2> QED BY <1>3, <1>8, <2>2, <2>3, FillStep
<1>9. ASSUME NEW embedded \in BOOLEAN, gens[g].emb \/ gens[g].status = "active",
             OnlyGen(g, [gens[g] EXCEPT !.emb = @ \/ embedded])
      PROVE  Coherent'
  <2> DEFINE row == [gens[g] EXCEPT !.emb = @ \/ embedded]
  <2>1. row \in Generation
      BY <1>4 DEF Generation
  <2>2. /\ row.pred = gens[g].pred /\ row.status = gens[g].status /\ row.sum = gens[g].sum
        /\ row.ext = gens[g].ext /\ row.proj = gens[g].proj
      BY <1>4 DEF Generation
  <2>3. row.proj # "none"
      BY <1>5, <1>9, <2>2
  <2> QED BY <1>3, <1>5, <1>9, <2>1, <2>2, <2>3, FillStep
<1>10. CASE PersistSummary(w)
  <2>1. SummaryResults(w) \subseteq SummaryOutcome
      BY DEF SummaryResults, SummaryOutcome
  <2> QED BY <1>10, <1>1, <1>6, <2>1 DEF PersistSummary, Raise
<1>11. CASE PersistExtraction(w)
  <2>1. (IF "ext" \in ctx[w].allowed THEN "succeeded" ELSE "policy_skipped") \in ExtractionOutcome
      BY DEF ExtractionOutcome
  <2> QED BY <1>11, <1>1, <1>7, <2>1 DEF PersistExtraction, Raise
<1>12. CASE PrepareFts(w)
    BY <1>12, <1>1, <1>8 DEF PrepareFts, Raise
<1>13. CASE Enrich(w)
    BY <1>13, <1>1, <1>9 DEF Enrich, Raise
<1> QED
    BY <1>10, <1>11, <1>12, <1>13

\* Publication: the candidate becomes what readers see, the generation it
\* replaces is superseded, and both pointers move in the same commit.
LEMMA PublishCoherent ==
    ASSUME TypeOK, Coherent, NEW w \in Workers, Publish(w)
    PROVE  Coherent'
<1> DEFINE g == claim[w].gen
           p == head.active
<1>1. CASE UNCHANGED durable
    BY <1>1, IdleStep
<1>2. CASE /\ Validation(g) = "ok" /\ gens[g].status # "active"
           /\ gens' = [h \in GenIds |->
                         IF h = g THEN [gens[h] EXCEPT !.status = "active"]
                         ELSE IF h = p THEN [gens[h] EXCEPT !.status = "superseded"]
                         ELSE gens[h]]
           /\ head' = [active |-> g, candidate |-> NoGen, retired |-> TRUE]
           /\ UNCHANGED <<source, job, ngens, baseline>>
  <2>1. Context(w) = "ok"
      BY DEF Publish, Passes
  <2>2. /\ g \in GenIds /\ ~source.deleted /\ job.status = "claimed"
        /\ gens[g].status \in Resumable /\ Attached(g)
      BY <2>1, ContextOk
  <2>3. head.candidate = g /\ g = ngens /\ g # NoGen /\ p <= ngens /\ p \in 0..MaxGens
      BY <1>2, <2>2, ConstantsAssumption
      DEF Attached, Coherent, Succession, TypeOK, HeadRow, GenIds
  <2>4. /\ gens[g].status = "prepared"
        /\ gens[g].sum # "none" /\ gens[g].ext # "none" /\ gens[g].proj = "active"
      BY <1>2 DEF Validation
  <2>5. p # g
      BY <2>2, <2>4 DEF Coherent, HeadsAgree
  <2>6. p # NoGen => p \in GenIds /\ gens[p].status = "active"
      BY <2>3, ConstantsAssumption DEF Coherent, HeadsAgree, GenIds
  <2>7. /\ gens'[g] = [gens[g] EXCEPT !.status = "active"]
        /\ p # NoGen => gens'[p] = [gens[p] EXCEPT !.status = "superseded"]
        /\ \A h \in GenIds \ {g, p} : gens'[h] = gens[h]
      BY <1>2, <2>2, <2>5, <2>6
  <2>8. \A h \in GenIds : gens[h] \in Generation
      BY DEF TypeOK
  <2>9. /\ gens'[g].status = "active" /\ gens'[g].pred = gens[g].pred
        /\ gens'[g].sum = gens[g].sum /\ gens'[g].ext = gens[g].ext
        /\ gens'[g].proj = gens[g].proj /\ gens'[g].emb = gens[g].emb
      BY <2>2, <2>7, <2>8 DEF Generation
  <2>10. p # NoGen =>
           /\ gens'[p].status = "superseded" /\ gens'[p].sum = gens[p].sum
           /\ gens'[p].ext = gens[p].ext /\ gens'[p].proj = gens[p].proj
           /\ gens'[p].emb = gens[p].emb
      BY <2>6, <2>7, <2>8 DEF Generation
  <2>11. Numbered'
    <3> SUFFICES ASSUME NEW h \in GenIds
                 PROVE  /\ gens'[h].status = "absent" <=> h > ngens
                        /\ h > ngens => gens'[h] = Absent
        BY <1>2 DEF Numbered
    <3>1. CASE h = g
        BY <3>1, <2>3, <2>9 DEF TypeOK
    <3>2. CASE h = p
        BY <3>2, <2>3, <2>6, <2>10, ConstantsAssumption DEF GenIds, TypeOK
    <3>3. CASE h \notin {g, p}
        BY <3>3, <2>7 DEF Coherent, Numbered
    <3> QED BY <3>1, <3>2, <3>3
  <2>12. BoundToNewest'
      BY <1>2, <2>3, <2>9 DEF Coherent, BoundToNewest, Resumable
  <2>13. Succession'
      BY <1>2, <2>3 DEF Succession, TypeOK
  <2>14. HeadsAgree'
    <3> SUFFICES ASSUME NEW h \in GenIds
                 PROVE  /\ gens'[h].status = "active" <=> h = g
                        /\ gens'[h].status \notin Open
        BY <1>2, <2>2, ConstantsAssumption DEF HeadsAgree, GenIds
    <3>1. CASE h = g
        BY <3>1, <2>9 DEF Open
    <3>2. CASE h = p
        BY <3>2, <2>5, <2>6, <2>10, ConstantsAssumption DEF GenIds, Open
    <3>3. CASE h \notin {g, p}
        BY <3>3, <2>3, <2>7 DEF Coherent, HeadsAgree
    <3> QED BY <3>1, <3>2, <3>3
  <2>15. PublishedComplete'
    <3> SUFFICES ASSUME NEW h \in GenIds
                 PROVE  /\ gens'[h].status \in {"prepared", "active", "superseded"} =>
                             gens'[h].sum # "none" /\ gens'[h].ext # "none" /\ gens'[h].proj # "none"
                        /\ gens'[h].emb => gens'[h].proj # "none"
        BY DEF PublishedComplete
    <3>1. CASE h = g
        BY <3>1, <2>4, <2>9
    <3>2. CASE h = p
        BY <3>2, <2>6, <2>10, ConstantsAssumption DEF GenIds, Coherent, PublishedComplete
    <3>3. CASE h \notin {g, p}
        BY <3>3, <2>7 DEF Coherent, PublishedComplete
    <3> QED BY <3>1, <3>2, <3>3
  <2>16. RemovedStaysWithdrawn' /\ CompletedIsPublished'
      BY <1>2, <2>2 DEF RemovedStaysWithdrawn, CompletedIsPublished
  <2> QED BY <2>11, <2>12, <2>13, <2>14, <2>15, <2>16 DEF Coherent
<1>3. CASE UNCHANGED <<source, job, head, gens, ngens, baseline>>
    BY <1>3, QuietStep
<1> QED
    BY <1>1, <1>2, <1>3 DEF Publish, Raise

\* A job completes only with the generation its fence found published.
LEMMA FinishCoherent ==
    ASSUME TypeOK, Coherent, NEW w \in Workers, Finish(w)
    PROVE  Coherent'
<1> DEFINE g == claim[w].gen
<1>1. CASE UNCHANGED durable
    BY <1>1, IdleStep
<1>2. CASE /\ gens[g].status = "active" /\ OnlyJob
           /\ job' = [job EXCEPT !.status = "completed",
                         !.err = IF gens[g].sum = "partial_failure"
                                   THEN "partial" ELSE "none"]
  <2>1. Context(w) = "ok"
      BY DEF Finish, Passes
  <2>2. g \in GenIds /\ job.gen = g /\ ~source.deleted
      BY <2>1, ContextOk
  <2>3. /\ job'.gen = job.gen
        /\ job'.err = "partial" <=> gens[g].sum = "partial_failure"
      BY <1>2 DEF TypeOK, JobRow
  <2>4. UNCHANGED <<source, head, gens, ngens, baseline>>
      BY <1>2 DEF OnlyJob
  <2>5. Numbered' /\ Succession' /\ HeadsAgree' /\ PublishedComplete'
      BY <2>4 DEF Coherent, Numbered, Succession, HeadsAgree, PublishedComplete
  <2>6. BoundToNewest' /\ RemovedStaysWithdrawn'
      BY <2>3, <2>4 DEF Coherent, BoundToNewest, RemovedStaysWithdrawn
  <2>7. head.active = g
      BY <1>2, <2>2 DEF Coherent, HeadsAgree
  <2>8. CompletedIsPublished'
      BY <2>2, <2>3, <2>4, <2>7 DEF CompletedIsPublished
  <2> QED BY <2>5, <2>6, <2>8 DEF Coherent
<1> QED
    BY <1>1, <1>2 DEF Finish, Raise

\* Every step of a dispatch keeps the published state coherent.
LEMMA DispatchCoherent ==
    ASSUME TypeOK, Coherent, NEW w \in Workers, Dispatch(w)
    PROVE  Coherent'
<1>1. CASE Admit(w)
    BY <1>1, AdmitCoherent
<1>2. CASE RawBaseline(w)
    BY <1>2, RawBaselineCoherent
<1>3. CASE PersistSummary(w) \/ PersistExtraction(w) \/ PrepareFts(w) \/ Enrich(w)
    BY <1>3, StagesCoherent
<1>4. CASE Publish(w)
    BY <1>4, PublishCoherent
<1>5. CASE Finish(w)
    BY <1>5, FinishCoherent
<1>6. CASE ModelNotReady(w) \/ FenceFails(w) \/ Snapshot(w) \/ GateFails(w)
           \/ Classify(w) \/ Decide(w) \/ SummaryFails(w) \/ Review(w)
           \/ ExtractionFails(w) \/ Assess(w) \/ Escape(w) \/ RecoverFails(w)
  <2>1. UNCHANGED durable
      BY <1>6 DEF ModelNotReady, FenceFails, Snapshot, GateFails, Classify, Decide,
                  SummaryFails, Review, ExtractionFails, Assess, Escape, RecoverFails,
                  Raise, Fail
  <2> QED BY <2>1, IdleStep
<1>7. CASE Park(w) \/ Resolve(w)
  <2>1. \/ UNCHANGED durable
        \/ OnlyJob /\ job'.gen = job.gen /\ job'.status # "completed"
      BY <1>7 DEF Park, Resolve, Raise, TypeOK, JobRow
  <2> QED BY <2>1, IdleStep, SettleStep
<1>8. CASE FailCurrentClaim(w) \/ Recover(w)
  <2>1. \A r, e : /\ FailedJob(r, e).gen = job.gen
                  /\ FailedJob(r, e).status # "completed"
      BY DEF FailedJob, TypeOK, JobRow
  <2> QED BY <1>8, <2>1, SettleStep DEF FailCurrentClaim, Recover
<1> QED
    BY <1>1, <1>2, <1>3, <1>4, <1>5, <1>6, <1>7, <1>8 DEF Dispatch

-----------------------------------------------------------------------------
(* The steps of the loop and of everyone else *)

\* Claiming, dying and starting touch only the job.
LEMMA LoopCoherent ==
    ASSUME TypeOK, Coherent, NEW w \in Workers, ClaimNext(w) \/ Crash(w) \/ Start(w)
    PROVE  Coherent'
<1>1. CASE ClaimNext(w)
  <2>1. job'.gen = job.gen /\ job'.status # "completed"
      BY <1>1 DEF ClaimNext, TypeOK, JobRow
  <2> QED BY <1>1, <2>1, QuietStep DEF ClaimNext
<1>2. CASE Crash(w)
    BY <1>2, IdleStep DEF Crash
<1>3. CASE Start(w)
  <2>1. job' = job \/ (job'.gen = job.gen /\ job'.status # "completed")
      BY <1>3 DEF Start, IsStale, TypeOK, JobRow
  <2> QED BY <1>3, <2>1, SettleStep DEF Start
<1> QED
    BY <1>1, <1>2, <1>3

\* Manual reprocessing of a failed job: the open candidate is given up.
LEMMA ReprocessFailedCoherent ==
    ASSUME TypeOK, Coherent, ReprocessFailed
    PROVE  Coherent'
<1> DEFINE n == ngens + 1
<1>1. ~source.deleted /\ ngens < MaxGens
    BY DEF ReprocessFailed, Live
<1>2. /\ n \in GenIds /\ gens \in [GenIds -> Generation] /\ head \in HeadRow
      /\ head.active \in 0..MaxGens /\ head.candidate \in 0..MaxGens /\ head.candidate # n
    BY <1>1, ConstantsAssumption DEF TypeOK, GenIds, HeadRow, Coherent, Succession
<1>3. gens' \in [GenIds -> Generation]
    BY EnvironmentTyped DEF Environment, TypeOK
<1>0. PICK expected \in Preconditions :
         gens' = [g \in GenIds |->
                    IF g = ngens + 1 THEN NewGeneration(head.active, expected)
                    ELSE IF g = head.candidate THEN GivenUp(gens[g])
                    ELSE gens[g]]
      BY DEF ReprocessFailed
<1>4. gens'[n] = NewGeneration(head.active, expected)
    BY <1>0, <1>2
<1>5. \A g \in GenIds \ {n, head.candidate} : gens'[g] = gens[g]
    BY <1>0
<1>6. head.candidate # NoGen =>
         /\ gens'[head.candidate].status \in {"failed", "abandoned"}
         /\ gens'[head.candidate].emb = gens[head.candidate].emb
         /\ gens'[head.candidate].proj = gens[head.candidate].proj
  <2> SUFFICES ASSUME head.candidate # NoGen
               PROVE  /\ gens'[head.candidate].status \in {"failed", "abandoned"}
                      /\ gens'[head.candidate].emb = gens[head.candidate].emb
                      /\ gens'[head.candidate].proj = gens[head.candidate].proj
      OBVIOUS
  <2>1. head.candidate \in GenIds
      BY <1>2, ConstantsAssumption DEF GenIds
  <2>2. gens'[head.candidate] = GivenUp(gens[head.candidate])
      BY <1>0, <1>2, <2>1
  <2>3. gens[head.candidate] \in Generation
      BY <1>2, <2>1
  <2> QED BY <2>2, <2>3 DEF GivenUp, Generation
<1>7. job'.gen = n /\ job'.status # "completed"
    BY DEF ReprocessFailed, Requeued, TypeOK, JobRow
<1> QED
    BY <1>1, <1>3, <1>4, <1>5, <1>6, <1>7, AppendStep DEF ReprocessFailed

\* Manual reprocessing of a completed job: the published generation stays.
LEMMA ReprocessCompletedCoherent ==
    ASSUME TypeOK, Coherent, NEW e \in 0..MaxGens, ReprocessCompleted(e)
    PROVE  Coherent'
<1> DEFINE n == ngens + 1
<1>1. ~source.deleted /\ ngens < MaxGens
    BY DEF ReprocessCompleted, Live
<1>2. head.candidate = NoGen /\ job.gen = head.active
    BY DEF ReprocessCompleted
<1>3. n \in GenIds /\ gens \in [GenIds -> Generation]
    BY <1>1, ConstantsAssumption DEF TypeOK, GenIds
<1>4. gens' \in [GenIds -> Generation]
    BY EnvironmentTyped DEF Environment, TypeOK
<1>5. /\ gens'[n] = NewGeneration(head.active, {e})
      /\ \A g \in GenIds \ {n, head.candidate} : gens'[g] = gens[g]
    BY <1>2, <1>3 DEF ReprocessCompleted
<1>6. job'.gen = n /\ job'.status # "completed"
    BY DEF ReprocessCompleted, Requeued, TypeOK, JobRow
<1> QED
    BY <1>1, <1>2, <1>4, <1>5, <1>6, AppendStep DEF ReprocessCompleted

\* Deletion withdraws every open and published generation of the source.
LEMMA DeleteCoherent ==
    ASSUME TypeOK, Coherent, Delete
    PROVE  Coherent'
<1>1. /\ head'.active = NoGen /\ head'.candidate = NoGen
      /\ source'.deleted /\ baseline' # "active" /\ UNCHANGED <<job, ngens>>
    BY DEF Delete, ClearedHead, TypeOK, HeadRow, SourceRow
<1>2. \A g \in GenIds :
         /\ gens[g] \in Generation
         /\ gens'[g] = Withdrawn(gens[g])
    BY DEF Delete, TypeOK
<1>3. \A g \in GenIds :
         /\ gens'[g].status = IF gens[g].status \in Resumable THEN "abandoned"
                              ELSE gens[g].status
         /\ gens'[g].proj = IF gens[g].proj = "none" THEN "none" ELSE "source_removed"
         /\ gens'[g].sum = gens[g].sum /\ gens'[g].ext = gens[g].ext
         /\ gens'[g].emb = gens[g].emb
    <2>1. ASSUME NEW row \in Generation
          PROVE  /\ Withdrawn(row).status = IF row.status \in Resumable THEN "abandoned"
                                            ELSE row.status
                 /\ Withdrawn(row).proj = IF row.proj = "none" THEN "none"
                                          ELSE "source_removed"
                 /\ Withdrawn(row).sum = row.sum /\ Withdrawn(row).ext = row.ext
                 /\ Withdrawn(row).emb = row.emb
      BY DEF Withdrawn, Generation
    <2> QED
      BY <1>2, <2>1
<1>4. \A g \in GenIds : gens'[g].status \notin Resumable
    BY <1>3 DEF Resumable, Open
<1>5. Withdrawn(Absent) = Absent
    BY DEF Withdrawn, Absent, Resumable, Open
<1>6. Numbered'
    BY <1>1, <1>2, <1>3, <1>5 DEF Coherent, Numbered, Resumable, Open
<1>7. HeadsAgree'
    BY <1>1, <1>4, ConstantsAssumption DEF HeadsAgree, GenIds, Resumable
<1>8. PublishedComplete'
    BY <1>3, <1>4 DEF Coherent, PublishedComplete, Resumable, Open
<1>9. BoundToNewest' /\ Succession'
    BY <1>1 DEF Coherent, BoundToNewest, Succession, TypeOK
<1>10. RemovedStaysWithdrawn' /\ CompletedIsPublished'
    BY <1>1, <1>3, <1>4 DEF RemovedStaysWithdrawn, CompletedIsPublished
<1> QED
    BY <1>6, <1>7, <1>8, <1>9, <1>10 DEF Coherent

\* What everyone else does keeps the published state coherent.
LEMMA EnvironmentCoherent ==
    ASSUME TypeOK, Coherent, Environment
    PROVE  Coherent'
<1>1. CASE Age \/ Reactivate
  <2>1. job'.gen = job.gen /\ job'.status # "completed"
      BY <1>1 DEF Age, Reactivate, TypeOK, JobRow
  <2> QED BY <1>1, <2>1, SettleStep DEF Age, Reactivate
<1>2. CASE ReprocessFailed
    BY <1>2, ReprocessFailedCoherent
<1>3. CASE \E e \in 0..MaxGens : ReprocessCompleted(e)
    BY <1>3, ReprocessCompletedCoherent
<1>4. CASE Delete
    BY <1>4, DeleteCoherent
<1>5. CASE DeleteTwin
  <2>1. source'.deleted = source.deleted /\ UNCHANGED <<job, head, gens, ngens, baseline>>
      BY <1>5 DEF DeleteTwin, TypeOK, SourceRow
  <2>2. Numbered' /\ Succession' /\ HeadsAgree' /\ PublishedComplete'
      BY <2>1 DEF Coherent, Numbered, Succession, HeadsAgree, PublishedComplete
  <2>3. BoundToNewest' /\ RemovedStaysWithdrawn' /\ CompletedIsPublished'
      BY <2>1 DEF Coherent, BoundToNewest, RemovedStaysWithdrawn, CompletedIsPublished
  <2> QED BY <2>2, <2>3 DEF Coherent
<1> QED
    BY <1>1, <1>2, <1>3, <1>4, <1>5 DEF Environment

-----------------------------------------------------------------------------

\* One step of any actor from a coherent, well-typed state.
LEMMA InductiveStep ==
    ASSUME IndInv, [Next]_vars
    PROVE  IndInv'
<1>0. TypeOK /\ Counted /\ Coherent
    BY DEF IndInv
<1>1. TypeOK' /\ Counted'
    BY <1>0, TypedStep, CountedStep
<1>2. Coherent'
  <2>1. CASE UNCHANGED vars
      BY <1>0, <2>1, IdleStep DEF vars, durable
  <2> QED BY <1>0, <2>1, DispatchCoherent, LoopCoherent, EnvironmentCoherent DEF Next
<1> QED
    BY <1>1, <1>2 DEF IndInv

\* Head, generations, job and baseline agree in every reachable state: the
\* inductive invariant of the coordinator, for any number of workers, attempts
\* and generations.
THEOREM Coherence == Spec => []IndInv
<1>1. Init => IndInv
  <2>1. Init => Counted
      BY DEF Init, Counted
  <2> QED BY <2>1, InitTyped, InitCoherent DEF IndInv
<1>2. IndInv /\ [Next]_vars => IndInv'
    BY InductiveStep
<1> QED
    BY <1>1, <1>2, PTL DEF Spec

\* The head points at exactly the published and the open generation, so the
\* partial unique indexes of derivations/models.py never reject a commit.
THEOREM HeadsAlwaysAgree == Spec => []HeadsAgree
<1>1. IndInv => HeadsAgree
    BY DEF IndInv, Coherent
<1> QED
    BY <1>1, Coherence, PTL

\* Whatever workers still hold, nothing of a deleted source is open, published
\* or searchable again (archive/service.py, cascade_delete_archive_item).
THEOREM RemovalIsFinal == Spec => []RemovedStaysWithdrawn
<1>1. IndInv => RemovedStaysWithdrawn
    BY DEF IndInv, Coherent
<1> QED
    BY <1>1, Coherence, PTL

\* finish_claim never marks a job completed unless its generation is the one
\* readers see.
THEOREM CompletionIsHonest == Spec => []CompletedIsPublished
<1>1. IndInv => CompletedIsPublished
    BY DEF IndInv, Coherent
<1> QED
    BY <1>1, Coherence, PTL

-----------------------------------------------------------------------------
(***************************************************************************)
(* What a step may never do: a stale worker writes, a generation comes     *)
(* back, a removed source is published, a lost acknowledgement admits      *)
(* twice; and the coordinator implements PublishedMemory.                  *)
(***************************************************************************)

\* A step changes the control of the worker that takes it and of no other.
LEMMA OthersKeepControl ==
    ASSUME TypeOK, NEW w \in Workers, NEW v \in Workers, v # w,
           ClaimNext(v) \/ Dispatch(v) \/ Crash(v) \/ Start(v)
    PROVE  <<pc[w], ctx[w], claim[w]>>' = <<pc[w], ctx[w], claim[w]>>
<1>0. /\ pc \in [Workers -> PCs] /\ ctx \in [Workers -> Memories]
      /\ claim \in [Workers -> Claims]
    BY DEF TypeOK
<1>1. \A label : Goto(v, label) => pc'[w] = pc[w]
    BY <1>0 DEF Goto
<1>2. Return(v) => <<pc[w], ctx[w], claim[w]>>' = <<pc[w], ctx[w], claim[w]>>
    BY <1>0, <1>1 DEF Return
<1>3. \A r : Raise(v, r) => <<pc[w], ctx[w], claim[w]>>' = <<pc[w], ctx[w], claim[w]>>
    BY <1>0, <1>1 DEF Raise
<1>4. \A r : Fail(v, r) => <<pc[w], ctx[w], claim[w]>>' = <<pc[w], ctx[w], claim[w]>>
    BY <1>0, <1>1 DEF Fail
<1>5. CASE ClaimNext(v) \/ Crash(v) \/ Start(v)
    BY <1>5, <1>0, <1>1 DEF ClaimNext, Crash, Start
<1>6. CASE Admit(v)
    BY <1>6, <1>0, <1>1, <1>3 DEF Admit
<1>7. CASE \/ ModelNotReady(v) \/ FenceFails(v) \/ GateFails(v) \/ SummaryFails(v)
           \/ ExtractionFails(v)
    BY <1>7, <1>3, <1>4 DEF ModelNotReady, FenceFails, GateFails, SummaryFails, ExtractionFails
<1>8. CASE Snapshot(v) \/ Decide(v)
    BY <1>8, <1>1, <1>3 DEF Snapshot, Decide
<1>9. CASE Classify(v) \/ Review(v) \/ Assess(v) \/ Escape(v)
    BY <1>9, <1>0, <1>1 DEF Classify, Review, Assess, Escape
<1>10. CASE RawBaseline(v) \/ PersistSummary(v) \/ PersistExtraction(v)
            \/ PrepareFts(v) \/ Publish(v) \/ Enrich(v)
    BY <1>10, <1>1, <1>3
       DEF RawBaseline, PersistSummary, PersistExtraction, PrepareFts, Publish, Enrich
<1>11. CASE Park(v) \/ Finish(v) \/ FailCurrentClaim(v) \/ Recover(v) \/ RecoverFails(v)
    BY <1>11, <1>2, <1>3 DEF Park, Finish, FailCurrentClaim, Recover, RecoverFails
<1>12. CASE Resolve(v)
    BY <1>12, <1>0, <1>1, <1>2 DEF Resolve, Replaying
<1> QED
    BY <1>5, <1>6, <1>7, <1>8, <1>9, <1>10, <1>11, <1>12 DEF Dispatch

\* Every durable write of a dispatch passes the claim fence first.
LEMMA WritesAreFenced ==
    ASSUME NEW w \in Workers, Dispatch(w), ~OwnsAttempt(claim[w])
    PROVE  UNCHANGED durable
<1>1. ~Owns(claim[w]) /\ Context(w) # "ok" /\ AdmissionReason(claim[w]) # "ok"
    BY DEF Owns, Context, StateReason, AdmissionReason
<1>2. CASE Admit(w)
    BY <1>1, <1>2 DEF Admit, Raise
<1>3. CASE ModelNotReady(w) \/ FenceFails(w) \/ GateFails(w) \/ SummaryFails(w)
           \/ ExtractionFails(w) \/ Escape(w) \/ RecoverFails(w)
    BY <1>3 DEF ModelNotReady, FenceFails, GateFails, SummaryFails, ExtractionFails,
                Escape, RecoverFails, Raise, Fail
<1>4. CASE Resolve(w) \/ FailCurrentClaim(w) \/ Recover(w)
    BY <1>1, <1>4 DEF Resolve, FailCurrentClaim, Recover, OnlyJob, durable
<1> QED
    BY <1>1, <1>2, <1>3, <1>4
       DEF Dispatch, Passes, Snapshot, Classify, RawBaseline, Decide, Park, PersistSummary,
           Review, PersistExtraction, Assess, PrepareFts, Publish, Enrich, Finish

\* Whatever a worker does after its claim was reset, taken over or settled, no
\* durable row changes: the fence of derivations/service.py (owns_claim) covers
\* every transaction of managed_dispatcher.py and of the loop's recovery.
THEOREM StaleClaimsAreHarmless == Spec => StaleClaimHarmless
<1>1. ASSUME TypeOK, [Next]_vars, NEW w \in Workers, pc[w] \in Busy, ~HoldsJob(w),
             <<pc[w], ctx[w]>>' # <<pc[w], ctx[w]>>
      PROVE  UNCHANGED durable
  <2>1. ~OwnsAttempt(claim[w])
      BY <1>1 DEF HoldsJob, OwnsAttempt
  <2>2. PICK v \in Workers : ClaimNext(v) \/ Dispatch(v) \/ Crash(v) \/ Start(v)
      BY <1>1 DEF Next, vars, Environment, Age, Reactivate, ReprocessFailed,
                  ReprocessCompleted, Delete, DeleteTwin, local
  <2>3. v = w
      BY <1>1, <2>2, OthersKeepControl
  <2>4. ~ClaimNext(w) /\ ~Start(w)
      BY <1>1 DEF ClaimNext, Start, Busy, Admission, Fenced, Exits
  <2>5. CASE Dispatch(w)
      BY <2>1, <2>5, WritesAreFenced
  <2>6. CASE Crash(w)
      BY <2>6 DEF Crash
  <2> QED BY <2>2, <2>3, <2>4, <2>5, <2>6
<1>2. TypeOK /\ [Next]_vars =>
        [\A w \in Workers :
           pc[w] \in Busy /\ ~HoldsJob(w) /\ <<pc[w], ctx[w]>>' # <<pc[w], ctx[w]>>
             => UNCHANGED durable]_vars
    BY <1>1
<1> QED
    BY <1>2, TypeCorrect, PTL DEF Spec, StaleClaimHarmless

-----------------------------------------------------------------------------
(* How a generation row may evolve *)

\* what one step may do to a row: final states stay, a published generation is
\* superseded or withdrawn, and the binding it was admitted on is never rewritten
Evolves(row, next) ==
    /\ row.status \in Retired => next.status = row.status
    /\ row.status = "active" => next.status \in {"active", "superseded", "abandoned"}
    /\ next.cas = row.cas

\* A row that does not change evolves.
LEMMA StillEvolves == \A row : Evolves(row, row)
BY DEF Evolves, Retired

\* A dispatch evolves every row.
LEMMA DispatchEvolves ==
    ASSUME TypeOK, Coherent, NEW w \in Workers, Dispatch(w), NEW h \in GenIds
    PROVE  Evolves(gens[h], gens'[h])
<1> DEFINE g == claim[w].gen
<1>0. gens \in [GenIds -> Generation]
    BY DEF TypeOK
<1>1. CASE UNCHANGED gens
    BY <1>1, StillEvolves
<1>2. CASE Admit(w)
  <2>1. CASE UNCHANGED durable
      BY <2>1, <1>1 DEF durable
  <2>2. CASE /\ ngens < MaxGens
             /\ gens' = [gens EXCEPT ![ngens + 1] = NewGeneration(head.active, {})]
    <3>2. CASE h = ngens + 1
      <4>1. gens[h] = Absent
          BY <3>2 DEF TypeOK, Coherent, Numbered
      <4>2. gens'[h] = NewGeneration(head.active, {})
          BY <2>2, <3>2, <1>0
      <4>3. gens[h].status = "absent" /\ gens[h].cas = {} /\ gens'[h].cas = {}
          BY <4>1, <4>2 DEF Absent, NewGeneration
      <4> QED BY <4>3 DEF Evolves, Retired
    <3>3. CASE h # ngens + 1
      <4>1. gens'[h] = gens[h]
          BY <2>2, <3>3, <1>0
      <4> QED BY <4>1, StillEvolves
    <3> QED BY <3>2, <3>3
  <2> QED BY <1>2, <2>1, <2>2 DEF Admit, Raise, durable
<1>3. ASSUME NEW row, OnlyGen(g, row), g \in GenIds, row.cas = gens[g].cas,
             row.status = gens[g].status \/ gens[g].status = "building"
      PROVE  Evolves(gens[h], gens'[h])
  <2>2. gens'[h] = IF h = g THEN row ELSE gens[h]
      BY <1>0, <1>3 DEF OnlyGen
  <2> QED BY <1>3, <2>2 DEF Evolves, Retired
<1>4. CASE PersistSummary(w) \/ PersistExtraction(w) \/ PrepareFts(w) \/ Enrich(w)
  <2>1. Context(w) = "ok"
      BY <1>4 DEF PersistSummary, PersistExtraction, PrepareFts, Enrich, Passes
  <2>2. g \in GenIds /\ gens[g] \in Generation
      BY <2>1, <1>0, ContextOk
  <2>3. CASE PersistSummary(w)
    <3>1. ASSUME NEW o, OnlyGen(g, [gens[g] EXCEPT !.sum = o])
          PROVE  Evolves(gens[h], gens'[h])
        BY <3>1, <2>2, <1>3 DEF Generation
    <3> QED BY <2>3, <3>1, <1>1 DEF PersistSummary, Raise, durable
  <2>4. CASE PersistExtraction(w)
    <3>1. ASSUME NEW o, OnlyGen(g, [gens[g] EXCEPT !.ext = o])
          PROVE  Evolves(gens[h], gens'[h])
        BY <3>1, <2>2, <1>3 DEF Generation
    <3> QED BY <2>4, <3>1, <1>1 DEF PersistExtraction, Raise, durable
  <2>5. CASE PrepareFts(w)
    <3>1. ASSUME gens[g].status = "building",
                 OnlyGen(g, [gens[g] EXCEPT !.proj = "active", !.status = "prepared"])
          PROVE  Evolves(gens[h], gens'[h])
        BY <3>1, <2>2, <1>3 DEF Generation
    <3> QED BY <2>5, <3>1, <1>1 DEF PrepareFts, Raise, durable
  <2>6. CASE Enrich(w)
    <3>1. ASSUME NEW o \in BOOLEAN, OnlyGen(g, [gens[g] EXCEPT !.emb = @ \/ o])
          PROVE  Evolves(gens[h], gens'[h])
        BY <3>1, <2>2, <1>3 DEF Generation
    <3> QED BY <2>6, <3>1, <1>1 DEF Enrich, Raise, durable
  <2> QED BY <1>4, <2>3, <2>4, <2>5, <2>6
<1>5. CASE Publish(w)
  <2>1. CASE UNCHANGED gens
      BY <2>1, <1>1
  <2>2. CASE /\ Validation(g) = "ok" /\ gens[g].status # "active"
             /\ gens' = [x \in GenIds |->
                           IF x = g THEN [gens[x] EXCEPT !.status = "active"]
                           ELSE IF x = head.active
                             THEN [gens[x] EXCEPT !.status = "superseded"]
                           ELSE gens[x]]
    <3>2. gens[h] \in Generation
        BY <1>0
    <3>3. CASE h = g
      <4>1. gens[h].status = "prepared"
          BY <2>2, <3>3 DEF Validation
      <4>2. gens'[h] = [gens[h] EXCEPT !.status = "active"]
          BY <2>2, <3>3
      <4> QED BY <3>2, <4>1, <4>2 DEF Evolves, Retired, Generation
    <3>4. CASE h # g /\ h = head.active
      <4>1. gens[h].status = "active"
          BY <3>4 DEF Coherent, HeadsAgree
      <4>2. gens'[h] = [gens[h] EXCEPT !.status = "superseded"]
          BY <2>2, <3>4
      <4> QED BY <3>2, <4>1, <4>2 DEF Evolves, Retired, Generation
    <3>5. CASE h # g /\ h # head.active
      <4>1. gens'[h] = gens[h]
          BY <2>2, <3>5
      <4> QED BY <4>1, StillEvolves
    <3> QED BY <3>3, <3>4, <3>5
  <2> QED BY <1>5, <2>1, <2>2 DEF Publish, Raise, durable
<1>6. CASE UNCHANGED durable
    BY <1>1, <1>6 DEF durable
<1>7. CASE OnlyJob
    BY <1>1, <1>7 DEF OnlyJob
<1>8. CASE RawBaseline(w)
    BY <1>1, <1>6, <1>8 DEF RawBaseline, Raise
<1> QED
    BY <1>2, <1>4, <1>5, <1>6, <1>7, <1>8
       DEF Dispatch, ModelNotReady, FenceFails, Snapshot, GateFails, Classify, Decide, Park,
           SummaryFails, Review, ExtractionFails, Assess, Finish, Resolve,
           FailCurrentClaim, Escape, Recover, RecoverFails, Raise, Fail

\* Nobody else brings a generation back either; a reprocess is the only step
\* that records a binding, on the new row.
LEMMA EnvironmentEvolves ==
    ASSUME TypeOK, Coherent, Environment, NEW h \in GenIds
    PROVE  \/ Evolves(gens[h], gens'[h])
           \/ /\ h = ngens + 1 /\ gens[h].status = "absent"
              /\ gens'[h].cas = {job.gen}
<1>0. gens \in [GenIds -> Generation] /\ gens[h] \in Generation
    BY DEF TypeOK
<1>n. h = ngens + 1 => gens[h].status = "absent" /\ gens[h].cas = {}
  <2>1. h = ngens + 1 => gens[h] = Absent
      BY DEF TypeOK, Coherent, Numbered
  <2> QED BY <2>1 DEF Absent
<1>1. CASE UNCHANGED gens
    BY <1>1, StillEvolves
<1>2. CASE ReprocessFailed
  <2>1. PICK expected \in Preconditions :
         gens' = [g \in GenIds |->
                    IF g = ngens + 1 THEN NewGeneration(head.active, expected)
                    ELSE IF g = head.candidate THEN GivenUp(gens[g])
                    ELSE gens[g]]
      BY <1>2 DEF ReprocessFailed
  <2>2. CASE h = ngens + 1
    <3>1. gens'[h].cas = expected
        BY <2>1, <2>2 DEF NewGeneration, Absent
    <3> QED BY <2>2, <3>1, <1>n, PreconditionsMet DEF Evolves, Retired
  <2>3. CASE h # ngens + 1 /\ h = head.candidate
    <3>1. gens[h].status \in Open
        BY <2>3 DEF Coherent, HeadsAgree
    <3>2. gens'[h] = GivenUp(gens[h])
        BY <2>1, <2>3
    <3>3. gens'[h].cas = gens[h].cas
        BY <3>2, <1>0 DEF GivenUp, Generation
    <3> QED BY <3>1, <3>3 DEF Evolves, Retired, Open
  <2>4. CASE h # ngens + 1 /\ h # head.candidate
    <3>1. gens'[h] = gens[h]
        BY <2>1, <2>4
    <3> QED BY <3>1, StillEvolves
  <2> QED BY <2>2, <2>3, <2>4
<1>3. CASE \E e \in 0..MaxGens : ReprocessCompleted(e)
  <2>1. PICK e \in 0..MaxGens : ReprocessCompleted(e)
      BY <1>3
  <2>3. CASE h = ngens + 1
    <3>1. gens'[h] = NewGeneration(job.gen, {e}) /\ e = job.gen
        BY <2>1, <2>3, <1>0 DEF ReprocessCompleted, BindingIs
    <3> QED BY <2>3, <3>1, <1>n DEF NewGeneration, Absent
  <2>4. CASE h # ngens + 1
    <3>1. gens'[h] = gens[h]
        BY <2>1, <2>4, <1>0 DEF ReprocessCompleted
    <3> QED BY <3>1, StillEvolves
  <2> QED BY <2>3, <2>4
<1>4. CASE Delete
  <2>2. gens'[h] = Withdrawn(gens[h])
      BY <1>4 DEF Delete
  <2>3. /\ gens'[h].cas = gens[h].cas
        /\ gens'[h].status = IF gens[h].status \in Resumable THEN "abandoned"
                             ELSE gens[h].status
      BY <2>2, <1>0 DEF Withdrawn, Generation
  <2> QED BY <2>3 DEF Evolves, Retired, Resumable, Open
<1> QED
    BY <1>1, <1>2, <1>3, <1>4 DEF Environment, Age, Reactivate, DeleteTwin, OnlyJob

\* Every step of every actor evolves every row.
LEMMA StepEvolves ==
    ASSUME IndInv, [Next]_vars, NEW h \in GenIds
    PROVE  \/ Evolves(gens[h], gens'[h])
           \/ /\ h = ngens + 1 /\ gens[h].status = "absent"
              /\ gens'[h].cas = {job.gen}
<1>0. TypeOK /\ Coherent
    BY DEF IndInv
<1>1. CASE UNCHANGED gens
    BY <1>1, StillEvolves
<1>2. ASSUME NEW w \in Workers, ClaimNext(w) \/ Crash(w) \/ Start(w)
      PROVE  UNCHANGED gens
    BY <1>2 DEF ClaimNext, Crash, Start, OnlyJob, durable
<1> QED
    BY <1>0, <1>1, <1>2, DispatchEvolves, EnvironmentEvolves DEF Next, vars

\* Nothing un-retires legacy derivations.
LEMMA RetirementStays ==
    ASSUME TypeOK, [Next]_vars, head.retired
    PROVE  head'.retired
<1>0. head \in HeadRow
    BY DEF TypeOK
<1>1. CASE UNCHANGED head
    BY <1>1
<1>2. ASSUME NEW w \in Workers, Dispatch(w)
      PROVE  head'.retired
  <2>1. CASE Admit(w) \/ Publish(w)
      BY <1>0, <2>1 DEF Admit, Publish, Raise, durable, HeadRow
  <2> QED BY <1>1, <1>2, <2>1
         DEF Dispatch, ModelNotReady, FenceFails, Snapshot, GateFails, Classify, RawBaseline,
             Decide, Park, SummaryFails, PersistSummary, Review, ExtractionFails,
             PersistExtraction, Assess, PrepareFts, Enrich, Finish, Resolve,
             FailCurrentClaim, Escape, Recover, RecoverFails, Raise, Fail, OnlyGen,
             OnlyJob, durable
<1>3. ASSUME NEW w \in Workers, ClaimNext(w) \/ Crash(w) \/ Start(w)
      PROVE  head'.retired
    BY <1>3 DEF ClaimNext, Crash, Start, OnlyJob, durable
<1>4. CASE Environment
    BY <1>0, <1>4 DEF Environment, Age, Reactivate, ReprocessFailed, ReprocessCompleted,
                      Delete, ClearedHead, DeleteTwin, OnlyJob, HeadRow
<1> QED
    BY <1>1, <1>2, <1>3, <1>4 DEF Next, vars

\* superseded, failed and abandoned are final, a published generation is only
\* superseded or withdrawn, and no step un-retires legacy derivations: the
\* trigger of derivations/models.py never has to fire.
THEOREM LifecycleMonotone == Spec => LifecycleIsMonotone
<1>1. ASSUME IndInv, [Next]_vars, NEW g \in GenIds
      PROVE  /\ gens[g].status \in Retired => gens'[g].status = gens[g].status
             /\ gens[g].status = "active" =>
                  gens'[g].status \in {"active", "superseded", "abandoned"}
    BY <1>1, StepEvolves DEF Evolves, Retired
<1>2. ASSUME IndInv, [Next]_vars, head.retired
      PROVE  head'.retired
    BY <1>2, RetirementStays DEF IndInv
<1>3. IndInv /\ [Next]_vars =>
        [/\ \A g \in GenIds :
               /\ gens[g].status \in Retired => gens'[g].status = gens[g].status
               /\ gens[g].status = "active" =>
                    gens'[g].status \in {"active", "superseded", "abandoned"}
         /\ head.retired => head'.retired]_vars
    BY <1>1, <1>2
<1> QED
    BY <1>3, Coherence, PTL DEF Spec, LifecycleIsMonotone

\* No binding is spent twice: a retried reprocess that names the binding it saw
\* conflicts instead of creating another generation, whether the job had failed
\* or was completed (admit_generation, admit_completed_generation).
THEOREM LostAcknowledgementIsSafe == Spec => []LostAckIsSafe
<1>1. ASSUME AdmittedOnOlder, IndInv, [Next]_vars, NEW g \in GenIds
      PROVE  /\ \A e \in gens'[g].cas : e < g
             /\ gens'[g].cas = gens[g].cas \/ gens'[g].cas = {ngens}
  <2>1. ngens \in Nat /\ job.gen = ngens
      BY <1>1 DEF IndInv, TypeOK, Coherent, BoundToNewest
  <2>2. CASE Evolves(gens[g], gens'[g])
      BY <1>1, <2>2 DEF Evolves, AdmittedOnOlder
  <2>3. CASE g = ngens + 1 /\ gens'[g].cas = {job.gen}
      BY <2>1, <2>3
  <2> QED BY <1>1, <2>2, <2>3, StepEvolves
<1>2. ASSUME AdmittedOnOlder, LostAckIsSafe, IndInv, [Next]_vars
      PROVE  LostAckIsSafe'
  <2> SUFFICES ASSUME NEW g \in GenIds, NEW h \in GenIds, NEW e,
                      e \in gens'[g].cas, e \in gens'[h].cas
               PROVE  g = h
      BY DEF LostAckIsSafe
  <2>1. ngens \in Nat /\ \A x \in GenIds : x > ngens => gens[x].cas = {}
    <3>1. \A x \in GenIds : x > ngens => gens[x] = Absent
        BY <1>2 DEF IndInv, Coherent, Numbered
    <3> QED BY <1>2, <3>1 DEF IndInv, TypeOK, Absent
  <2>2. ASSUME NEW x \in GenIds, ngens \in gens[x].cas
        PROVE  FALSE
    <3>1. ngens < x
        BY <1>2, <2>2 DEF AdmittedOnOlder
    <3> QED BY <2>1, <2>2, <3>1 DEF GenIds
  <2>3. ASSUME NEW x \in GenIds, gens'[x].cas # gens[x].cas
        PROVE  x = ngens + 1
    <3>1. \/ Evolves(gens[x], gens'[x])
          \/ x = ngens + 1
        BY <1>2, StepEvolves
    <3> QED BY <2>3, <3>1 DEF Evolves
  <2>4. CASE gens'[g].cas = gens[g].cas /\ gens'[h].cas = gens[h].cas
      BY <1>2, <2>4 DEF LostAckIsSafe
  <2>5. CASE gens'[g].cas # gens[g].cas /\ gens'[h].cas # gens[h].cas
      BY <2>3, <2>5
  <2>6. CASE gens'[g].cas # gens[g].cas /\ gens'[h].cas = gens[h].cas
      BY <1>1, <1>2, <2>2, <2>6
  <2>7. CASE gens'[g].cas = gens[g].cas /\ gens'[h].cas # gens[h].cas
      BY <1>1, <1>2, <2>2, <2>7
  <2> QED BY <2>4, <2>5, <2>6, <2>7
<1>3. Init => AdmittedOnOlder /\ LostAckIsSafe
  <2>1. Init => \A g \in GenIds : gens[g].cas = {}
      BY DEF Init, Absent
  <2> QED BY <2>1 DEF AdmittedOnOlder, LostAckIsSafe
<1>4. IndInv /\ AdmittedOnOlder /\ LostAckIsSafe /\ [Next]_vars
        => (AdmittedOnOlder /\ LostAckIsSafe)'
    BY <1>1, <1>2 DEF AdmittedOnOlder
<1> QED
    BY <1>3, <1>4, Coherence, PTL DEF Spec

-----------------------------------------------------------------------------
(***************************************************************************)
(* claimed_at is a fencing token: at most one running dispatch holds the   *)
(* job's, and a dispatch that returns to its loop has settled it.          *)
(***************************************************************************)

\* Steps that give no worker a claim and settle the job's, or leave it alone.
LEMMA TokensKept ==
    ASSUME TypeOK, Tokens, clock' = clock, job'.at = job.at,
           \/ job'.status # "claimed"
           \/ job'.status = job.status /\ job'.att = job.att /\ job'.gen = job.gen,
           \A v \in Workers : pc'[v] \in Busy => pc[v] \in Busy /\ claim'[v] = claim[v]
    PROVE  Tokens'
<1>1. job'.at <= clock'
    BY DEF Tokens
<1>2. ASSUME NEW v \in Workers, pc'[v] \in Busy
      PROVE  /\ claim'[v].at <= clock'
             /\ \A u \in Workers \ {v} : pc'[u] \in Busy => claim'[u].at # claim'[v].at
    BY <1>2 DEF Tokens
<1>3. ASSUME NEW v \in Workers, pc'[v] \in Busy, HoldsJob(v)'
      PROVE  Owns(claim[v])'
    BY <1>3 DEF Tokens, HoldsJob, Owns, OwnsAttempt
<1> QED
    BY <1>1, <1>2, <1>3 DEF Tokens

\* What a dispatch does to its own claim, and to the job's.
LEMMA DispatchSettles ==
    ASSUME TypeOK, NEW w \in Workers, Dispatch(w), ~Admit(w)
    PROVE  /\ pc[w] \in Busy /\ clock' = clock /\ job'.at = job.at
           /\ job' = job \/ job'.status # "claimed"
           /\ pc'[w] # "idle" => claim'[w] = claim[w]
           /\ pc'[w] = "idle" => \/ job'.status # "claimed" \/ pc[w] = "escaped"
                                 \/ job' = job /\ ~Owns(claim[w])
<1>0. /\ pc \in [Workers -> PCs] /\ claim \in [Workers -> Claims] /\ job \in JobRow
    BY DEF TypeOK
<1>b. Busy = {"admit", "snapshot", "gate", "baseline", "decide", "park", "summary",
              "review", "extraction", "assess", "fts", "publish", "enrich", "finish",
              "failing", "resolve", "escaped"}
    BY DEF Busy, Admission, Fenced, Exits
<1>1. ASSUME NEW label, Goto(w, label), label # "idle"
      PROVE  pc'[w] # "idle"
    BY <1>0, <1>1 DEF Goto
<1>2. Return(w) => pc'[w] = "idle"
    BY <1>0 DEF Return, Goto
<1>3. ASSUME NEW r, Raise(w, r) \/ Fail(w, r)
      PROVE  pc'[w] # "idle" /\ UNCHANGED <<job, clock, claim>>
    BY <1>3, <1>1 DEF Raise, Fail, durable
<1>4. CASE ModelNotReady(w) \/ FenceFails(w) \/ GateFails(w) \/ SummaryFails(w)
           \/ ExtractionFails(w)
  <2>1. pc[w] \in Busy
      BY <1>4, <1>b DEF ModelNotReady, FenceFails, Fenced, GateFails, SummaryFails,
                        ExtractionFails
  <2> QED BY <1>3, <1>4, <2>1 DEF ModelNotReady, FenceFails, GateFails, SummaryFails,
                                  ExtractionFails
<1>5. CASE Snapshot(w) \/ Classify(w) \/ Decide(w) \/ Review(w) \/ Assess(w) \/ Escape(w)
  <2>1. pc[w] \in Busy
      BY <1>5, <1>b DEF Snapshot, Classify, Decide, Review, Assess, Escape, Passes
  <2>2. pc'[w] # "idle" /\ UNCHANGED <<job, clock, claim>>
      BY <1>1, <1>3, <1>5 DEF Snapshot, Classify, Decide, Review, Assess, Escape, durable
  <2> QED BY <2>1, <2>2
<1>6. CASE RawBaseline(w) \/ PersistSummary(w) \/ PersistExtraction(w) \/ PrepareFts(w)
           \/ Publish(w) \/ Enrich(w)
  <2>1. pc[w] \in Busy
      BY <1>6, <1>b DEF RawBaseline, PersistSummary, PersistExtraction, PrepareFts,
                        Publish, Enrich, Passes
  <2>2. pc'[w] # "idle" /\ UNCHANGED <<job, clock, claim>>
      BY <1>1, <1>3, <1>6 DEF RawBaseline, PersistSummary, PersistExtraction, PrepareFts,
                              Publish, Enrich, OnlyGen, durable
  <2> QED BY <2>1, <2>2
<1>7. CASE Park(w) \/ Finish(w)
  <2>1. pc[w] \in Busy
      BY <1>7, <1>b DEF Park, Finish, Passes
  <2>2. CASE \E r : Raise(w, r)
      BY <1>3, <2>1, <2>2
  <2>3. CASE OnlyJob /\ Return(w) /\ job'.status # "claimed" /\ job'.at = job.at
      BY <1>2, <2>1, <2>3 DEF OnlyJob
  <2> QED BY <1>0, <1>7, <2>2, <2>3 DEF Park, Finish, JobRow
<1>8. CASE Resolve(w)
  <2>1. pc[w] \in Busy
      BY <1>8, <1>b DEF Resolve
  <2>2. CASE UNCHANGED durable /\ Return(w) /\ ~Owns(claim[w])
      BY <1>2, <2>1, <2>2 DEF durable
  <2>3. CASE UNCHANGED <<durable, claim>> /\ Goto(w, IF ctx[w].replay THEN "escaped" ELSE "snapshot")
      BY <1>1, <2>1, <2>3 DEF durable
  <2>4. CASE OnlyJob /\ Return(w) /\ job'.status # "claimed" /\ job'.at = job.at
      BY <1>2, <2>1, <2>4 DEF OnlyJob
  <2> QED BY <1>0, <1>8, <2>2, <2>3, <2>4 DEF Resolve, JobRow
<1>9. CASE FailCurrentClaim(w) \/ Recover(w) \/ RecoverFails(w)
  <2>1. pc[w] \in Busy
      BY <1>9, <1>b DEF FailCurrentClaim, Recover, RecoverFails
  <2>2. \A r, e : FailedJob(r, e).status # "claimed" /\ FailedJob(r, e).at = job.at
      BY <1>0 DEF FailedJob, JobRow
  <2> QED BY <1>2, <1>9, <2>1, <2>2 DEF FailCurrentClaim, Recover, RecoverFails, OnlyJob, durable
<1> QED
    BY <1>4, <1>5, <1>6, <1>7, <1>8, <1>9 DEF Dispatch

\* Admission binds the claim to the job's generation: only the holder's.
LEMMA AdmitTokens ==
    ASSUME TypeOK, Tokens, NEW w \in Workers, Admit(w)
    PROVE  Tokens'
<1>0. /\ claim \in [Workers -> Claims] /\ job \in JobRow /\ pc \in [Workers -> PCs]
    BY DEF TypeOK
<1>1. pc[w] \in Busy /\ clock' = clock
    BY DEF Admit, Raise, durable, Busy, Admission
<1>2. \A v \in Workers \ {w} : pc'[v] = pc[v] /\ claim'[v] = claim[v]
  <2>1. Dispatch(w)
      BY DEF Dispatch
  <2> QED BY <2>1, OthersKeepControl
<1>3. CASE UNCHANGED durable /\ claim' = claim
    BY <1>1, <1>2, <1>3, TokensKept DEF durable
<1>4. CASE /\ AdmissionReason(claim[w]) = "ok"
           /\ \E n \in Nat : /\ claim' = [claim EXCEPT ![w].gen = n]
                             /\ job' = [job EXCEPT !.gen = n]
  <2>1. OwnsAttempt(claim[w])
      BY <1>4 DEF AdmissionReason
  <2>2. /\ job'.status = job.status /\ job'.at = job.at /\ job'.att = job.att
        /\ claim'[w].at = claim[w].at /\ claim'[w].att = claim[w].att
        /\ claim'[w].gen = job'.gen
      BY <1>0, <1>4 DEF JobRow, Claims
  <2>3. \A v \in Workers : pc'[v] \in Busy => pc[v] \in Busy /\ claim'[v].at = claim[v].at
      BY <1>1, <1>2, <2>2
  <2>4. ASSUME NEW v \in Workers, pc'[v] \in Busy
        PROVE  /\ claim'[v].at <= clock'
               /\ \A u \in Workers \ {v} : pc'[u] \in Busy => claim'[u].at # claim'[v].at
      BY <1>1, <2>3, <2>4 DEF Tokens
  <2>5. ASSUME NEW v \in Workers, pc'[v] \in Busy, HoldsJob(v)'
        PROVE  Owns(claim[v])'
    <3>1. CASE v = w
        BY <2>1, <2>2, <3>1 DEF Owns, OwnsAttempt
    <3>2. CASE v # w
      <4>1. claim[v].at = claim[w].at
          BY <1>2, <2>1, <2>2, <2>5, <3>2 DEF HoldsJob, OwnsAttempt
      <4> QED BY <1>1, <2>3, <2>5, <3>2, <4>1 DEF Tokens
    <3> QED BY <3>1, <3>2
  <2>6. job'.at <= clock'
      BY <1>1, <2>2 DEF Tokens
  <2> QED BY <2>4, <2>5, <2>6 DEF Tokens
<1>5. CASE /\ AdmissionReason(claim[w]) = "ok" /\ UNCHANGED durable
           /\ claim' = [claim EXCEPT ![w].gen = job.gen]
  <2>1. job' = [job EXCEPT !.gen = job.gen] /\ job.gen \in Nat
      BY <1>0, <1>5 DEF durable, JobRow
  <2> QED BY <1>4, <1>5, <2>1
<1>6. CASE /\ AdmissionReason(claim[w]) = "ok" /\ ngens' = ngens + 1
           /\ job' = [job EXCEPT !.gen = ngens + 1]
           /\ claim' = [claim EXCEPT ![w].gen = ngens + 1]
  <2>1. ngens + 1 \in Nat
      BY DEF TypeOK
  <2> QED BY <1>4, <1>6, <2>1
<1> QED
    BY <1>3, <1>5, <1>6 DEF Admit, Raise

\* A new claim is newer than every other one.
LEMMA ClaimTokens ==
    ASSUME TypeOK, Tokens, NEW w \in Workers, ClaimNext(w)
    PROVE  Tokens'
<1>0. /\ claim \in [Workers -> Claims] /\ job \in JobRow /\ pc \in [Workers -> PCs]
      /\ clock \in Nat
    BY DEF TypeOK
<1>1. /\ clock' = clock + 1 /\ job'.at = clock + 1 /\ job'.att = job.att + 1
      /\ job'.gen = job.gen /\ job'.status = "claimed"
    BY <1>0 DEF ClaimNext, JobRow
<1>2. claim'[w] = [att |-> job.att + 1, at |-> clock + 1, gen |-> job.gen]
    BY <1>0 DEF ClaimNext
<1>3. \A v \in Workers \ {w} : pc'[v] = pc[v] /\ claim'[v] = claim[v]
    BY OthersKeepControl
<1>4. \A v \in Workers \ {w} : pc'[v] \in Busy => claim'[v].at <= clock /\ claim'[v].at \in Nat
    BY <1>0, <1>3 DEF Tokens, Claims
<1>5. ASSUME NEW v \in Workers, pc'[v] \in Busy
      PROVE  /\ claim'[v].at <= clock'
             /\ \A u \in Workers \ {v} : pc'[u] \in Busy => claim'[u].at # claim'[v].at
  <2>1. CASE v = w
      BY <1>0, <1>1, <1>2, <1>4, <2>1
  <2>2. CASE v # w
    <3>1. \A u \in Workers \ {v, w} : pc'[u] \in Busy => claim'[u].at # claim'[v].at
        BY <1>3, <1>5, <2>2 DEF Tokens
    <3> QED BY <1>0, <1>1, <1>2, <1>4, <1>5, <2>2, <3>1
  <2> QED BY <2>1, <2>2
<1>6. ASSUME NEW v \in Workers, pc'[v] \in Busy, HoldsJob(v)'
      PROVE  Owns(claim[v])'
  <2>1. v = w
      BY <1>0, <1>1, <1>4, <1>6 DEF HoldsJob
  <2> QED BY <1>1, <1>2, <2>1 DEF Owns, OwnsAttempt
<1> QED
    BY <1>0, <1>1, <1>5, <1>6 DEF Tokens

\* claimed_at stays a fencing token under every step of every actor.
LEMMA TokensStep ==
    ASSUME TypeOK, Tokens, [Next]_vars
    PROVE  Tokens'
<1>0. /\ claim \in [Workers -> Claims] /\ job \in JobRow /\ pc \in [Workers -> PCs]
    BY DEF TypeOK
<1>1. CASE UNCHANGED vars
    BY <1>1, TokensKept DEF vars
<1>2. ASSUME NEW w \in Workers, Dispatch(w)
      PROVE  Tokens'
  <2>1. CASE Admit(w)
      BY <2>1, AdmitTokens
  <2>2. CASE ~Admit(w)
    <3>1. \A v \in Workers \ {w} : pc'[v] = pc[v] /\ claim'[v] = claim[v]
        BY <1>2, OthersKeepControl
    <3>2. /\ pc[w] \in Busy /\ clock' = clock /\ job'.at = job.at
          /\ job' = job \/ job'.status # "claimed"
          /\ pc'[w] # "idle" => claim'[w] = claim[w]
        BY <1>2, <2>2, DispatchSettles
    <3>3. "idle" \notin Busy
        BY DEF Busy, Admission, Fenced, Exits
    <3>4. \A v \in Workers : pc'[v] \in Busy => pc[v] \in Busy /\ claim'[v] = claim[v]
        BY <3>1, <3>2, <3>3
    <3> QED BY <3>2, <3>4, TokensKept
  <2> QED BY <2>1, <2>2
<1>3. ASSUME NEW w \in Workers, Crash(w) \/ Start(w)
      PROVE  Tokens'
  <2>1. \A v \in Workers \ {w} : pc'[v] = pc[v] /\ claim'[v] = claim[v]
      BY <1>3, OthersKeepControl
  <2>2. pc'[w] \notin Busy
      BY <1>0, <1>3 DEF Crash, Start, Goto, Busy, Admission, Fenced, Exits
  <2>3. /\ clock' = clock /\ job'.at = job.at
        /\ job' = job \/ job'.status # "claimed"
      BY <1>0, <1>3 DEF Crash, Start, IsStale, OnlyJob, durable, JobRow
  <2> QED BY <2>1, <2>2, <2>3, TokensKept
<1>4. CASE Environment
  <2>1. UNCHANGED local /\ clock' = clock
      BY <1>4 DEF Environment, Age, Reactivate, ReprocessFailed, ReprocessCompleted,
                  Delete, DeleteTwin, OnlyJob
  <2>2. /\ job'.at = job.at
        /\ \/ job'.status # "claimed"
           \/ job'.status = job.status /\ job'.att = job.att /\ job'.gen = job.gen
      BY <1>0, <1>4 DEF Environment, Age, Reactivate, ReprocessFailed, ReprocessCompleted,
                        Delete, DeleteTwin, Requeued, JobRow
  <2> QED BY <2>1, <2>2, TokensKept DEF local
<1> QED
    BY <1>1, <1>2, <1>3, <1>4, ClaimTokens DEF Next

\* A dispatch of managed_dispatcher.py that returns to worker/loop.py has
\* settled the claim it took, or lost it to someone else; the job is never left
\* claimed by nobody unless the recovery transaction itself fails.
THEOREM DispatchSettlesClaim == Spec => ClaimIsSettled
<1>1. Init => Tokens
    BY DEF Init, Tokens, Busy, Admission, Fenced, Exits
<1>2. TypeOK /\ Tokens /\ [Next]_vars => Tokens'
    BY TokensStep
<1>3. ASSUME TypeOK, Tokens, [Next]_vars, NEW w \in Workers,
             pc[w] \in Busy \ {"escaped"}, pc'[w] = "idle"
      PROVE  ~(job'.status = "claimed" /\ job'.at = claim[w].at)
  <2>1. pc'[w] # pc[w]
      BY <1>3 DEF Busy, Admission, Fenced, Exits
  <2>2. PICK v \in Workers : ClaimNext(v) \/ Dispatch(v) \/ Crash(v) \/ Start(v)
      BY <1>3, <2>1 DEF Next, vars, Environment, Age, Reactivate, ReprocessFailed,
                        ReprocessCompleted, Delete, DeleteTwin, local
  <2>3. v = w
      BY <1>3, <2>1, <2>2, OthersKeepControl
  <2>4. ~ClaimNext(w) /\ ~Start(w) /\ ~Crash(w)
      BY <1>3 DEF ClaimNext, Start, Crash, Goto, Busy, Admission, Fenced, Exits, TypeOK
  <2>5. ~Admit(w)
      BY <1>3 DEF Admit, Raise, Goto, TypeOK
  <2>6. \/ job'.status # "claimed"
        \/ job' = job /\ ~Owns(claim[w])
      BY <1>3, <2>2, <2>3, <2>4, <2>5, DispatchSettles
  <2> QED BY <1>3, <2>6 DEF Tokens, HoldsJob
<1>4. TypeOK /\ Tokens /\ [Next]_vars =>
        [\A w \in Workers :
           pc[w] \in Busy \ {"escaped"} /\ pc'[w] = "idle"
             => ~(job'.status = "claimed" /\ job'.at = claim[w].at)]_vars
    BY <1>3
<1> QED
    BY <1>1, <1>2, <1>4, TypeCorrect, PTL DEF Spec, ClaimIsSettled

-----------------------------------------------------------------------------
(***************************************************************************)
(* The coordinator implements PublishedMemory: what visibility.current     *)
(* shows of a source changes only by publication of a later, complete      *)
(* generation, by a tombstone or by deletion.                              *)
(***************************************************************************)

\* Rows of the published generation keep their outputs: the view stutters.
LEMMA ViewStutters ==
    ASSUME IndInv, UNCHANGED <<source, head>>,
           head.active # NoGen =>
             /\ gens'[head.active].sum = gens[head.active].sum
             /\ gens'[head.active].ext = gens[head.active].ext
    PROVE  UNCHANGED Readers!vars
BY DEF Readers!vars

\* The published generation is a row of the table with complete outputs.
LEMMA ActiveRow ==
    ASSUME IndInv, head.active # NoGen
    PROVE  /\ head.active \in GenIds
           /\ gens[head.active] \in Generation
           /\ gens[head.active].status = "active"
           /\ gens[head.active].sum # "none" /\ gens[head.active].ext # "none"
<1>1. head.active \in GenIds
    BY ConstantsAssumption DEF IndInv, TypeOK, HeadRow, GenIds
<1>2. gens[head.active].status = "active" /\ gens[head.active] \in Generation
    BY <1>1 DEF IndInv, TypeOK, Coherent, HeadsAgree
<1>3. gens[head.active].sum # "none" /\ gens[head.active].ext # "none"
    BY <1>1, <1>2 DEF IndInv, Coherent, PublishedComplete
<1> QED
    BY <1>1, <1>2, <1>3

\* Steps that leave the head and the published row alone are invisible.
LEMMA HiddenStep ==
    ASSUME IndInv, UNCHANGED <<source, head>>,
           \/ UNCHANGED gens
           \/ \E g \in GenIds, row \in Generation :
                /\ gens' = [gens EXCEPT ![g] = row]
                /\ gens[g].status = "active" =>
                     row.sum = gens[g].sum /\ row.ext = gens[g].ext
    PROVE  UNCHANGED Readers!vars
<1>1. CASE UNCHANGED gens
    BY <1>1, ViewStutters
<1>2. ASSUME NEW g \in GenIds, NEW row \in Generation,
             gens' = [gens EXCEPT ![g] = row],
             gens[g].status = "active" =>
               row.sum = gens[g].sum /\ row.ext = gens[g].ext,
             head.active # NoGen
      PROVE  /\ gens'[head.active].sum = gens[head.active].sum
             /\ gens'[head.active].ext = gens[head.active].ext
  <2>1. head.active \in GenIds /\ gens[head.active].status = "active"
      BY <1>2, ActiveRow
  <2>2. gens'[head.active] = IF head.active = g THEN row ELSE gens[head.active]
      BY <1>2, <2>1 DEF IndInv, TypeOK
  <2> QED BY <1>2, <2>1, <2>2
<1> QED
    BY <1>1, <1>2, ViewStutters

\* A stage may only write into a generation that is not published yet.
LEMMA StagesAreHidden ==
    ASSUME IndInv, NEW w \in Workers,
           \/ PersistSummary(w) \/ PersistExtraction(w) \/ PrepareFts(w) \/ Enrich(w)
    PROVE  UNCHANGED Readers!vars
<1> DEFINE g == claim[w].gen
<1>0. TypeOK /\ Coherent
    BY DEF IndInv
<1>1. Context(w) = "ok"
    BY DEF PersistSummary, PersistExtraction, PrepareFts, Enrich, Passes
<1>2. g \in GenIds /\ gens[g] \in Generation
    BY <1>0, <1>1, ContextOk DEF TypeOK
<1>3. ASSUME NEW row, OnlyGen(g, row), row \in Generation,
             gens[g].status = "active" => row.sum = gens[g].sum /\ row.ext = gens[g].ext
      PROVE  UNCHANGED Readers!vars
    BY <1>2, <1>3, HiddenStep DEF OnlyGen
<1>4. CASE UNCHANGED durable
    BY <1>4, HiddenStep DEF durable
<1>5. /\ gens[g].status = "active" => gens[g].sum # "none" /\ gens[g].ext # "none"
    BY <1>0, <1>2 DEF Coherent, PublishedComplete
<1>6. CASE PersistSummary(w)
  <2>1. ASSUME NEW o \in SummaryResults(w), gens[g].sum = "none",
               OnlyGen(g, [gens[g] EXCEPT !.sum = o])
        PROVE  UNCHANGED Readers!vars
    <3>1. o \in SummaryOutcome
        BY <2>1 DEF SummaryResults, SummaryOutcome
    <3>2. [gens[g] EXCEPT !.sum = o] \in Generation
        BY <1>2, <3>1 DEF Generation
    <3> QED BY <1>3, <1>5, <2>1, <3>2
  <2> QED BY <1>4, <1>6, <2>1 DEF PersistSummary, Raise
<1>7. CASE PersistExtraction(w)
  <2>1. ASSUME NEW o \in ExtractionOutcome, gens[g].ext = "none",
               OnlyGen(g, [gens[g] EXCEPT !.ext = o])
        PROVE  UNCHANGED Readers!vars
    <3>1. [gens[g] EXCEPT !.ext = o] \in Generation
        BY <1>2, <2>1 DEF Generation
    <3> QED BY <1>3, <1>5, <2>1, <3>1
  <2>2. (IF "ext" \in ctx[w].allowed THEN "succeeded" ELSE "policy_skipped") \in ExtractionOutcome
      BY DEF ExtractionOutcome
  <2> QED BY <1>4, <1>7, <2>1, <2>2 DEF PersistExtraction, Raise
<1>8. CASE PrepareFts(w)
  <2>1. ASSUME gens[g].status = "building",
               OnlyGen(g, [gens[g] EXCEPT !.proj = "active", !.status = "prepared"])
        PROVE  UNCHANGED Readers!vars
    <3>1. "prepared" \in GenStatus /\ "active" \in ProjectionStatus
        BY DEF GenStatus, Resumable, Open, ProjectionStatus
    <3>2. [gens[g] EXCEPT !.proj = "active", !.status = "prepared"] \in Generation
        BY <1>2, <3>1 DEF Generation
    <3> QED BY <1>3, <2>1, <3>2
  <2> QED BY <1>4, <1>8, <2>1 DEF PrepareFts, Raise
<1>9. CASE Enrich(w)
  <2>1. ASSUME NEW o \in BOOLEAN, OnlyGen(g, [gens[g] EXCEPT !.emb = @ \/ o])
        PROVE  UNCHANGED Readers!vars
    <3>1. [gens[g] EXCEPT !.emb = @ \/ o] \in Generation
        BY <1>2 DEF Generation
    <3>2. /\ [gens[g] EXCEPT !.emb = @ \/ o].sum = gens[g].sum
          /\ [gens[g] EXCEPT !.emb = @ \/ o].ext = gens[g].ext
        BY <1>2 DEF Generation
    <3> QED BY <1>3, <2>1, <3>1, <3>2
  <2> QED BY <1>4, <1>9, <2>1 DEF Enrich, Raise
<1> QED
    BY <1>6, <1>7, <1>8, <1>9

\* publish_generation is the abstract Publish, or nothing.
LEMMA PublishIsVisible ==
    ASSUME IndInv, NEW w \in Workers, Publish(w)
    PROVE  Readers!Publish \/ UNCHANGED Readers!vars
<1> DEFINE g == claim[w].gen
<1>0. TypeOK /\ Coherent
    BY DEF IndInv
<1>1. CASE UNCHANGED <<source, head, gens>>
    BY <1>1, HiddenStep
<1>2. CASE /\ Validation(g) = "ok" /\ gens[g].status # "active"
           /\ gens' = [h \in GenIds |->
                         IF h = g THEN [gens[h] EXCEPT !.status = "active"]
                         ELSE IF h = head.active
                           THEN [gens[h] EXCEPT !.status = "superseded"]
                         ELSE gens[h]]
           /\ head' = [active |-> g, candidate |-> NoGen, retired |-> TRUE]
           /\ UNCHANGED source
  <2>1. Context(w) = "ok"
      BY DEF Publish, Passes
  <2>2. g \in GenIds /\ Live /\ Attached(g) /\ gens[g] \in Generation
      BY <2>1, <1>0, ContextOk DEF TypeOK
  <2>3. head.candidate = g /\ g # head.active
      BY <1>0, <1>2, <2>2 DEF Attached, Coherent, HeadsAgree
  <2>4. g = ngens /\ head.active <= ngens /\ head.active \in 0..MaxGens /\ g # NoGen
      BY <1>0, <2>2, <2>3, ConstantsAssumption
      DEF Coherent, Succession, TypeOK, HeadRow, GenIds
  <2>5. g > head.active /\ g \in 1..MaxGens
      BY <2>2, <2>3, <2>4, ConstantsAssumption DEF GenIds, TypeOK
  <2>6. gens[g].sum # "none" /\ gens[g].ext # "none"
      BY <1>2 DEF Validation
  <2>7. gens[g].sum \in SummaryOutcome /\ gens[g].ext \in ExtractionOutcome
      BY <2>2, <2>6 DEF Generation
  <2>8. gens'[g].sum = gens[g].sum /\ gens'[g].ext = gens[g].ext
    <3>1. gens'[g] = [gens[g] EXCEPT !.status = "active"]
        BY <1>2, <2>2
    <3> QED BY <3>1, <2>2 DEF Generation
  <2>9. head'.active = g /\ head'.active # NoGen /\ head'.retired
      BY <1>2, <2>4
  <2> QED BY <1>2, <2>2, <2>5, <2>7, <2>8, <2>9 DEF Readers!Publish, Readers!Outputs, Live
<1> QED
    BY <1>1, <1>2 DEF Publish, Raise, durable

\* Every step of a dispatch is a publication or invisible.
LEMMA DispatchIsVisible ==
    ASSUME IndInv, NEW w \in Workers, Dispatch(w)
    PROVE  Readers!Publish \/ UNCHANGED Readers!vars
<1>0. TypeOK /\ Coherent
    BY DEF IndInv
<1>1. CASE UNCHANGED <<source, head, gens>>
    BY <1>1, HiddenStep
<1>2. CASE Admit(w)
  <2>1. CASE /\ job.gen = NoGen /\ ngens < MaxGens /\ UNCHANGED source
             /\ gens' = [gens EXCEPT ![ngens + 1] = NewGeneration(head.active, {})]
             /\ head' = [head EXCEPT !.candidate = ngens + 1]
    <3>1. head'.active = head.active /\ head'.retired = head.retired
        BY <2>1, <1>0 DEF TypeOK, HeadRow
    <3>2. head.active = NoGen
        BY <2>1, <1>0, ConstantsAssumption
        DEF Coherent, BoundToNewest, Succession, TypeOK, HeadRow
    <3> QED BY <2>1, <3>1, <3>2 DEF Readers!vars
  <2> QED BY <1>1, <1>2, <2>1 DEF Admit, Raise, durable
<1>3. CASE PersistSummary(w) \/ PersistExtraction(w) \/ PrepareFts(w) \/ Enrich(w)
    BY <1>3, StagesAreHidden
<1>4. CASE Publish(w)
    BY <1>4, PublishIsVisible
<1> QED
    BY <1>1, <1>2, <1>3, <1>4
       DEF Dispatch, ModelNotReady, FenceFails, Snapshot, GateFails, Classify, RawBaseline,
           Decide, Park, SummaryFails, Review, ExtractionFails, Assess, Finish, Resolve,
           FailCurrentClaim, Escape, Recover, RecoverFails, Raise, Fail, OnlyJob, durable

\* A new candidate is invisible: the published generation stays what it was.
LEMMA CandidateIsHidden ==
    ASSUME IndInv, NEW n \in GenIds, n > ngens, UNCHANGED source,
           head' = [head EXCEPT !.candidate = n],
           \A g \in GenIds \ {n, head.candidate} : gens'[g] = gens[g]
    PROVE  UNCHANGED Readers!vars
<1>1. head'.active = head.active /\ head'.retired = head.retired
    BY DEF IndInv, TypeOK, HeadRow
<1>2. head.active # NoGen => gens'[head.active] = gens[head.active]
  <2> SUFFICES ASSUME head.active # NoGen
               PROVE  head.active \in GenIds \ {n, head.candidate}
      OBVIOUS
  <2>1. head.active \in GenIds /\ gens[head.active].status = "active"
      BY ActiveRow
  <2>2. head.active # head.candidate
      BY <2>1 DEF IndInv, Coherent, HeadsAgree, Open
  <2>3. head.active # n
      BY DEF IndInv, Coherent, Succession, TypeOK, HeadRow, GenIds
  <2> QED BY <2>1, <2>2, <2>3
<1> QED
    BY <1>1, <1>2 DEF Readers!vars

\* Requests are invisible; a deletion withdraws, a twin's tombstone seals.
LEMMA EnvironmentIsVisible ==
    ASSUME IndInv, Environment
    PROVE  Readers!Seal \/ Readers!Withdraw \/ UNCHANGED Readers!vars
<1>0. TypeOK /\ Coherent
    BY DEF IndInv
<1>1. CASE Age \/ Reactivate
    BY <1>1, HiddenStep DEF Age, Reactivate, OnlyJob
<1>2. CASE ReprocessFailed
  <2>1. ngens + 1 \in GenIds /\ ngens + 1 > ngens
      BY <1>0, <1>2, ConstantsAssumption DEF ReprocessFailed, TypeOK, GenIds
  <2> QED BY <1>2, <2>1, CandidateIsHidden DEF ReprocessFailed
<1>3. CASE \E e \in 0..MaxGens : ReprocessCompleted(e)
  <2>1. ngens + 1 \in GenIds /\ ngens + 1 > ngens
      BY <1>0, <1>3, ConstantsAssumption DEF ReprocessCompleted, TypeOK, GenIds
  <2> QED BY <1>0, <1>3, <2>1, CandidateIsHidden DEF ReprocessCompleted, TypeOK
<1>4. CASE Delete
    BY <1>0, <1>4 DEF Delete, ClearedHead, TypeOK, HeadRow, SourceRow,
                      Readers!Withdraw, Readers!Nothing
<1>5. CASE DeleteTwin
    BY <1>0, <1>5 DEF DeleteTwin, TypeOK, SourceRow, Readers!Seal
<1> QED
    BY <1>1, <1>2, <1>3, <1>4, <1>5 DEF Environment

\* The coordinator implements the promise to readers: one published generation
\* at a time, complete, replaced in one step by a later one, legacy rows gone
\* for good after the first publication, and nothing after deletion.
THEOREM ReadersAreServed == Spec => ReadersSpec
<1>1. Init => Readers!Init
    BY DEF Init, Readers!Init, Readers!Nothing
<1>2. IndInv /\ [Next]_vars => [Readers!Next]_(Readers!vars)
  <2> SUFFICES ASSUME IndInv, [Next]_vars
               PROVE  Readers!Next \/ UNCHANGED Readers!vars
      OBVIOUS
  <2>1. CASE UNCHANGED <<source, head, gens>>
      BY <2>1, HiddenStep
  <2>2. ASSUME NEW w \in Workers, ClaimNext(w) \/ Crash(w) \/ Start(w)
        PROVE  UNCHANGED <<source, head, gens>>
      BY <2>2 DEF ClaimNext, Crash, Start, OnlyJob, durable
  <2> QED BY <2>1, <2>2, DispatchIsVisible, EnvironmentIsVisible
          DEF Next, vars, Readers!Next
<1> QED
    BY <1>1, <1>2, Coherence, PTL DEF Spec, ReadersSpec, Readers!Spec

\* Once the source is deleted or its content tombstoned, nothing more is
\* published for it, however late the publishing worker is.
THEOREM RemovalStopsPublication == Spec => NoPublicationAfterRemoval
<1>1. ASSUME IndInv, [Next]_vars, source.deleted \/ source.twin
      PROVE  head'.active \in {head.active, NoGen}
  <2>1. CASE UNCHANGED Readers!vars \/ Readers!Seal \/ Readers!Withdraw
      BY <2>1 DEF Readers!vars, Readers!Seal, Readers!Withdraw
  <2>2. CASE UNCHANGED <<source, head, gens>>
      BY <2>2
  <2>3. ASSUME NEW w \in Workers, ClaimNext(w) \/ Crash(w) \/ Start(w)
        PROVE  UNCHANGED head
      BY <2>3 DEF ClaimNext, Crash, Start, OnlyJob, durable
  <2>4. ~Readers!Publish
      BY <1>1 DEF Readers!Publish
  <2> QED BY <1>1, <2>1, <2>2, <2>3, <2>4, DispatchIsVisible, EnvironmentIsVisible
          DEF Next, vars
<1>2. IndInv /\ [Next]_vars =>
        [source.deleted \/ source.twin => head'.active \in {head.active, NoGen}]_vars
    BY <1>1
<1> QED
    BY <1>2, Coherence, PTL DEF Spec, NoPublicationAfterRemoval


-----------------------------------------------------------------------------
(***************************************************************************)
(* Why a verdict is true: a conflict that ends a job names something that  *)
(* is so.  The stages of a dispatch are followed only as long as its claim *)
(* stands (Holds), because nobody else changes the rows meanwhile.         *)
(***************************************************************************)

\* A worker that holds its claim of an admitted job passes the fence.
LEMMA HoldsPasses ==
    ASSUME IndInv, NEW w \in Workers, Holds(w), claim[w].gen # NoGen
    PROVE  /\ Context(w) = "ok" /\ job.gen = claim[w].gen
           /\ claim[w].gen \in GenIds
           /\ gens[claim[w].gen].status \in Resumable
           /\ ~source.deleted
<1> DEFINE g == claim[w].gen
<1>1. /\ Owns(claim[w]) /\ job.gen = g /\ Live /\ ~source.deleted
    BY DEF Holds, Owns, Live
<1>2. g = ngens /\ g \in GenIds
    BY <1>1, ConstantsAssumption DEF IndInv, Coherent, BoundToNewest, TypeOK, Claims, GenIds
<1>3. gens[g].status \in Resumable
    BY <1>1, <1>2 DEF IndInv, Coherent, BoundToNewest
<1>4. gens[g].status \notin Retired /\ gens[g].status # "absent"
    BY <1>3 DEF Resumable, Open, Retired
<1>5. Attached(g)
    BY <1>2, <1>3 DEF Attached, IndInv, Coherent, HeadsAgree, Resumable
<1>6. StateReason(claim[w], g) = "ok"
    BY <1>1, <1>4, <1>5 DEF StateReason
<1> QED
    BY <1>1, <1>2, <1>3, <1>6 DEF Context

\* Admission rejects no claim that stands.
LEMMA AdmissionAccepts ==
    ASSUME IndInv, NEW w \in Workers, Holds(w)
    PROVE  AdmissionReason(claim[w]) = "ok"
<1>1. OwnsAttempt(claim[w]) /\ Live /\ ~source.deleted /\ job.gen = ngens
    BY DEF Holds, Owns, Live, IndInv, Coherent, BoundToNewest
<1>2. CASE job.gen # NoGen
  <2>1. job.gen \in GenIds
      BY <1>1, <1>2, ConstantsAssumption DEF IndInv, TypeOK, JobRow, GenIds, NoGen
  <2>2. gens[job.gen].status \in Resumable
      BY <1>1, <1>2 DEF IndInv, Coherent, BoundToNewest
  <2>3. Attached(job.gen)
      BY <2>1, <2>2 DEF Attached, IndInv, Coherent, HeadsAgree, Resumable
  <2> QED BY <1>1, <1>2, <2>2, <2>3 DEF AdmissionReason
<1>3. CASE job.gen = NoGen
  <2>1. head.candidate = NoGen
      BY <1>1, <1>3 DEF IndInv, Coherent, Succession
  <2> QED BY <1>1, <1>3, <2>1 DEF AdmissionReason
<1> QED
    BY <1>2, <1>3

\* A claim that stands after another actor's step stood before it, and the
\* generations are as they were.
LEMMA OthersLeaveHolder ==
    ASSUME TypeOK, Tokens, [Next]_vars, NEW w \in Workers, pc[w] \in Busy,
           claim'[w] = claim[w],
           ~Dispatch(w), ~ClaimNext(w), ~Start(w), ~Crash(w),
           Holds(w)'
    PROVE  Holds(w) /\ gens' = gens
<1>0. /\ claim \in [Workers -> Claims] /\ job \in JobRow /\ clock \in Nat
    BY DEF TypeOK
<1>1. OwnsAttempt(claim[w])' /\ ~source'.deleted /\ ~source'.twin
    BY DEF Holds, Owns, OwnsAttempt, Live
<1>2. job'.status = "claimed" /\ job'.at = claim[w].at /\ job'.att = claim[w].att
    BY <1>1 DEF OwnsAttempt
<1>3. CASE UNCHANGED durable
    BY <1>3 DEF durable, Holds, Owns, OwnsAttempt, Live
<1>4. ASSUME NEW v \in Workers \ {w}, Dispatch(v)
      PROVE  UNCHANGED durable
  <2>1. pc[v] \in Busy /\ job'.at = job.at /\ job'.att = job.att /\ job.status = "claimed"
    <3>1. CASE Admit(v)
      <4>1. pc[v] \in Busy
          BY <3>1 DEF Admit, Busy, Admission
      <4>2. job' = job \/ job' = [job EXCEPT !.gen = ngens + 1]
          BY <3>1 DEF Admit, Raise, durable
      <4> QED BY <1>0, <1>2, <4>1, <4>2 DEF JobRow
    <3>2. CASE ~Admit(v)
        BY <1>2, <1>4, <3>2, DispatchSettles
    <3> QED BY <3>1, <3>2
  <2>2. claim[v].at # claim[w].at
      BY <1>4, <2>1 DEF Tokens
  <2>3. ~OwnsAttempt(claim[v])
      BY <1>2, <2>1, <2>2 DEF OwnsAttempt
  <2> QED BY <1>4, <2>3, WritesAreFenced
<1>5. ASSUME NEW v \in Workers, ClaimNext(v)
      PROVE  FALSE
  <2>1. job'.at = clock + 1 /\ claim[w].at <= clock /\ claim[w].at \in Nat
      BY <1>0, <1>5 DEF ClaimNext, Tokens, Claims, JobRow
  <2> QED BY <1>0, <1>2, <2>1
<1>6. ASSUME NEW v \in Workers, Crash(v) \/ Start(v)
      PROVE  UNCHANGED durable
  <2>1. CASE Crash(v)
      BY <2>1 DEF Crash
  <2>2. CASE Start(v)
    <3>1. job' = job \/ job'.status = "pending"
        BY <1>0, <2>2 DEF Start, JobRow
    <3>2. job' = job
        BY <1>2, <3>1
    <3> QED BY <2>2, <3>2 DEF Start, OnlyJob, durable
  <2> QED BY <1>6, <2>1, <2>2
<1>7. CASE Environment
  <2>1. ~Delete /\ ~DeleteTwin
      BY <1>1 DEF Delete, DeleteTwin, TypeOK, SourceRow
  <2>2. ~Reactivate /\ ~ReprocessFailed /\ \A e : ~ReprocessCompleted(e)
      BY <1>0, <1>2 DEF Reactivate, ReprocessFailed, ReprocessCompleted, Requeued, JobRow
  <2>3. Age
      BY <1>7, <2>1, <2>2 DEF Environment
  <2>4. /\ job'.status = job.status /\ job'.at = job.at /\ job'.att = job.att
        /\ job'.gen = job.gen /\ UNCHANGED <<gens, source>>
      BY <1>0, <2>3 DEF Age, OnlyJob, JobRow
  <2> QED BY <2>4 DEF Holds, Owns, OwnsAttempt, Live
<1>8. CASE UNCHANGED vars
    BY <1>3, <1>8 DEF vars, durable
<1> QED
    BY <1>3, <1>4, <1>5, <1>6, <1>7, <1>8 DEF Next


\* Only a removal makes rows "source_removed", and a generation that is being
\* built has no projection.
LEMMA SearchableStep ==
    ASSUME IndInv, Searchable, [Next]_vars
    PROVE  Searchable'
<1>0. /\ gens \in [GenIds -> Generation] /\ ngens \in 0..MaxGens /\ source \in SourceRow
      /\ claim \in [Workers -> Claims] /\ baseline \in ProjectionStatus
    BY DEF IndInv, TypeOK
<1>1. CASE UNCHANGED <<source, gens, baseline>>
    BY <1>1 DEF Searchable
<1>2. ASSUME NEW w \in Workers, ClaimNext(w) \/ Crash(w) \/ Start(w)
      PROVE  Searchable'
    BY <1>1, <1>2 DEF ClaimNext, Crash, Start, OnlyJob, durable
<1>3. \A w \in Workers : \A r : Raise(w, r) \/ Fail(w, r) => UNCHANGED <<source, gens, baseline>>
    BY DEF Raise, Fail, durable
<1>4. ASSUME NEW w \in Workers,
             \/ ModelNotReady(w) \/ FenceFails(w) \/ Snapshot(w) \/ GateFails(w) \/ Classify(w)
             \/ Decide(w) \/ Park(w) \/ SummaryFails(w) \/ Review(w) \/ ExtractionFails(w)
             \/ Assess(w) \/ Finish(w) \/ Resolve(w) \/ FailCurrentClaim(w) \/ Escape(w)
             \/ Recover(w) \/ RecoverFails(w)
      PROVE  Searchable'
    BY <1>1, <1>3, <1>4
       DEF ModelNotReady, FenceFails, Snapshot, GateFails, Classify, Decide, Park, SummaryFails,
           Review, ExtractionFails, Assess, Finish, Resolve, FailCurrentClaim, Escape, Recover,
           RecoverFails, OnlyJob, durable
<1>5. ASSUME NEW w \in Workers, Admit(w)
      PROVE  Searchable'
  <2>1. CASE gens' = [gens EXCEPT ![ngens + 1] = NewGeneration(head.active, {})]
             /\ UNCHANGED <<source, baseline>>
      BY <1>0, <2>1 DEF Searchable, NewGeneration, Absent
  <2> QED BY <1>1, <1>3, <1>5, <2>1 DEF Admit, durable
<1>6. ASSUME NEW w \in Workers, RawBaseline(w)
      PROVE  Searchable'
  <2>1. CASE baseline' \in {"active", baseline} /\ UNCHANGED <<source, gens>>
      BY <2>1 DEF Searchable
  <2> QED BY <1>1, <1>3, <1>6, <2>1 DEF RawBaseline
<1>7. ASSUME NEW w \in Workers, PersistSummary(w) \/ PersistExtraction(w) \/ PrepareFts(w)
                                \/ Publish(w) \/ Enrich(w)
      PROVE  Searchable'
  <2> DEFINE g == claim[w].gen
  <2>1. CASE \E r : Raise(w, r)
      BY <1>1, <1>3, <2>1
  <2>2. CASE UNCHANGED durable
      BY <1>1, <2>2 DEF durable
  <2>3. g \in GenIds
      BY <1>7, ContextOk
         DEF IndInv, PersistSummary, PersistExtraction, PrepareFts, Publish, Enrich, Passes
  <2>4. ASSUME NEW row, OnlyGen(g, row),
               \/ gens'[g].proj = gens[g].proj /\ gens'[g].status = gens[g].status
               \/ gens'[g].proj = "active" /\ gens'[g].status = "prepared"
        PROVE  Searchable'
    <3>1. \A h \in GenIds \ {g} : gens'[h] = gens[h]
        BY <1>0, <2>4 DEF OnlyGen
    <3>2. UNCHANGED <<source, baseline>>
        BY <2>4 DEF OnlyGen
    <3> QED BY <2>3, <2>4, <3>1, <3>2 DEF Searchable
  <2>5. CASE PersistSummary(w) \/ PersistExtraction(w)
    <3>1. ASSUME NEW outcome, \/ OnlyGen(g, [gens[g] EXCEPT !.sum = outcome])
                              \/ OnlyGen(g, [gens[g] EXCEPT !.ext = outcome])
          PROVE  Searchable'
      <4>1. gens'[g].proj = gens[g].proj /\ gens'[g].status = gens[g].status
          BY <1>0, <2>3, <3>1 DEF OnlyGen, Generation
      <4> QED BY <2>4, <3>1, <4>1
    <3> QED BY <2>1, <2>2, <2>5, <3>1 DEF PersistSummary, PersistExtraction
  <2>6. CASE PrepareFts(w)
    <3>1. ASSUME OnlyGen(g, [gens[g] EXCEPT !.proj = "active", !.status = "prepared"])
          PROVE  Searchable'
      <4>1. gens'[g].proj = "active" /\ gens'[g].status = "prepared"
          BY <1>0, <2>3, <3>1 DEF OnlyGen, Generation
      <4> QED BY <2>4, <3>1, <4>1
    <3> QED BY <2>1, <2>2, <2>6, <3>1 DEF PrepareFts
  <2>7. CASE Enrich(w)
    <3>1. ASSUME NEW e \in BOOLEAN, OnlyGen(g, [gens[g] EXCEPT !.emb = @ \/ e])
          PROVE  Searchable'
      <4>1. gens'[g].proj = gens[g].proj /\ gens'[g].status = gens[g].status
          BY <1>0, <2>3, <3>1 DEF OnlyGen, Generation
      <4> QED BY <2>4, <3>1, <4>1
    <3> QED BY <2>1, <2>7, <3>1 DEF Enrich
  <2>8. CASE Publish(w)
    <3>1. CASE UNCHANGED <<source, baseline>>
               /\ gens' = [h \in GenIds |->
                             IF h = g THEN [gens[h] EXCEPT !.status = "active"]
                             ELSE IF h = head.active
                               THEN [gens[h] EXCEPT !.status = "superseded"]
                             ELSE gens[h]]
      <4>1. \A h \in GenIds : /\ gens'[h].proj = gens[h].proj
                              /\ gens'[h].status = "building" => gens[h].status = "building"
          BY <1>0, <3>1 DEF Generation
      <4> QED BY <3>1, <4>1 DEF Searchable
    <3> QED BY <1>1, <2>1, <2>8, <3>1 DEF Publish
  <2> QED BY <1>7, <2>5, <2>6, <2>7, <2>8
<1>8. CASE Age \/ Reactivate \/ DeleteTwin
  <2>1. gens' = gens /\ baseline' = baseline /\ source'.deleted = source.deleted
      BY <1>0, <1>8 DEF Age, Reactivate, DeleteTwin, OnlyJob, SourceRow
  <2> QED BY <2>1 DEF Searchable
<1>9. CASE ReprocessFailed \/ \E e \in 0..MaxGens : ReprocessCompleted(e)
  <2>1. \A h \in GenIds : GivenUp(gens[h]).proj = gens[h].proj
                          /\ GivenUp(gens[h]).status \in {"failed", "abandoned"}
      BY <1>0 DEF GivenUp, Generation
  <2>2. \A p, c : NewGeneration(p, c).proj = "none" /\ NewGeneration(p, c).status = "building"
      BY DEF NewGeneration, Absent
  <2>3. UNCHANGED <<source, baseline>>
      BY <1>9 DEF ReprocessFailed, ReprocessCompleted
  <2>4. \A h \in GenIds : \/ gens'[h] = gens[h]
                          \/ gens'[h].proj = "none"
                          \/ gens'[h].proj = gens[h].proj /\ gens'[h].status # "building"
    <3>1. CASE ReprocessFailed
        BY <2>1, <2>2, <3>1 DEF ReprocessFailed
    <3>2. ASSUME NEW e \in 0..MaxGens, ReprocessCompleted(e)
          PROVE  \A h \in GenIds : gens'[h] = gens[h] \/ gens'[h].proj = "none"
      <4>1. gens' = [gens EXCEPT ![ngens + 1] = NewGeneration(job.gen, {e})]
          BY <3>2 DEF ReprocessCompleted
      <4> QED BY <1>0, <2>2, <4>1
    <3> QED BY <1>9, <3>1, <3>2
  <2> QED BY <2>3, <2>4 DEF Searchable
<1>10. CASE Delete
  <2>1. \A h \in GenIds : /\ gens'[h].status # "building"
      BY <1>0, <1>10 DEF Delete, Withdrawn, Generation, Resumable, Open
  <2>2. source'.deleted
      BY <1>0, <1>10 DEF Delete, SourceRow
  <2> QED BY <2>1, <2>2 DEF Searchable
<1> QED
    BY <1>1, <1>2, <1>4, <1>5, <1>6, <1>7, <1>8, <1>9, <1>10
       DEF Next, Dispatch, Environment, vars

\* While its claim stands, a dispatch raises only the two reasons that a later
\* dispatch or a configuration without providers leaves it.
LEMMA RaiseBlames ==
    ASSUME TypeOK, NEW w \in Workers, NEW reason, Raise(w, reason),
           Holds(w) => /\ claim[w].gen # NoGen
                       /\ \/ reason = "already_published"
                             /\ gens[claim[w].gen].status = "active"
                          \/ reason = "invalid_phase"
                             /\ gens[claim[w].gen].status = "prepared"
    PROVE  Progress(w)' /\ Blamed(w)'
<1>0. pc \in [Workers -> PCs] /\ ctx \in [Workers -> Memories]
    BY DEF TypeOK
<1>1. /\ pc'[w] = "resolve" /\ "resolve" \notin Fenced
      /\ claim' = claim /\ gens' = gens /\ job' = job /\ source' = source
    BY <1>0 DEF Raise, Goto, Fenced, durable
<1>2. ctx'[w].why = reason
  <2>1. "claim_lost" \in Reasons /\ TRUE \in BOOLEAN
      BY DEF Reasons
  <2>2. Unwound(w) \in Memories
      BY <2>1, UnwoundTyped
  <2> QED BY <1>0, <2>2 DEF Raise, Memories
<1>3. Holds(w)' => Holds(w)
    BY <1>1 DEF Holds, Owns, OwnsAttempt, Live
<1> QED
    BY <1>1, <1>2, <1>3 DEF Progress, Blamed

\* A worker outside the fenced stages and the resolution carries nothing.
LEMMA Unburdened ==
    ASSUME NEW w \in Workers, pc'[w] \notin Fenced, pc'[w] # "resolve"
    PROVE  Progress(w)' /\ Blamed(w)'
BY DEF Progress, Blamed

\* A dispatch passes from stage to stage with what the stage before it stored.
LEMMA DispatchReasons ==
    ASSUME IndInv, Searchable, NEW w \in Workers, Progress(w), Blamed(w), Dispatch(w)
    PROVE  Progress(w)' /\ Blamed(w)'
<1> DEFINE g == claim[w].gen
<1>0. /\ pc \in [Workers -> PCs] /\ ctx \in [Workers -> Memories] /\ claim \in [Workers -> Claims]
      /\ gens \in [GenIds -> Generation] /\ job \in JobRow /\ ngens \in Nat /\ TypeOK
    BY DEF IndInv, TypeOK
<1>f. Fenced = {"snapshot", "gate", "baseline", "decide", "park", "summary", "review",
                "extraction", "assess", "fts", "publish", "enrich", "finish"}
    BY DEF Fenced
<1>1. ASSUME Context(w) = "ok", pc[w] \in Fenced
      PROVE  /\ g \in GenIds /\ g # NoGen /\ ~source.deleted /\ Holds(w)
             /\ gens[g].status \in {"building", "prepared", "active"}
             /\ gens[g].status = "building" => gens[g].proj = "none"
             /\ gens[g].status \in {"prepared", "active"} =>
                  gens[g].sum # "none" /\ gens[g].ext # "none" /\ gens[g].proj # "none"
             /\ gens[g].proj # "source_removed"
  <2>1. /\ g \in GenIds /\ OwnsAttempt(claim[w]) /\ job.gen = g /\ ~source.deleted /\ Live
        /\ gens[g].status \in Resumable
      BY <1>0, <1>1, ContextOk
  <2>2. Holds(w) /\ g # NoGen
      BY <2>1 DEF Holds, Owns, GenIds, NoGen
  <2> QED BY <2>1, <2>2 DEF Searchable, IndInv, Coherent, PublishedComplete, Resumable, Open
<1>2. CASE \/ ModelNotReady(w) \/ GateFails(w) \/ SummaryFails(w) \/ ExtractionFails(w)
           \/ FailCurrentClaim(w) \/ Escape(w) \/ Recover(w) \/ RecoverFails(w)
  <2>1. pc'[w] \in {"failing", "idle", "escaped"}
      BY <1>0, <1>2 DEF ModelNotReady, GateFails, SummaryFails, ExtractionFails,
                        FailCurrentClaim, Escape, Recover, RecoverFails, Fail, Return, Goto
  <2> QED BY <1>f, <2>1, Unburdened
<1>3. CASE FenceFails(w)
  <2>1. pc[w] \in Fenced /\ Context(w) # "ok" /\ Raise(w, Context(w))
      BY <1>3 DEF FenceFails
  <2>2. ~Holds(w)
      BY <2>1, HoldsPasses DEF Progress
  <2> QED BY <1>0, <2>1, <2>2, RaiseBlames
<1>4. CASE Admit(w)
  <2>1. CASE AdmissionReason(claim[w]) # "ok" /\ Raise(w, AdmissionReason(claim[w]))
    <3>1. ~Holds(w)
        BY <2>1, AdmissionAccepts
    <3> QED BY <1>0, <2>1, <3>1, RaiseBlames
  <2>2. CASE pc'[w] = "snapshot" /\ claim'[w].gen # NoGen
      BY <2>2 DEF Progress, Blamed
  <2>3. ngens + 1 # NoGen
      BY <1>0 DEF NoGen
  <2> QED BY <1>0, <1>4, <2>1, <2>2, <2>3 DEF Admit, Goto, Claims
<1>5. ASSUME NEW label \in {"gate", "baseline", "decide", "summary"}, pc'[w] = label,
             claim' = claim, g # NoGen
      PROVE  Progress(w)' /\ Blamed(w)'
    BY <1>5 DEF Progress, Blamed
<1>6. CASE Snapshot(w)
  <2>1. pc[w] \in Fenced /\ Context(w) = "ok"
      BY <1>6, <1>f DEF Snapshot, Passes
  <2>2. CASE gens[g].status = "active" /\ Raise(w, "already_published")
      BY <1>0, <1>1, <2>1, <2>2, RaiseBlames
  <2>3. CASE Goto(w, "gate") /\ UNCHANGED <<durable, claim, ctx>>
      BY <1>0, <1>1, <1>5, <2>1, <2>3 DEF Goto
  <2> QED BY <1>6, <2>2, <2>3 DEF Snapshot
<1>7. CASE Classify(w)
    BY <1>0, <1>1, <1>5, <1>7, <1>f DEF Classify, Passes, Goto
<1>8. CASE RawBaseline(w)
  <2>1. pc[w] \in Fenced /\ Context(w) = "ok" /\ baseline # "source_removed"
      BY <1>1, <1>8, <1>f DEF RawBaseline, Passes, Searchable
  <2> QED BY <1>0, <1>1, <1>5, <1>8, <2>1 DEF RawBaseline, Goto
<1>9. CASE Decide(w)
  <2>1. pc[w] \in Fenced /\ Context(w) = "ok"
      BY <1>9, <1>f DEF Decide, Passes
  <2>2. claim' = claim /\ gens' = gens /\ g # NoGen
      BY <1>1, <1>9, <2>1 DEF Decide, durable
  <2>3. \/ pc'[w] = "park" /\ gens[g].status # "active"
        \/ pc'[w] = "summary"
        \/ pc'[w] = "review" /\ gens[g].sum # "none"
      BY <1>0, <1>9 DEF Decide, Goto
  <2> QED BY <2>2, <2>3 DEF Progress, Blamed
<1>10. CASE Park(w)
  <2>1. pc[w] = "park" /\ pc[w] \in Fenced /\ Context(w) = "ok"
      BY <1>10, <1>f DEF Park, Passes
  <2>2. CASE gens[g].status # "building" /\ Raise(w, "invalid_phase")
    <3>1. gens[g].status = "prepared"
        BY <1>1, <2>1, <2>2 DEF Progress
    <3> QED BY <1>0, <1>1, <2>1, <2>2, <3>1, RaiseBlames
  <2>3. CASE Return(w)
    <3>1. pc'[w] = "idle"
        BY <1>0, <2>3 DEF Return, Goto
    <3> QED BY <1>f, <3>1, Unburdened
  <2> QED BY <1>10, <2>2, <2>3 DEF Park
<1>11. CASE PersistSummary(w)
  <2>1. pc[w] \in Fenced /\ Context(w) = "ok"
      BY <1>11, <1>f DEF PersistSummary, Passes
  <2>2. gens[g].sum = "none" => gens[g].status = "building"
      BY <1>1, <2>1
  <2>3. pc'[w] = "review" /\ claim' = claim
      BY <1>0, <1>11, <2>2 DEF PersistSummary, Goto
  <2>4. gens'[g].sum # "none"
    <3>1. CASE gens[g].sum # "none" /\ UNCHANGED durable
        BY <3>1 DEF durable
    <3>2. ASSUME NEW outcome \in SummaryResults(w),
                 OnlyGen(g, [gens[g] EXCEPT !.sum = outcome])
          PROVE  gens'[g].sum # "none"
      <4>1. outcome # "none"
          BY <3>2 DEF SummaryResults
      <4> QED BY <1>0, <1>1, <2>1, <3>2, <4>1 DEF OnlyGen, Generation
    <3> QED BY <1>11, <2>2, <3>1, <3>2 DEF PersistSummary
  <2> QED BY <1>1, <2>1, <2>3, <2>4 DEF Progress, Blamed
<1>12. CASE Review(w)
  <2>1. /\ pc[w] = "review" /\ pc[w] \in Fenced /\ Context(w) = "ok"
        /\ claim' = claim /\ gens' = gens
      BY <1>12, <1>f DEF Review, Passes, durable
  <2>2. g # NoGen /\ gens[g].sum # "none"
      BY <1>1, <2>1 DEF Progress
  <2>3. \/ pc'[w] = "extraction"
        \/ pc'[w] = "assess" /\ gens[g].ext # "none"
      BY <1>0, <1>12 DEF Review, Goto
  <2> QED BY <2>1, <2>2, <2>3 DEF Progress, Blamed
<1>13. CASE PersistExtraction(w)
  <2>1. pc[w] = "extraction" /\ pc[w] \in Fenced /\ Context(w) = "ok"
      BY <1>13, <1>f DEF PersistExtraction, Passes
  <2>2. gens[g].sum # "none" /\ g \in GenIds /\ g # NoGen
      BY <1>1, <2>1 DEF Progress
  <2>3. gens[g].ext = "none" => gens[g].status = "building"
      BY <1>1, <2>1
  <2>4. pc'[w] = "assess" /\ claim' = claim
      BY <1>0, <1>13, <2>3 DEF PersistExtraction, Goto
  <2>5. gens'[g].sum # "none" /\ gens'[g].ext # "none"
    <3>1. CASE gens[g].ext # "none" /\ UNCHANGED durable
        BY <2>2, <3>1 DEF durable
    <3>2. ASSUME NEW outcome \in {"succeeded", "policy_skipped"},
                 OnlyGen(g, [gens[g] EXCEPT !.ext = outcome])
          PROVE  gens'[g].sum # "none" /\ gens'[g].ext # "none"
        BY <1>0, <2>2, <3>2 DEF OnlyGen, Generation
    <3> QED BY <1>13, <2>3, <3>1, <3>2 DEF PersistExtraction
  <2> QED BY <2>2, <2>4, <2>5 DEF Progress, Blamed
<1>14. CASE Assess(w)
  <2>1. /\ pc[w] = "assess" /\ pc[w] \in Fenced /\ Context(w) = "ok"
        /\ claim' = claim /\ gens' = gens
      BY <1>14, <1>f DEF Assess, Passes, durable
  <2>2. g # NoGen /\ gens[g].sum # "none" /\ gens[g].ext # "none"
      BY <1>1, <2>1 DEF Progress
  <2>3. \/ pc'[w] = "enrich" /\ gens[g].status = "active"
        \/ pc'[w] = "fts"
      BY <1>0, <1>14 DEF Assess, Goto
  <2> QED BY <2>1, <2>2, <2>3 DEF Progress, Blamed
<1>15. CASE PrepareFts(w)
  <2>1. pc[w] = "fts" /\ pc[w] \in Fenced /\ Context(w) = "ok"
      BY <1>15, <1>f DEF PrepareFts, Passes
  <2>2. /\ g \in GenIds /\ g # NoGen /\ gens[g].sum # "none" /\ gens[g].ext # "none"
        /\ gens[g].proj # "source_removed"
        /\ gens[g].proj = "none" => gens[g].status = "building"
      BY <1>1, <2>1 DEF Progress
  <2>3. gens[g].proj \in ProjectionStatus
      BY <1>0, <2>2 DEF Generation
  <2>4. CASE gens[g].proj = "none"
    <3>1. OnlyGen(g, [gens[g] EXCEPT !.proj = "active", !.status = "prepared"])
          /\ Goto(w, "publish") /\ claim' = claim
        BY <1>15, <2>2, <2>4 DEF PrepareFts
    <3>2. gens'[g].sum = gens[g].sum /\ gens'[g].ext = gens[g].ext /\ gens'[g].proj = "active"
        BY <1>0, <2>2, <3>1 DEF OnlyGen, Generation
    <3>3. pc'[w] = "publish"
        BY <1>0, <3>1 DEF Goto
    <3> QED BY <2>2, <3>1, <3>2, <3>3 DEF Progress, Blamed
  <2>5. CASE gens[g].proj = "active"
    <3>1. pc'[w] = "publish" /\ claim' = claim /\ gens' = gens
        BY <1>0, <1>15, <2>5 DEF PrepareFts, Goto, durable
    <3> QED BY <2>2, <2>5, <3>1 DEF Progress, Blamed
  <2> QED BY <2>2, <2>3, <2>4, <2>5 DEF ProjectionStatus
<1>16. CASE Publish(w)
  <2>1. pc[w] = "publish" /\ pc[w] \in Fenced /\ Context(w) = "ok"
      BY <1>16, <1>f DEF Publish, Passes
  <2>2. /\ g \in GenIds /\ g # NoGen /\ gens[g].sum # "none" /\ gens[g].ext # "none"
        /\ gens[g].proj \notin {"none", "source_removed"}
        /\ gens[g].status \in {"prepared", "active"}
      BY <1>1, <2>1 DEF Progress
  <2>3. gens[g].proj = "active"
      BY <1>0, <2>2 DEF Generation, ProjectionStatus
  <2>4. gens[g].status = "active" => head.active = g /\ head.retired
      BY <2>2 DEF IndInv, Coherent, HeadsAgree, Succession
  <2>5. gens[g].status = "prepared" => head.active = gens[g].pred
      BY <2>2 DEF IndInv, Coherent, HeadsAgree, Succession, Open
  <2>6. Validation(g) = "ok"
      BY <2>2, <2>3, <2>4, <2>5 DEF Validation
  <2>7. pc'[w] = "enrich" /\ claim' = claim
      BY <1>0, <1>16, <2>6 DEF Publish, Goto
  <2>8. gens'[g].status = "active"
      BY <1>0, <1>16, <2>2, <2>6 DEF Publish, Generation
  <2> QED BY <2>2, <2>7, <2>8 DEF Progress, Blamed
<1>17. CASE Enrich(w)
  <2>1. pc[w] = "enrich" /\ pc[w] \in Fenced /\ Context(w) = "ok"
      BY <1>17, <1>f DEF Enrich, Passes
  <2>2. g \in GenIds /\ g # NoGen /\ gens[g].status = "active"
      BY <1>1, <2>1 DEF Progress
  <2>3. PICK embedded \in BOOLEAN : OnlyGen(g, [gens[g] EXCEPT !.emb = @ \/ embedded])
      BY <1>17, <2>2 DEF Enrich
  <2>4. gens'[g].status = "active"
      BY <1>0, <2>2, <2>3 DEF OnlyGen, Generation
  <2>5. pc'[w] = "finish" /\ claim' = claim
      BY <1>0, <1>17, <2>2 DEF Enrich, Goto
  <2> QED BY <2>2, <2>4, <2>5 DEF Progress, Blamed
<1>18. CASE Finish(w)
  <2>1. pc[w] = "finish" /\ pc[w] \in Fenced /\ Context(w) = "ok"
      BY <1>18, <1>f DEF Finish, Passes
  <2>2. gens[g].status = "active"
      BY <1>1, <2>1 DEF Progress
  <2>3. pc'[w] = "idle"
      BY <1>0, <1>18, <2>2 DEF Finish, Return, Goto
  <2> QED BY <1>f, <2>3, Unburdened
<1>19. CASE Resolve(w)
  <2>1. CASE pc'[w] \in {"idle", "escaped"}
      BY <1>f, <2>1, Unburdened
  <2>2. CASE /\ pc'[w] = "snapshot" /\ UNCHANGED <<durable, claim>>
    <3>1. Holds(w)' => Holds(w)
        BY <2>2 DEF Holds, Owns, OwnsAttempt, Live, durable
    <3>2. pc[w] = "resolve"
        BY <1>19 DEF Resolve
    <3>3. Holds(w) => g # NoGen
        BY <3>2 DEF Blamed
    <3> QED BY <2>2, <3>1, <3>3 DEF Progress, Blamed
  <2> QED BY <1>0, <1>19, <2>1, <2>2 DEF Resolve, Return, Goto
<1> QED
    BY <1>2, <1>3, <1>4, <1>6, <1>7, <1>8, <1>9, <1>10, <1>11, <1>12, <1>13, <1>14, <1>15,
       <1>16, <1>17, <1>18, <1>19 DEF Dispatch


\* No step but the end of a conflict writes a reason, so the job has none.
LEMMA NoVerdict ==
    ASSUME job'.err \notin Reasons
    PROVE  Verdicts'
BY DEF Verdicts, NoFalseVerdict, Reasons

\* What resolve_conflict blames is so: the source is gone, or the generation is
\* prepared and waits for a provider it cannot wait for.
LEMMA ResolvedTruthfully ==
    ASSUME IndInv, Searchable, NEW w \in Workers, Blamed(w), pc[w] = "resolve",
           Owns(claim[w]), ResolvedReason(w) # "already_published"
    PROVE  \/ ResolvedReason(w) = "source_removed" /\ ~Live
           \/ ResolvedReason(w) = "invalid_phase" /\ gens[job.gen].status = "prepared"
<1> DEFINE g == claim[w].gen
<1>1. CASE ~Live
  <2>1. StateReason(claim[w], job.gen) = "source_removed"
      BY <1>1 DEF StateReason
  <2> QED BY <1>1, <2>1 DEF ResolvedReason
<1>2. CASE Live
  <2>1. Holds(w)
      BY <1>2 DEF Holds
  <2>2. /\ g # NoGen
        /\ \/ ctx[w].why = "already_published" /\ gens[g].status = "active"
           \/ ctx[w].why = "invalid_phase" /\ gens[g].status = "prepared"
      BY <2>1 DEF Blamed
  <2>3. /\ StateReason(claim[w], job.gen) = "ok" /\ job.gen = g /\ g \in GenIds
        /\ ~source.deleted
      BY <2>1, <2>2, HoldsPasses DEF Context
  <2>4. CASE ctx[w].why = "invalid_phase" /\ gens[g].status = "prepared"
      BY <2>3, <2>4 DEF ResolvedReason, Stale, Cancels, Blocks
  <2>5. CASE ctx[w].why = "already_published" /\ gens[g].status = "active"
    <3>1. /\ gens[g].sum # "none" /\ gens[g].ext # "none" /\ gens[g].proj # "none"
          /\ head.active = g /\ head.retired
        BY <2>3, <2>5 DEF IndInv, Coherent, PublishedComplete, HeadsAgree, Succession, GenIds, NoGen
    <3>2. gens[g].proj = "active"
        BY <2>3, <3>1 DEF Searchable, IndInv, TypeOK, Generation, ProjectionStatus
    <3>3. Validation(g) = "ok"
        BY <2>5, <3>1, <3>2 DEF Validation
    <3>4. ResolvedReason(w) = "already_published"
        BY <2>3, <2>5, <3>3 DEF ResolvedReason, Stale, Cancels, Blocks
    <3> QED BY <3>4
  <2> QED BY <2>2, <2>4, <2>5
<1> QED
    BY <1>1, <1>2

\* A job that has failed with a reason keeps a true one until it is requeued.
LEMMA VerdictsStep ==
    ASSUME IndInv, Reasoned, [Next]_vars
    PROVE  Verdicts'
<1>0. /\ job \in JobRow /\ source \in SourceRow /\ Verdicts /\ Searchable
      /\ claim \in [Workers -> Claims]
    BY DEF IndInv, TypeOK, Reasoned
<1>1. CASE UNCHANGED <<job, source, gens>>
    BY <1>0, <1>1 DEF Verdicts, NoFalseVerdict
<1>2. /\ job.status # "failed" => job.err \notin Reasons
      /\ {"none", "error", "no_provider", "partial"} \intersect Reasons = {}
    BY <1>0 DEF Verdicts, Reasons
<1>3. ASSUME NEW w \in Workers, Dispatch(w)
      PROVE  Verdicts'
  <2>1. CASE ~OwnsAttempt(claim[w])
      BY <1>1, <1>3, <2>1, WritesAreFenced DEF durable
  <2>2. CASE OwnsAttempt(claim[w])
    <3>1. job.err \notin Reasons
        BY <1>2, <2>2 DEF OwnsAttempt
    <3>2. ASSUME job'.err \in {job.err, "none", "error", "no_provider", "partial"}
          PROVE  Verdicts'
        BY <1>2, <3>1, <3>2, NoVerdict
    <3>3. \A r, e : FailedJob(r, e).err = e
        BY <1>0 DEF FailedJob, JobRow
    <3>4. CASE Resolve(w)
      <4>1. CASE UNCHANGED durable
          BY <1>1, <4>1 DEF durable
      <4>2. CASE /\ Owns(claim[w]) /\ ResolvedReason(w) # "already_published"
                 /\ job' = [job EXCEPT !.status = "failed", !.err = ResolvedReason(w)]
                 /\ OnlyJob
        <5>1. pc[w] = "resolve" /\ Blamed(w)
            BY <3>4 DEF Resolve, Reasoned
        <5>2. \/ ResolvedReason(w) = "source_removed" /\ ~Live
              \/ ResolvedReason(w) = "invalid_phase" /\ gens[job.gen].status = "prepared"
            BY <1>0, <4>2, <5>1, ResolvedTruthfully
        <5>3. /\ job'.status = "failed" /\ job'.err = ResolvedReason(w) /\ job'.gen = job.gen
              /\ source' = source /\ gens' = gens
            BY <1>0, <4>2 DEF JobRow, OnlyJob
        <5>4. CASE job'.err = "source_removed" /\ (source'.deleted \/ source'.twin)
            BY <5>3, <5>4 DEF Verdicts, NoFalseVerdict
        <5>5. CASE job'.err = "invalid_phase" /\ gens'[job'.gen].status = "prepared"
            BY <5>3, <5>5 DEF Verdicts, NoFalseVerdict
        <5> QED BY <5>2, <5>3, <5>4, <5>5 DEF Live
      <4> QED BY <3>4, <4>1, <4>2 DEF Resolve
    <3>5. CASE FailCurrentClaim(w) \/ Recover(w)
      <4>1. job' = job \/ \E r : job' = FailedJob(r, "error")
          BY <3>5 DEF FailCurrentClaim, Recover
      <4> QED BY <3>2, <3>3, <4>1
    <3>6. \A r : Raise(w, r) \/ Fail(w, r) => job' = job
        BY DEF Raise, Fail, durable
    <3>7. CASE Park(w) \/ Finish(w)
        BY <1>0, <3>2, <3>6, <3>7 DEF Park, Finish, JobRow
    <3>8. CASE Admit(w)
        BY <1>0, <3>2, <3>6, <3>8 DEF Admit, JobRow, durable
    <3>9. CASE \/ ModelNotReady(w) \/ FenceFails(w) \/ Snapshot(w) \/ GateFails(w)
               \/ Classify(w) \/ RawBaseline(w) \/ Decide(w) \/ SummaryFails(w)
               \/ PersistSummary(w) \/ Review(w) \/ ExtractionFails(w)
               \/ PersistExtraction(w) \/ Assess(w) \/ PrepareFts(w) \/ Publish(w)
               \/ Enrich(w) \/ Escape(w) \/ RecoverFails(w)
      <4>1. job' = job
          BY <3>6, <3>9
             DEF ModelNotReady, FenceFails, Snapshot, GateFails, Classify, RawBaseline, Decide,
                 SummaryFails, PersistSummary, Review, ExtractionFails, PersistExtraction,
                 Assess, PrepareFts, Publish, Enrich, Escape, RecoverFails, OnlyGen, durable
      <4> QED BY <3>2, <4>1
    <3> QED BY <1>3, <3>4, <3>5, <3>7, <3>8, <3>9 DEF Dispatch
  <2> QED BY <2>1, <2>2
<1>4. ASSUME NEW w \in Workers, ClaimNext(w) \/ Start(w) \/ Crash(w)
      PROVE  Verdicts'
  <2>1. CASE Crash(w)
      BY <1>1, <2>1 DEF Crash, durable
  <2>2. CASE ClaimNext(w)
    <3>1. job.status # "failed" /\ job'.err = job.err
        BY <1>0, <2>2 DEF ClaimNext, Eligible, JobRow
    <3> QED BY <1>2, <3>1, NoVerdict
  <2>3. CASE Start(w)
    <3>1. \/ UNCHANGED <<job, source, gens>>
          \/ job.status # "failed" /\ job'.err = job.err
        BY <1>0, <2>3 DEF Start, IsStale, OnlyJob, JobRow
    <3> QED BY <1>1, <1>2, <3>1, NoVerdict
  <2> QED BY <1>4, <2>1, <2>2, <2>3
<1>5. CASE Environment
  <2>1. CASE Age
    <3>1. job.status # "failed" /\ job'.err = job.err
        BY <1>0, <2>1 DEF Age, JobRow
    <3> QED BY <1>2, <3>1, NoVerdict
  <2>2. CASE Reactivate \/ ReprocessFailed \/ \E e \in 0..MaxGens : ReprocessCompleted(e)
    <3>1. job'.err = "none"
        BY <1>0, <2>2 DEF Reactivate, ReprocessFailed, ReprocessCompleted, Requeued, JobRow
    <3> QED BY <1>2, <3>1, NoVerdict
  <2>3. CASE Delete
    <3>1. job' = job /\ source'.deleted
        BY <1>0, <2>3 DEF Delete, SourceRow
    <3> QED BY <1>0, <3>1 DEF Verdicts, NoFalseVerdict
  <2>4. CASE DeleteTwin
    <3>1. job' = job /\ source'.twin /\ source'.deleted = source.deleted /\ gens' = gens
        BY <1>0, <2>4 DEF DeleteTwin, SourceRow
    <3> QED BY <1>0, <3>1 DEF Verdicts, NoFalseVerdict
  <2> QED BY <1>5, <2>1, <2>2, <2>3, <2>4 DEF Environment
<1>6. CASE UNCHANGED vars
    BY <1>1, <1>6 DEF vars
<1> QED
    BY <1>3, <1>4, <1>5, <1>6 DEF Next

\* Every step of every actor keeps the reasons true.
LEMMA ReasonedStep ==
    ASSUME IndInv, Tokens, Reasoned, [Next]_vars
    PROVE  Reasoned'
<1>0. TypeOK /\ Searchable /\ pc \in [Workers -> PCs] /\ claim \in [Workers -> Claims]
    BY DEF IndInv, TypeOK, Reasoned
<1>1. ASSUME NEW w \in Workers
      PROVE  Progress(w)' /\ Blamed(w)'
  <2>0. Progress(w) /\ Blamed(w)
      BY DEF Reasoned
  <2>1. CASE Dispatch(w)
      BY <1>0, <2>0, <2>1, DispatchReasons
  <2>2. CASE ClaimNext(w) \/ Start(w) \/ Crash(w)
    <3>1. pc'[w] \in {"admit", "idle", "down"}
        BY <1>0, <2>2 DEF ClaimNext, Start, Crash, Goto
    <3> QED BY <3>1, Unburdened DEF Fenced
  <2>3. CASE ~Dispatch(w) /\ ~ClaimNext(w) /\ ~Start(w) /\ ~Crash(w)
    <3>1. pc'[w] = pc[w] /\ ctx'[w] = ctx[w] /\ claim'[w] = claim[w]
      <4>1. ASSUME NEW v \in Workers, ClaimNext(v) \/ Dispatch(v) \/ Crash(v) \/ Start(v)
            PROVE  pc'[w] = pc[w] /\ ctx'[w] = ctx[w] /\ claim'[w] = claim[w]
        <5>1. v # w
            BY <2>3, <4>1
        <5> QED BY <1>0, <4>1, <5>1, OthersKeepControl
      <4>2. CASE Environment
          BY <4>2 DEF Environment, Age, Reactivate, ReprocessFailed, ReprocessCompleted,
                      Delete, DeleteTwin, local
      <4>3. CASE UNCHANGED vars
          BY <4>3 DEF vars
      <4> QED BY <4>1, <4>2, <4>3 DEF Next
    <3>2. CASE pc[w] \in Busy /\ Holds(w)'
      <4>1. Holds(w) /\ gens' = gens
          BY <1>0, <2>3, <3>1, <3>2, OthersLeaveHolder
      <4> QED BY <2>0, <3>1, <4>1 DEF Progress, Blamed
    <3>3. CASE ~Holds(w)'
        BY <3>3 DEF Progress, Blamed
    <3>4. CASE pc[w] \notin Busy
      <4>1. pc'[w] \notin Fenced /\ pc'[w] # "resolve"
          BY <3>1, <3>4 DEF Busy, Exits
      <4> QED BY <4>1, Unburdened
    <3> QED BY <3>2, <3>3, <3>4
  <2> QED BY <2>1, <2>2, <2>3
<1>2. Searchable'
    BY <1>0, SearchableStep
<1>3. Verdicts'
    BY VerdictsStep
<1> QED
    BY <1>1, <1>2, <1>3 DEF Reasoned

\* resolve_conflict (derivations/service.py) blames no consistent state: however
\* claims, resets, reprocessing and deletions interleave, no job ends as blocked
\* or broken, it is cancelled only for a removed source, and the one phase error
\* belongs to a prepared generation that lost its providers.
THEOREM VerdictsAreTrue == Spec => []NoFalseVerdict
<1>1. Init => Tokens /\ Reasoned
  <2>1. ASSUME Init
        PROVE  Tokens /\ Searchable /\ Verdicts
                 /\ \A w \in Workers : Progress(w) /\ Blamed(w)
    <3>1. Tokens
        BY <2>1 DEF Init, Tokens, Busy, Admission, Fenced, Exits
    <3>2. Searchable
        BY <2>1 DEF Init, Searchable, Absent
    <3>3. Verdicts
        BY <2>1 DEF Init, Verdicts, NoFalseVerdict, Reasons
    <3>4. \A w \in Workers : Progress(w) /\ Blamed(w)
        BY <2>1 DEF Init, Progress, Blamed, Fenced
    <3> QED BY <3>1, <3>2, <3>3, <3>4
  <2> QED BY <2>1 DEF Reasoned
<1>2. IndInv /\ Tokens /\ Reasoned /\ [Next]_vars => Tokens' /\ Reasoned'
    BY TokensStep, ReasonedStep DEF IndInv
<1>3. Reasoned => NoFalseVerdict
    BY DEF Reasoned, Verdicts
<1> QED
    BY <1>1, <1>2, <1>3, Coherence, PTL DEF Spec

=============================================================================
