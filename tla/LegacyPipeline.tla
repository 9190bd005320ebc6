--------------------------- MODULE LegacyPipeline ---------------------------
(***************************************************************************)
(* The pipeline of one archived source while the managed switch is off     *)
(* (app/worker/dispatcher.py dispatch_job, app/domain/jobs/service.py and  *)
(* the deletion in app/domain/archive/service.py).                         *)
(*                                                                         *)
(* One session spans a dispatch and every writer commits on its own: each  *)
(* commit is an action, and what happens elsewhere comes in between.       *)
(* Nothing fences a write: the session keeps the Job instance it claimed   *)
(* (expire_on_commit is off) and an UPDATE names only the attributes that  *)
(* differ from it, so seen is part of a worker's state.  Conflict groups   *)
(* and links between facts are not kept: no row of the source depends on   *)
(* them.                                                                   *)
(* An operator named ..._Bug is a faulty variant of the definition that    *)
(* follows it, kept to show that some property notices it.                 *)
(***************************************************************************)
EXTENDS Naturals, FiniteSets

CONSTANTS
    Workers,      \* worker loops, each in a process of its own
    Settings,     \* provider configurations a process may start with
    MaxAttempts,  \* job.max_attempts
    MaxClaims     \* bound: claims ever made of the job

Ops     == {"sum", "ext"}
Calls   == Ops \union {"link"}
Configs == {k \in SUBSET (Ops \union {"llm"}) : k # {} => "llm" \in k}

ASSUME ConstantsAssumption ==
    /\ Settings \subseteq Configs
    /\ MaxAttempts \in Nat \ {0}
    /\ MaxClaims \in Nat

VARIABLES
    deleted,  \* raw_archive.deleted_at is set
    job,      \* the source's job row
    rows,     \* how many derived rows of each kind have source_status active
    log,      \* audit events another step relies on, by kind and claim
    skipped,  \* history: a dispatch that may have written left before Reconcile
    clock,    \* claims made so far
    pc,       \* where each worker is in its dispatch
    wk        \* what each worker holds

durable == <<deleted, job, rows, log, clock>>
vars    == <<deleted, job, rows, log, skipped, clock, pc, wk>>

-----------------------------------------------------------------------------

Kinds     == {"summary", "fact", "fts", "embedding"}
JobStatus == {"pending", "claimed", "completed", "failed",
              "retryable_failed", "pending_provider"}
Errors    == {"none", "error", "no_provider", "partial"}
Events    == {"policy_decision", "summary_failed"}

\* stages in which the dispatch has loaded the source and not reconciled yet
Running == {"gate", "policy", "park", "parked", "summary", "summarizing",
            "sum_audit", "extract", "fts", "embed", "embedding", "detect",
            "conflict", "links", "classify", "reconcile"}
Exits   == {"failing", "complete", "escaped"}
Busy    == {"load"} \union Running \union Exits
PCs     == Busy \union {"down", "idle"}

Instance == [status : JobStatus, att : 0..MaxAttempts, err : Errors]
JobRow   == [status : JobStatus, att : 0..MaxAttempts, err : Errors,
             at : 0..MaxClaims, aged : BOOLEAN]
Memory   == [keys : Configs, at : 0..MaxClaims, att : 0..MaxAttempts,
             seen : Instance, allowed : SUBSET Calls, failed : BOOLEAN,
             retry : BOOLEAN]

Blank == [status |-> "pending", att |-> 0, err |-> "none"]
Fresh(keys) == [keys |-> keys, at |-> 0, att |-> 0, seen |-> Blank,
                allowed |-> {}, failed |-> FALSE, retry |-> FALSE]

TypeOK ==
    /\ deleted \in BOOLEAN
    /\ job \in JobRow
    /\ rows \in [Kinds -> Nat]
    /\ log \subseteq (Events \X (0..MaxClaims))
    /\ skipped \in BOOLEAN
    /\ clock \in 0..MaxClaims
    /\ pc \in [Workers -> PCs]
    /\ wk \in [Workers -> Memory]

-----------------------------------------------------------------------------
(* What the steps are made of *)

Goto(w, label) == pc' = [pc EXCEPT ![w] = label]

\* the row as session.refresh(job) reads it after a rollback
Current == [status |-> job.status, att |-> job.att, err |-> job.err]

\* a commit of the instance: only attributes that differ from it are written
Written(w, status, err) ==
    [job EXCEPT !.status = IF status = wk[w].seen.status THEN @ ELSE status,
                !.err    = IF err = wk[w].seen.err THEN @ ELSE err]

Added(kind) == [rows EXCEPT ![kind] = @ + 1]

\* _run_summarize_job: a text to write, or none
Summaries == {rows, Added("summary")}

\* _run_extract_job: no facts, and no call, unless the provider is allowed
Facts(w) == {rows} \union {added \in {Added("fact")} : "ext" \in wk[w].allowed}

Record(w, event) == log' = log \union {<<event, wk[w].at>>}

KeepsIndex_Bug == [kind \in Kinds |-> IF kind = "fts" THEN rows[kind] ELSE 0]

\* _suppress_derived and _erase_plaintext over the source's derived rows
Suppressed == [kind \in Kinds |-> 0]

\* on to the next stage with the local state as it is
Proceed(w, label) == Goto(w, label) /\ UNCHANGED wk

\* a stage gave up: rollback, refresh, then fail_job
GiveUp(w, retryable) ==
    /\ Goto(w, "failing")
    /\ wk' = [wk EXCEPT ![w].seen = Current, ![w].retry = retryable]

\* a stage failed, is rolled back and refreshed, and the dispatch goes on
GoOn(w, label) == Goto(w, label) /\ wk' = [wk EXCEPT ![w].seen = Current]

Return(w) == Goto(w, "idle") /\ wk' = [wk EXCEPT ![w] = Fresh(wk[w].keys)]

\* the history notes a dispatch that leaves a running stage unreconciled
Leaves(w) == skipped \/ pc[w] \in Running

-----------------------------------------------------------------------------
(* A dispatch, stage by stage *)

\* claim_next_job
ClaimNext(w) ==
    /\ pc[w] = "idle"
    /\ job.status \in {"pending", "retryable_failed"}
    /\ job.att < MaxAttempts
    /\ clock < MaxClaims
    /\ clock' = clock + 1
    /\ job' = [job EXCEPT !.status = "claimed", !.att = @ + 1,
                          !.at = clock + 1, !.aged = FALSE]
    /\ wk' = [wk EXCEPT ![w].at = clock + 1, ![w].att = job.att + 1,
                        ![w].seen = [status |-> "claimed", att |-> job.att + 1,
                                     err |-> job.err]]
    /\ Goto(w, "load")
    /\ UNCHANGED <<deleted, rows, log, skipped>>

\* step 1: a deleted source fails the job for good
Load(w) ==
    /\ pc[w] = "load"
    /\ IF deleted
         THEN Goto(w, "failing") /\ wk' = [wk EXCEPT ![w].retry = FALSE]
         ELSE Proceed(w, "gate")
    /\ UNCHANGED <<durable, skipped>>

\* step 2: the gate decides, and its audit event is committed
Gate(w) ==
    /\ pc[w] = "gate"
    /\ Proceed(w, "policy")
    /\ UNCHANGED <<durable, skipped>>

\* the commit fails: the rollback expires archive_item, and reading its
\* metadata right after cannot load it again outside a query
GateAuditFails(w) ==
    /\ pc[w] = "gate"
    /\ Proceed(w, "escaped")
    /\ skipped' = Leaves(w)
    /\ UNCHANGED durable

GateFails(w) ==
    /\ pc[w] = "gate"
    /\ Goto(w, "failing")
    /\ wk' = [wk EXCEPT ![w].retry = TRUE]
    /\ skipped' = Leaves(w)
    /\ UNCHANGED durable

\* what the policy lets the dispatch do next
Route(w, extern, allowed) ==
    IF ~extern /\ allowed = {} THEN "fts"
    ELSE IF wk[w].keys = {} THEN "park" ELSE "summary"

\* the operations whose selected provider resolves and may be called; pairs of
\* facts are classified only where external calls are allowed
Permitted(w, extern, onHost) ==
    {op \in wk[w].keys \intersect Ops : extern \/ op \in onHost}
    \union IF extern /\ wk[w].keys # {} THEN {"link"} ELSE {}

\* step 2b: the policy decision is durable before any provider is called
Policy(w) ==
    /\ pc[w] = "policy"
    /\ \E extern \in BOOLEAN, onHost \in SUBSET Ops :
         LET allowed == Permitted(w, extern, onHost) IN
         /\ Goto(w, Route(w, extern, allowed))
         /\ wk' = [wk EXCEPT ![w].allowed = allowed]
    /\ Record(w, "policy_decision")
    /\ UNCHANGED <<deleted, job, rows, skipped, clock>>

FailOpen_Bug(w, extern, allowed) ==
    /\ Goto(w, Route(w, extern, allowed))
    /\ wk' = [wk EXCEPT ![w].seen = Current, ![w].allowed = allowed]
    /\ UNCHANGED skipped

\* "fail-closed": without the record only the local steps go on
Unrecorded(w, extern, allowed) ==
    IF extern \/ allowed # {} THEN GiveUp(w, TRUE) /\ skipped' = Leaves(w)
                              ELSE GoOn(w, "fts") /\ UNCHANGED skipped

PolicyUnrecorded(w) ==
    /\ pc[w] = "policy"
    /\ \E extern \in BOOLEAN, onHost \in SUBSET Ops :
         Unrecorded(w, extern, Permitted(w, extern, onHost))
    /\ UNCHANGED durable

\* no provider: raw text becomes searchable, then the job waits
Park(w) ==
    /\ pc[w] = "park"
    /\ rows' = Added("fts")
    /\ Proceed(w, "parked")
    /\ UNCHANGED <<deleted, job, log, skipped, clock>>

\* set_pending_provider, and the dispatch is over
Wait(w) ==
    /\ pc[w] = "parked"
    /\ job' = Written(w, "pending_provider", "no_provider")
    /\ skipped' = Leaves(w)
    /\ Return(w)
    /\ UNCHANGED <<deleted, rows, log, clock>>

AlwaysSummarizes_Bug(w) ==
    /\ pc[w] = "summary"
    /\ Proceed(w, IF "sum" \in wk[w].allowed THEN "summarizing" ELSE "extract")
    /\ UNCHANGED <<durable, skipped>>

\* step 3, first half: an active summary is not made again
CheckSummary(w) ==
    /\ pc[w] = "summary"
    /\ Proceed(w, IF rows["summary"] = 0 /\ "sum" \in wk[w].allowed
                    THEN "summarizing" ELSE "extract")
    /\ UNCHANGED <<durable, skipped>>

\* the provider answers; an empty answer writes nothing
Summarize(w) ==
    /\ pc[w] = "summarizing"
    /\ rows' \in Summaries
    /\ Proceed(w, "extract")
    /\ UNCHANGED <<deleted, job, log, skipped, clock>>

\* an uncategorised failure, or any failure once the text was obtained
SummaryBreaks(w) ==
    /\ pc[w] = "summarizing"
    /\ rows' \in Summaries
    /\ GiveUp(w, TRUE)
    /\ skipped' = Leaves(w)
    /\ UNCHANGED <<deleted, job, log, clock>>

\* a provider failure: retried, or on the last attempt given up
SummaryFails(w) ==
    /\ pc[w] = "summarizing"
    /\ IF job.att < MaxAttempts
         THEN GiveUp(w, TRUE) /\ skipped' = Leaves(w)
         ELSE GoOn(w, "sum_audit") /\ UNCHANGED skipped
    /\ UNCHANGED durable

AuditLost_Bug(w) ==
    /\ pc[w] = "sum_audit"
    /\ Goto(w, "extract")
    /\ wk' = [wk EXCEPT ![w].failed = TRUE]
    /\ UNCHANGED <<durable, skipped>>

AuditSummary(w) ==
    /\ pc[w] = "sum_audit"
    /\ Record(w, "summary_failed")
    /\ Goto(w, "extract")
    /\ wk' = [wk EXCEPT ![w].failed = TRUE]
    /\ UNCHANGED <<deleted, job, rows, skipped, clock>>

AuditSummaryFails(w) ==
    /\ pc[w] = "sum_audit"
    /\ GiveUp(w, FALSE)
    /\ skipped' = Leaves(w)
    /\ UNCHANGED durable

\* step 3, second half: facts and their tags, when a provider may be called
Extract(w) ==
    /\ pc[w] = "extract"
    /\ rows' \in Facts(w)
    /\ Proceed(w, "fts")
    /\ UNCHANGED <<deleted, job, log, skipped, clock>>

\* a failure before or after the commit of the facts ends the dispatch
ExtractFails(w) ==
    /\ pc[w] = "extract"
    /\ "ext" \in wk[w].allowed
    /\ rows' \in Facts(w)
    /\ GiveUp(w, ~wk[w].failed)
    /\ skipped' = Leaves(w)
    /\ UNCHANGED <<deleted, job, log, clock>>

\* step 4: one more index entry, or none
Index(w) ==
    /\ pc[w] = "fts"
    /\ \/ rows' = Added("fts") /\ Proceed(w, "embed")
       \/ rows' \in {rows, Added("fts")} /\ GoOn(w, "embed")
    /\ UNCHANGED <<deleted, job, log, skipped, clock>>

\* step 5: an active embedding is not made again
CheckEmbedding(w) ==
    /\ pc[w] = "embed"
    /\ Proceed(w, IF rows["embedding"] = 0 THEN "embedding" ELSE "detect")
    /\ UNCHANGED <<durable, skipped>>

Embed(w) ==
    /\ pc[w] = "embedding"
    /\ \/ rows' = Added("embedding") /\ Proceed(w, "detect")
       \/ rows' \in {rows, Added("embedding")} /\ GoOn(w, "detect")
    /\ UNCHANGED <<deleted, job, log, skipped, clock>>

\* step 6: the source's active embedding is compared with those of the others
Detect(w) ==
    /\ pc[w] = "detect"
    /\ \/ Proceed(w, "links") \/ GoOn(w, "links")
       \/ rows["embedding"] > 0 /\ Proceed(w, "conflict")
    /\ UNCHANGED <<durable, skipped>>

AuditConflict(w) ==
    /\ pc[w] = "conflict"
    /\ Proceed(w, "links") \/ GoOn(w, "links")
    /\ UNCHANGED <<durable, skipped>>

\* step 7, pass A: facts near the source's, when it has facts and an embedding
Relate(w) ==
    /\ pc[w] = "links"
    /\ \/ Proceed(w, "reconcile") \/ GoOn(w, "reconcile")
       \/ /\ rows["fact"] > 0 /\ rows["embedding"] > 0
          /\ "link" \in wk[w].allowed
          /\ Proceed(w, "classify")
    /\ UNCHANGED <<durable, skipped>>

\* step 7, pass B: the provider classifies the pairs; pass C ends the step
Classify(w) ==
    /\ pc[w] = "classify"
    /\ Proceed(w, "reconcile") \/ GoOn(w, "reconcile")
    /\ UNCHANGED <<durable, skipped>>

\* step 8: suppress_new_derivations_if_deleted under the source's row lock
Reconcile(w) ==
    /\ pc[w] = "reconcile"
    /\ rows' = IF deleted THEN Suppressed ELSE rows
    /\ Proceed(w, "complete")
    /\ UNCHANGED <<deleted, job, log, skipped, clock>>

ReconcileFails(w) ==
    /\ pc[w] = "reconcile"
    /\ GoOn(w, "complete")
    /\ skipped' = Leaves(w)
    /\ UNCHANGED durable

\* complete_job, "partial" after a summary that was given up
Complete(w) ==
    /\ pc[w] = "complete"
    /\ job' = Written(w, "completed", IF wk[w].failed THEN "partial" ELSE "none")
    /\ Return(w)
    /\ UNCHANGED <<deleted, rows, log, skipped, clock>>

\* fail_job by the attempts the instance shows
Fail(w) ==
    /\ pc[w] = "failing"
    /\ job' = Written(w, IF wk[w].retry /\ wk[w].seen.att < MaxAttempts
                           THEN "retryable_failed" ELSE "failed", "error")
    /\ Return(w)
    /\ UNCHANGED <<deleted, rows, log, skipped, clock>>

\* an exception no stage handles: a query outside a try, or fail_job itself
Escape(w) ==
    /\ pc[w] \in Busy \ {"gate", "escaped"}
    /\ skipped' = Leaves(w)
    /\ Proceed(w, "escaped")
    /\ UNCHANGED durable

\* recover_claimed_job_after_dispatch_failure: the only fenced write
Recover(w) ==
    /\ pc[w] = "escaped"
    /\ job' = IF job.status = "claimed" /\ job.att = wk[w].att /\ job.at = wk[w].at
                THEN [job EXCEPT !.status = IF job.att < MaxAttempts
                                              THEN "retryable_failed" ELSE "failed",
                                 !.err = "error"]
                ELSE job
    /\ Return(w)
    /\ UNCHANGED <<deleted, rows, log, skipped, clock>>

RecoverFails(w) ==
    /\ pc[w] = "escaped"
    /\ Return(w)
    /\ UNCHANGED <<durable, skipped>>

Crash(w) ==
    /\ pc[w] # "down"
    /\ skipped' = Leaves(w)
    /\ Goto(w, "down")
    /\ wk' = [wk EXCEPT ![w] = Fresh({})]
    /\ UNCHANGED durable

StaleAnyStatus_Bug == job.aged

IsStale == job.status = "claimed" /\ job.aged

\* a process starts with its settings, and reset_stale_jobs runs once
Start(w) ==
    /\ pc[w] = "down"
    /\ Goto(w, "idle")
    /\ \E keys \in Settings : wk' = [wk EXCEPT ![w] = Fresh(keys)]
    /\ job' = IF IsStale THEN [job EXCEPT !.status = "pending", !.att = @ - 1] ELSE job
    /\ UNCHANGED <<deleted, rows, log, skipped, clock>>

-----------------------------------------------------------------------------
(* Everyone else *)

\* ten minutes pass since the claim
Age ==
    /\ job.status = "claimed" /\ ~job.aged
    /\ job' = [job EXCEPT !.aged = TRUE]
    /\ UNCHANGED <<deleted, rows, log, skipped, clock, pc, wk>>

\* reactivate_pending_provider_jobs
Reactivate ==
    /\ job.status = "pending_provider"
    /\ job' = [job EXCEPT !.status = "pending", !.err = "none"]
    /\ UNCHANGED <<deleted, rows, log, skipped, clock, pc, wk>>

\* reprocess_job, the legacy reset
Reprocess ==
    /\ job.status \in {"failed", "retryable_failed", "pending_provider"}
    /\ job' = [job EXCEPT !.status = "pending", !.att = 0, !.err = "none"]
    /\ UNCHANGED <<deleted, rows, log, skipped, clock, pc, wk>>

\* cascade_delete_archive_item
Delete ==
    /\ ~deleted
    /\ deleted' = TRUE
    /\ rows' = Suppressed
    /\ UNCHANGED <<job, log, skipped, clock, pc, wk>>

-----------------------------------------------------------------------------

Init ==
    /\ deleted = FALSE
    /\ job = [status |-> "pending", att |-> 0, err |-> "none", at |-> 0, aged |-> FALSE]
    /\ rows = [kind \in Kinds |-> 0]
    /\ log = {}
    /\ skipped = FALSE
    /\ clock = 0
    /\ pc = [w \in Workers |-> "down"]
    /\ wk = [w \in Workers |-> Fresh({})]

Dispatch(w) ==
    \/ Load(w) \/ Gate(w) \/ GateAuditFails(w) \/ GateFails(w)
    \/ Policy(w) \/ PolicyUnrecorded(w) \/ Park(w) \/ Wait(w)
    \/ CheckSummary(w) \/ Summarize(w) \/ SummaryBreaks(w) \/ SummaryFails(w)
    \/ AuditSummary(w) \/ AuditSummaryFails(w)
    \/ Extract(w) \/ ExtractFails(w)
    \/ Index(w) \/ CheckEmbedding(w) \/ Embed(w)
    \/ Detect(w) \/ AuditConflict(w) \/ Relate(w) \/ Classify(w)
    \/ Reconcile(w) \/ ReconcileFails(w) \/ Complete(w)
    \/ Fail(w) \/ Escape(w) \/ Recover(w) \/ RecoverFails(w)

Next ==
    \/ \E w \in Workers : ClaimNext(w) \/ Dispatch(w) \/ Crash(w) \/ Start(w)
    \/ Age \/ Reactivate \/ Reprocess \/ Delete

Spec == Init /\ [][Next]_vars
=============================================================================
