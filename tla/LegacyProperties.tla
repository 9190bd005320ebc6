-------------------------- MODULE LegacyProperties --------------------------
(***************************************************************************)
(* What holds of the legacy pipeline, and what its comments promise.       *)
(***************************************************************************)
EXTENDS LegacyPipeline

\* The deletion race is reconciled: rows of a deleted source are active only
\* while a dispatch that loaded it has its Reconcile ahead of it, or after one
\* left without reaching that step.
ReconciledUnlessSkipped ==
    deleted /\ (\E kind \in Kinds : rows[kind] > 0) =>
        skipped \/ \E w \in Workers : pc[w] \in Running

\* A job that reports a partial result has the durable audit event of the
\* summary that was given up, whoever wrote the row last.
PartialIsAudited ==
    job.err = "partial" =>
        \E at \in 1..MaxClaims : <<"summary_failed", at>> \in log

\* "authorization must be durable before processing": a dispatch about to call
\* a provider, also the one that classifies links several stages later, has
\* recorded the decision under its own claim, and no summary or fact exists
\* without a recorded decision.
AuthorizedFirst ==
    /\ \A w \in Workers :
         pc[w] \in {"summary", "summarizing", "sum_audit", "extract", "classify"} =>
           <<"policy_decision", wk[w].at>> \in log
    /\ rows["summary"] + rows["fact"] > 0 =>
         \E at \in 1..MaxClaims : <<"policy_decision", at>> \in log

-----------------------------------------------------------------------------
(* The pipeline with a history of overlaps *)

\* history: two processes were at the source at the same time
VARIABLE raced

Overlap == \E v, w \in Workers : v # w /\ pc[v] \in Running /\ pc[w] \in Running

ObservedInit == Init /\ raced = FALSE
ObservedNext == Next /\ raced' = (raced \/ Overlap')
ObservedSpec == ObservedInit /\ [][ObservedNext]_<<vars, raced>>

\* However often its process crashes, retries, restarts with other settings or
\* is asked to reprocess, a source never has two active summaries or two active
\* embeddings, unless two processes were at it at the same time.
OneOfEach == ~raced => rows["summary"] <= 1 /\ rows["embedding"] <= 1

\* no two processes ever met, and a provider is asked for what is not there
Alone ==
    ~raced =>
        /\ ~Overlap
        /\ rows["summary"] <= 1 /\ rows["embedding"] <= 1
        /\ \A w \in Workers : /\ pc[w] = "summarizing" => rows["summary"] = 0
                              /\ pc[w] = "embedding" => rows["embedding"] = 0

-----------------------------------------------------------------------------
(* Promises the code does not keep *)

\* archive/service.py: "both interleavings converge on 'all derivations
\* suppressed'".  Here no dispatch runs, the last one ended in order and waits
\* for a provider, and nothing failed on the way.
DeletionConverges ==
    deleted /\ job.status = "pending_provider" /\ (\A w \in Workers : pc[w] = "idle") =>
        \A kind \in Kinds : rows[kind] = 0

\* dispatcher.py: "Failed to write sensitivity_gate audit event (non-fatal)",
\* so no dispatch is thrown out of its gate stage.
GateAuditIsNonFatal ==
    [][\A w \in Workers : ~(pc[w] = "gate" /\ pc'[w] = "escaped")]_vars

\* test_dispatcher.py: "Switching provider does not re-run already-completed
\* sub-jobs".  The facts of a source are extracted once.
CompletedNotRerun == ~raced => rows["fact"] <= 1
=============================================================================
