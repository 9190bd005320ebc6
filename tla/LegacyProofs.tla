---------------------------- MODULE LegacyProofs ----------------------------
(***************************************************************************)
(* Machine-checked proofs about the legacy pipeline, for any number of     *)
(* processes, claims and attempts.                                         *)
(***************************************************************************)
EXTENDS LegacyProperties, TLAPS

(* What the properties rest on *)

\* a claimed job consumed an attempt for its claim, so the stale reset can
\* give one back
Counted == job.status = "claimed" => job.att > 0

\* the parts of the type invariant, for the proofs
PlaceTypes == pc \in [Workers -> PCs] /\ wk \in [Workers -> Memory]
JobTypes   == job \in JobRow /\ Counted
RowTypes   == /\ deleted \in BOOLEAN
              /\ rows \in [Kinds -> Nat]
              /\ log \subseteq (Events \X (0..MaxClaims))
              /\ skipped \in BOOLEAN
              /\ clock \in 0..MaxClaims

\* a dispatch knows the claim it runs under, an idle loop remembers nothing
InDispatch == \A w \in Workers :
                /\ pc[w] \in Busy => wk[w].at \in 1..MaxClaims
                /\ pc[w] = "idle" => ~wk[w].failed

\* a dispatch that remembers a given-up summary has recorded it
GivenUp == \A w \in Workers : wk[w].failed =>
              /\ wk[w].at \in 1..MaxClaims
              /\ <<"summary_failed", wk[w].at>> \in log

\* what a dispatch may call was recorded when it was decided, and a loop between
\* dispatches may call nothing
Permissions == \A w \in Workers :
                 /\ pc[w] = "idle" => wk[w].allowed = {}
                 /\ pc[w] = "classify" => "link" \in wk[w].allowed
                 /\ wk[w].allowed # {} => <<"policy_decision", wk[w].at>> \in log
Authorized == AuthorizedFirst /\ Permissions

-----------------------------------------------------------------------------

\* The rows and memories that actions build are of their types.
LEMMA Values ==
    ASSUME TypeOK
    PROVE  /\ \A keys \in Configs : Fresh(keys) \in Memory
           /\ Current \in Instance
           /\ \A kind \in Kinds : Added(kind) \in [Kinds -> Nat]
           /\ Suppressed \in [Kinds -> Nat]
           /\ \A w \in Workers, s \in JobStatus, e \in Errors :
                /\ Written(w, s, e) \in JobRow
                /\ Written(w, s, e).status \in {s, job.status}
                /\ Written(w, s, e).att = job.att
<1>1. \A keys \in Configs : Fresh(keys) \in Memory
  BY ConstantsAssumption DEF Fresh, Memory, Instance, Blank, JobStatus, Errors
<1>2. Current \in Instance
  BY DEF TypeOK, Current, JobRow, Instance
<1>3. \A kind \in Kinds : Added(kind) \in [Kinds -> Nat]
  BY DEF TypeOK, Added
<1>4. Suppressed \in [Kinds -> Nat]
  BY DEF Suppressed
<1>5. ASSUME NEW w \in Workers, NEW s \in JobStatus, NEW e \in Errors
      PROVE  /\ Written(w, s, e) \in JobRow
             /\ Written(w, s, e).status \in {s, job.status}
             /\ Written(w, s, e).att = job.att
  BY <1>5 DEF TypeOK, Written, JobRow
<1>. QED
  BY <1>1, <1>2, <1>3, <1>4, <1>5

\* The initial state is well typed.
LEMMA InitTypes == Init => TypeOK /\ Counted
<1>. SUFFICES ASSUME Init PROVE TypeOK /\ Counted
  OBVIOUS
<1>1. wk \in [Workers -> Memory]
  <2>1. {} \in Configs
    BY DEF Configs
  <2>2. Blank \in Instance
    BY ConstantsAssumption DEF Blank, Instance, JobStatus, Errors
  <2>3. Fresh({}) \in Memory
    BY <2>1, <2>2, ConstantsAssumption DEF Fresh, Memory
  <2>. QED
    BY <2>3 DEF Init
<1>2. job \in JobRow /\ Counted
  BY ConstantsAssumption DEF Init, Counted, JobRow, JobStatus, Errors
<1>3. pc \in [Workers -> PCs] /\ rows \in [Kinds -> Nat] /\ clock \in 0..MaxClaims
  BY ConstantsAssumption DEF Init, PCs
<1>. QED
  BY <1>1, <1>2, <1>3 DEF Init, TypeOK

\* A worker's memory keeps its type when the stages update it.
LEMMA Updates ==
    ASSUME NEW m \in Memory
    PROVE  /\ \A i \in Instance : [m EXCEPT !.seen = i] \in Memory
           /\ \A r \in BOOLEAN : [m EXCEPT !.retry = r] \in Memory
           /\ \A i \in Instance, r \in BOOLEAN :
                [m EXCEPT !.seen = i, !.retry = r] \in Memory
           /\ [m EXCEPT !.failed = TRUE] \in Memory
           /\ \A a \in SUBSET Calls : [m EXCEPT !.allowed = a] \in Memory
           /\ \A n \in 0..MaxClaims, a \in 0..MaxAttempts, i \in Instance :
                [m EXCEPT !.at = n, !.att = a, !.seen = i] \in Memory
           /\ m.keys \in Configs /\ m.failed \in BOOLEAN
<1>1. \A i \in Instance : [m EXCEPT !.seen = i] \in Memory
  BY DEF Memory
<1>2. \A r \in BOOLEAN : [m EXCEPT !.retry = r] \in Memory
  BY DEF Memory
<1>3. \A i \in Instance, r \in BOOLEAN : [m EXCEPT !.seen = i, !.retry = r] \in Memory
  BY DEF Memory
<1>4. [m EXCEPT !.failed = TRUE] \in Memory
  BY DEF Memory
<1>5. \A a \in SUBSET Calls : [m EXCEPT !.allowed = a] \in Memory
  BY DEF Memory
<1>6. \A n \in 0..MaxClaims, a \in 0..MaxAttempts, i \in Instance :
        [m EXCEPT !.at = n, !.att = a, !.seen = i] \in Memory
  BY DEF Memory
<1>7. m.keys \in Configs /\ m.failed \in BOOLEAN
  BY DEF Memory
<1>. QED
  BY <1>1, <1>2, <1>3, <1>4, <1>5, <1>6, <1>7

\* Where a worker goes and what it holds stay of their types.
LEMMA Moves ==
    ASSUME TypeOK, NEW w \in Workers
    PROVE  /\ \A l \in PCs : Goto(w, l) => pc' \in [Workers -> PCs]
           /\ \A l \in PCs : Proceed(w, l) =>
                pc' \in [Workers -> PCs] /\ wk' \in [Workers -> Memory]
           /\ \A l \in PCs : GoOn(w, l) =>
                pc' \in [Workers -> PCs] /\ wk' \in [Workers -> Memory]
           /\ \A r \in BOOLEAN : GiveUp(w, r) =>
                pc' \in [Workers -> PCs] /\ wk' \in [Workers -> Memory]
           /\ Return(w) => pc' \in [Workers -> PCs] /\ wk' \in [Workers -> Memory]
<1>1. \A l \in PCs : Goto(w, l) => pc' \in [Workers -> PCs]
  BY DEF TypeOK, Goto
<1>2. "failing" \in PCs /\ "idle" \in PCs
  BY DEF PCs, Busy, Exits
<1>3. wk \in [Workers -> Memory]
  BY DEF TypeOK
<1>4. [wk[w] EXCEPT !.seen = Current] \in Memory
  BY <1>3, Values, Updates
<1>5. \A r \in BOOLEAN : [wk[w] EXCEPT !.seen = Current, !.retry = r] \in Memory
  BY <1>3, Values, Updates
<1>6. Fresh(wk[w].keys) \in Memory
  BY <1>3, Values, Updates
<1>. QED
  BY <1>1, <1>2, <1>3, <1>4, <1>5, <1>6 DEF Proceed, GoOn, GiveUp, Return

\* Control and memory are preserved.
LEMMA StepPlaces ==
    ASSUME TypeOK, [Next]_vars
    PROVE  PlaceTypes'
<1>. USE ConstantsAssumption DEF PlaceTypes, PCs, Busy, Running, Exits
<1>1. ASSUME NEW w \in Workers, ClaimNext(w) PROVE PlaceTypes'
  <2>1. clock + 1 \in 0..MaxClaims /\ job.att + 1 \in 0..MaxAttempts
    BY <1>1 DEF ClaimNext, TypeOK, JobRow
  <2>2. [status |-> "claimed", att |-> job.att + 1, err |-> job.err] \in Instance
    BY <2>1 DEF TypeOK, JobRow, Instance, JobStatus
  <2>3. wk[w] \in Memory
    BY DEF TypeOK
  <2>4. wk' \in [Workers -> Memory]
    BY <1>1, <2>1, <2>2, <2>3, Updates DEF ClaimNext, TypeOK
  <2>. QED
    BY <1>1, <2>4, Moves DEF ClaimNext
<1>2. ASSUME NEW w \in Workers, Crash(w) PROVE PlaceTypes'
  BY <1>2, Values DEF Crash, TypeOK, Goto, Configs
<1>3. ASSUME NEW w \in Workers, Start(w) PROVE PlaceTypes'
  BY <1>3, Values DEF Start, TypeOK, Goto
<1>4. ASSUME NEW w \in Workers, Load(w) PROVE PlaceTypes'
  <2>1. wk[w] \in Memory
    BY DEF TypeOK
  <2>2. [wk[w] EXCEPT !.retry = FALSE] \in Memory
    BY <2>1, Updates
  <2>. QED
    BY <1>4, <2>2, Moves DEF Load, TypeOK
<1>5. ASSUME NEW w \in Workers, Gate(w) PROVE PlaceTypes'
  BY <1>5, Moves DEF Gate
<1>5a. ASSUME NEW w \in Workers, GateAuditFails(w) PROVE PlaceTypes'
  BY <1>5a, Moves DEF GateAuditFails
<1>6. ASSUME NEW w \in Workers, GateFails(w) PROVE PlaceTypes'
  <2>1. wk[w] \in Memory
    BY DEF TypeOK
  <2>2. [wk[w] EXCEPT !.retry = TRUE] \in Memory
    BY <2>1, Updates
  <2>. QED
    BY <1>6, <2>2, Moves DEF GateFails, TypeOK
<1>7. ASSUME NEW w \in Workers, Policy(w) PROVE PlaceTypes'
  <2>1. wk[w] \in Memory
    BY DEF TypeOK
  <2>2. PICK extern \in BOOLEAN, onHost \in SUBSET Ops :
          /\ Goto(w, Route(w, extern, Permitted(w, extern, onHost)))
          /\ wk' = [wk EXCEPT ![w].allowed = Permitted(w, extern, onHost)]
    BY <1>7 DEF Policy
  <2>3. Permitted(w, extern, onHost) \in SUBSET Calls
    BY DEF Permitted, Calls, Ops
  <2>4. [wk[w] EXCEPT !.allowed = Permitted(w, extern, onHost)] \in Memory
    BY <2>1, <2>3, Updates
  <2>5. Route(w, extern, Permitted(w, extern, onHost)) \in PCs
    BY DEF Route
  <2>. QED
    BY <2>2, <2>4, <2>5, Moves DEF TypeOK
<1>8. ASSUME NEW w \in Workers, PolicyUnrecorded(w) PROVE PlaceTypes'
  BY <1>8, Moves DEF PolicyUnrecorded, Unrecorded
<1>9. ASSUME NEW w \in Workers, Park(w) PROVE PlaceTypes'
  BY <1>9, Moves DEF Park
<1>10. ASSUME NEW w \in Workers, Wait(w) PROVE PlaceTypes'
  BY <1>10, Moves DEF Wait
<1>11. ASSUME NEW w \in Workers, CheckSummary(w) PROVE PlaceTypes'
  BY <1>11, Moves DEF CheckSummary
<1>12. ASSUME NEW w \in Workers, Summarize(w) PROVE PlaceTypes'
  BY <1>12, Moves DEF Summarize, Summaries
<1>13. ASSUME NEW w \in Workers, SummaryBreaks(w) PROVE PlaceTypes'
  BY <1>13, Moves DEF SummaryBreaks, Summaries
<1>14. ASSUME NEW w \in Workers, SummaryFails(w) PROVE PlaceTypes'
  BY <1>14, Moves DEF SummaryFails
<1>15. ASSUME NEW w \in Workers, AuditSummary(w) PROVE PlaceTypes'
  <2>1. wk[w] \in Memory
    BY DEF TypeOK
  <2>2. [wk[w] EXCEPT !.failed = TRUE] \in Memory
    BY <2>1, Updates
  <2>. QED
    BY <1>15, <2>2, Moves DEF AuditSummary, TypeOK
<1>16. ASSUME NEW w \in Workers, AuditSummaryFails(w) PROVE PlaceTypes'
  BY <1>16, Moves DEF AuditSummaryFails
<1>17. ASSUME NEW w \in Workers, Extract(w) PROVE PlaceTypes'
  BY <1>17, Moves DEF Extract, Facts
<1>18. ASSUME NEW w \in Workers, ExtractFails(w) PROVE PlaceTypes'
  BY <1>18, Moves DEF ExtractFails, Facts, TypeOK, Memory
<1>19. ASSUME NEW w \in Workers, Index(w) PROVE PlaceTypes'
  BY <1>19, Moves DEF Index
<1>20. ASSUME NEW w \in Workers, CheckEmbedding(w) PROVE PlaceTypes'
  BY <1>20, Moves DEF CheckEmbedding
<1>21. ASSUME NEW w \in Workers, Embed(w) PROVE PlaceTypes'
  BY <1>21, Moves DEF Embed
<1>21a. ASSUME NEW w \in Workers, Detect(w) PROVE PlaceTypes'
  BY <1>21a, Moves DEF Detect
<1>21b. ASSUME NEW w \in Workers, AuditConflict(w) PROVE PlaceTypes'
  BY <1>21b, Moves DEF AuditConflict
<1>21c. ASSUME NEW w \in Workers, Relate(w) PROVE PlaceTypes'
  BY <1>21c, Moves DEF Relate
<1>21d. ASSUME NEW w \in Workers, Classify(w) PROVE PlaceTypes'
  BY <1>21d, Moves DEF Classify
<1>22. ASSUME NEW w \in Workers, Reconcile(w) PROVE PlaceTypes'
  BY <1>22, Moves DEF Reconcile
<1>23. ASSUME NEW w \in Workers, ReconcileFails(w) PROVE PlaceTypes'
  BY <1>23, Moves DEF ReconcileFails
<1>24. ASSUME NEW w \in Workers, Complete(w) PROVE PlaceTypes'
  BY <1>24, Moves DEF Complete
<1>25. ASSUME NEW w \in Workers, Fail(w) PROVE PlaceTypes'
  BY <1>25, Moves DEF Fail
<1>26. ASSUME NEW w \in Workers, Escape(w) PROVE PlaceTypes'
  BY <1>26, Moves DEF Escape
<1>27. ASSUME NEW w \in Workers, Recover(w) PROVE PlaceTypes'
  BY <1>27, Moves DEF Recover
<1>28. ASSUME NEW w \in Workers, RecoverFails(w) PROVE PlaceTypes'
  BY <1>28, Moves DEF RecoverFails
<1>29. CASE Age
  BY <1>29 DEF Age, TypeOK
<1>30. CASE Reactivate
  BY <1>30 DEF Reactivate, TypeOK
<1>31. CASE Reprocess
  BY <1>31 DEF Reprocess, TypeOK
<1>32. CASE Delete
  BY <1>32 DEF Delete, TypeOK
<1>33. CASE UNCHANGED vars
  BY <1>33 DEF vars, TypeOK
<1>. QED
  BY <1>1, <1>2, <1>3, <1>4, <1>5, <1>5a, <1>6, <1>7, <1>8, <1>9, <1>10, <1>11, <1>12,
     <1>13, <1>14, <1>15, <1>16, <1>17, <1>18, <1>19, <1>20, <1>21, <1>21a, <1>21b,
     <1>21c, <1>21d, <1>22, <1>23,
     <1>24, <1>25, <1>26, <1>27, <1>28, <1>29, <1>30, <1>31, <1>32, <1>33 DEF Next,
     Dispatch

\* The job row is preserved, and so is the attempt a claim has counted.
LEMMA StepJob ==
    ASSUME TypeOK, Counted, [Next]_vars
    PROVE  JobTypes'
<1>. USE ConstantsAssumption DEF JobTypes
<1>1. ASSUME NEW w \in Workers, ClaimNext(w) PROVE JobTypes'
  <2>1. clock + 1 \in 0..MaxClaims /\ job.att + 1 \in 0..MaxAttempts /\ job.att + 1 > 0
    BY <1>1 DEF ClaimNext, TypeOK, JobRow
  <2>2. "claimed" \in JobStatus
    BY DEF JobStatus
  <2>. QED
    BY <1>1, <2>1, <2>2 DEF ClaimNext, TypeOK, Counted, JobRow
<1>2. ASSUME NEW w \in Workers, Crash(w) PROVE JobTypes'
  BY <1>2 DEF Crash, TypeOK, Counted, JobRow, JobStatus, Errors, durable
<1>3. ASSUME NEW w \in Workers, Start(w) PROVE JobTypes'
  <2>1. CASE UNCHANGED job
    BY <2>1 DEF TypeOK, Counted
  <2>2. CASE job.status = "claimed" /\ job' = [job EXCEPT !.status = "pending", !.att
  = @ - 1]
    <3>1. job.att - 1 \in 0..MaxAttempts /\ "pending" \in JobStatus
      BY <2>2 DEF TypeOK, Counted, JobRow, JobStatus
    <3>. QED
      BY <2>2, <3>1 DEF TypeOK, Counted, JobRow
  <2>. QED
    BY <1>3, <2>1, <2>2 DEF Start, IsStale
<1>4. ASSUME NEW w \in Workers, Load(w) PROVE JobTypes'
  BY <1>4 DEF Load, TypeOK, Counted, JobRow, JobStatus, Errors, durable
<1>5. ASSUME NEW w \in Workers, Gate(w) PROVE JobTypes'
  BY <1>5 DEF Gate, TypeOK, Counted, JobRow, JobStatus, Errors, durable
<1>5a. ASSUME NEW w \in Workers, GateAuditFails(w) PROVE JobTypes'
  BY <1>5a DEF GateAuditFails, TypeOK, Counted, durable
<1>6. ASSUME NEW w \in Workers, GateFails(w) PROVE JobTypes'
  BY <1>6 DEF GateFails, TypeOK, Counted, JobRow, JobStatus, Errors, durable
<1>7. ASSUME NEW w \in Workers, Policy(w) PROVE JobTypes'
  BY <1>7 DEF Policy, TypeOK, Counted, JobRow, JobStatus, Errors
<1>8. ASSUME NEW w \in Workers, PolicyUnrecorded(w) PROVE JobTypes'
  BY <1>8 DEF PolicyUnrecorded, TypeOK, Counted, JobRow, JobStatus, Errors, durable
<1>9. ASSUME NEW w \in Workers, Park(w) PROVE JobTypes'
  BY <1>9 DEF Park, TypeOK, Counted, JobRow, JobStatus, Errors
<1>10. ASSUME NEW w \in Workers, Wait(w) PROVE JobTypes'
  BY <1>10, Values DEF Wait, TypeOK, Counted, JobRow, JobStatus, Errors, Memory
<1>11. ASSUME NEW w \in Workers, CheckSummary(w) PROVE JobTypes'
  BY <1>11 DEF CheckSummary, TypeOK, Counted, JobRow, JobStatus, Errors, durable
<1>12. ASSUME NEW w \in Workers, Summarize(w) PROVE JobTypes'
  BY <1>12 DEF Summarize, Summaries, TypeOK, Counted, JobRow, JobStatus, Errors
<1>13. ASSUME NEW w \in Workers, SummaryBreaks(w) PROVE JobTypes'
  BY <1>13 DEF SummaryBreaks, Summaries, TypeOK, Counted, JobRow, JobStatus, Errors
<1>14. ASSUME NEW w \in Workers, SummaryFails(w) PROVE JobTypes'
  BY <1>14 DEF SummaryFails, TypeOK, Counted, JobRow, JobStatus, Errors, durable
<1>15. ASSUME NEW w \in Workers, AuditSummary(w) PROVE JobTypes'
  BY <1>15 DEF AuditSummary, TypeOK, Counted, JobRow, JobStatus, Errors
<1>16. ASSUME NEW w \in Workers, AuditSummaryFails(w) PROVE JobTypes'
  BY <1>16 DEF AuditSummaryFails, TypeOK, Counted, JobRow, JobStatus, Errors, durable
<1>17. ASSUME NEW w \in Workers, Extract(w) PROVE JobTypes'
  BY <1>17 DEF Extract, Facts, TypeOK, Counted, JobRow, JobStatus, Errors
<1>18. ASSUME NEW w \in Workers, ExtractFails(w) PROVE JobTypes'
  BY <1>18 DEF ExtractFails, Facts, TypeOK, Counted, JobRow, JobStatus, Errors
<1>19. ASSUME NEW w \in Workers, Index(w) PROVE JobTypes'
  BY <1>19 DEF Index, TypeOK, Counted, JobRow, JobStatus, Errors
<1>20. ASSUME NEW w \in Workers, CheckEmbedding(w) PROVE JobTypes'
  BY <1>20 DEF CheckEmbedding, TypeOK, Counted, JobRow, JobStatus, Errors, durable
<1>21. ASSUME NEW w \in Workers, Embed(w) PROVE JobTypes'
  BY <1>21 DEF Embed, TypeOK, Counted, JobRow, JobStatus, Errors
<1>21a. ASSUME NEW w \in Workers, Detect(w) PROVE JobTypes'
  BY <1>21a DEF Detect, durable, TypeOK, Counted, JobRow, JobStatus, Errors
<1>21b. ASSUME NEW w \in Workers, AuditConflict(w) PROVE JobTypes'
  BY <1>21b DEF AuditConflict, durable, TypeOK, Counted, JobRow, JobStatus, Errors
<1>21c. ASSUME NEW w \in Workers, Relate(w) PROVE JobTypes'
  BY <1>21c DEF Relate, durable, TypeOK, Counted, JobRow, JobStatus, Errors
<1>21d. ASSUME NEW w \in Workers, Classify(w) PROVE JobTypes'
  BY <1>21d DEF Classify, durable, TypeOK, Counted, JobRow, JobStatus, Errors
<1>22. ASSUME NEW w \in Workers, Reconcile(w) PROVE JobTypes'
  BY <1>22 DEF Reconcile, TypeOK, Counted, JobRow, JobStatus, Errors
<1>23. ASSUME NEW w \in Workers, ReconcileFails(w) PROVE JobTypes'
  BY <1>23 DEF ReconcileFails, TypeOK, Counted, JobRow, JobStatus, Errors, durable
<1>24. ASSUME NEW w \in Workers, Complete(w) PROVE JobTypes'
  BY <1>24, Values DEF Complete, TypeOK, Counted, JobRow, JobStatus, Errors, Memory
<1>25. ASSUME NEW w \in Workers, Fail(w) PROVE JobTypes'
  BY <1>25, Values DEF Fail, TypeOK, Counted, JobRow, JobStatus, Errors, Memory
<1>26. ASSUME NEW w \in Workers, Escape(w) PROVE JobTypes'
  BY <1>26 DEF Escape, TypeOK, Counted, JobRow, JobStatus, Errors, durable
<1>27. ASSUME NEW w \in Workers, Recover(w) PROVE JobTypes'
  BY <1>27 DEF Recover, TypeOK, Counted, JobRow, JobStatus, Errors
<1>28. ASSUME NEW w \in Workers, RecoverFails(w) PROVE JobTypes'
  BY <1>28 DEF RecoverFails, TypeOK, Counted, JobRow, JobStatus, Errors, durable
<1>29. CASE Age
  BY <1>29 DEF Age, TypeOK, Counted, JobRow, JobStatus, Errors
<1>30. CASE Reactivate
  BY <1>30 DEF Reactivate, TypeOK, Counted, JobRow, JobStatus, Errors
<1>31. CASE Reprocess
  <2>1. "pending" \in JobStatus /\ "none" \in Errors /\ 0 \in 0..MaxAttempts
    BY DEF JobStatus, Errors
  <2>. QED
    BY <1>31, <2>1 DEF Reprocess, TypeOK, Counted, JobRow
<1>32. CASE Delete
  BY <1>32 DEF Delete, TypeOK, Counted, JobRow, JobStatus, Errors
<1>33. CASE UNCHANGED vars
  BY <1>33 DEF vars, TypeOK, Counted, JobRow, JobStatus, Errors
<1>. QED
  BY <1>1, <1>2, <1>3, <1>4, <1>5, <1>5a, <1>6, <1>7, <1>8, <1>9, <1>10, <1>11, <1>12,
     <1>13, <1>14, <1>15, <1>16, <1>17, <1>18, <1>19, <1>20, <1>21, <1>21a, <1>21b,
     <1>21c, <1>21d, <1>22, <1>23,
     <1>24, <1>25, <1>26, <1>27, <1>28, <1>29, <1>30, <1>31, <1>32, <1>33 DEF Next,
     Dispatch

\* The other rows are preserved.
LEMMA StepRows ==
    ASSUME TypeOK, [Next]_vars
    PROVE  RowTypes'
<1>. USE ConstantsAssumption DEF RowTypes, TypeOK, Leaves, durable, Record, Events
<1>1. ASSUME NEW w \in Workers, ClaimNext(w) PROVE RowTypes'
  BY <1>1, Values DEF ClaimNext, Kinds, Memory
<1>2. ASSUME NEW w \in Workers, Crash(w) PROVE RowTypes'
  BY <1>2, Values DEF Crash, Kinds, Memory
<1>3. ASSUME NEW w \in Workers, Start(w) PROVE RowTypes'
  BY <1>3, Values DEF Start, Kinds, Memory
<1>4. ASSUME NEW w \in Workers, Load(w) PROVE RowTypes'
  BY <1>4, Values DEF Load, Kinds, Memory
<1>5. ASSUME NEW w \in Workers, Gate(w) PROVE RowTypes'
  BY <1>5, Values DEF Gate, Kinds, Memory
<1>5a. ASSUME NEW w \in Workers, GateAuditFails(w) PROVE RowTypes'
  BY <1>5a DEF GateAuditFails, Proceed
<1>6. ASSUME NEW w \in Workers, GateFails(w) PROVE RowTypes'
  BY <1>6, Values DEF GateFails, Kinds, Memory
<1>7. ASSUME NEW w \in Workers, Policy(w) PROVE RowTypes'
  BY <1>7, Values DEF Policy, Kinds, Memory
<1>8. ASSUME NEW w \in Workers, PolicyUnrecorded(w) PROVE RowTypes'
  BY <1>8, Values DEF PolicyUnrecorded, Kinds, Memory, Unrecorded
<1>9. ASSUME NEW w \in Workers, Park(w) PROVE RowTypes'
  BY <1>9, Values DEF Park, Kinds, Memory
<1>10. ASSUME NEW w \in Workers, Wait(w) PROVE RowTypes'
  BY <1>10, Values DEF Wait, Kinds, Memory
<1>11. ASSUME NEW w \in Workers, CheckSummary(w) PROVE RowTypes'
  BY <1>11, Values DEF CheckSummary, Kinds, Memory
<1>12. ASSUME NEW w \in Workers, Summarize(w) PROVE RowTypes'
  BY <1>12, Values DEF Summarize, Summaries, Kinds, Memory
<1>13. ASSUME NEW w \in Workers, SummaryBreaks(w) PROVE RowTypes'
  BY <1>13, Values DEF SummaryBreaks, Summaries, Kinds, Memory
<1>14. ASSUME NEW w \in Workers, SummaryFails(w) PROVE RowTypes'
  BY <1>14, Values DEF SummaryFails, Kinds, Memory
<1>15. ASSUME NEW w \in Workers, AuditSummary(w) PROVE RowTypes'
  BY <1>15, Values DEF AuditSummary, Kinds, Memory
<1>16. ASSUME NEW w \in Workers, AuditSummaryFails(w) PROVE RowTypes'
  BY <1>16, Values DEF AuditSummaryFails, Kinds, Memory
<1>17. ASSUME NEW w \in Workers, Extract(w) PROVE RowTypes'
  BY <1>17, Values DEF Extract, Facts, Kinds, Memory
<1>18. ASSUME NEW w \in Workers, ExtractFails(w) PROVE RowTypes'
  BY <1>18, Values DEF ExtractFails, Facts, Kinds, Memory
<1>19. ASSUME NEW w \in Workers, Index(w) PROVE RowTypes'
  BY <1>19, Values DEF Index, Kinds, Memory
<1>20. ASSUME NEW w \in Workers, CheckEmbedding(w) PROVE RowTypes'
  BY <1>20, Values DEF CheckEmbedding, Kinds, Memory
<1>21. ASSUME NEW w \in Workers, Embed(w) PROVE RowTypes'
  BY <1>21, Values DEF Embed, Kinds, Memory
<1>21a. ASSUME NEW w \in Workers, Detect(w) PROVE RowTypes'
  BY <1>21a, Values DEF Detect, Kinds, Memory
<1>21b. ASSUME NEW w \in Workers, AuditConflict(w) PROVE RowTypes'
  BY <1>21b, Values DEF AuditConflict, Kinds, Memory
<1>21c. ASSUME NEW w \in Workers, Relate(w) PROVE RowTypes'
  BY <1>21c, Values DEF Relate, Kinds, Memory
<1>21d. ASSUME NEW w \in Workers, Classify(w) PROVE RowTypes'
  BY <1>21d, Values DEF Classify, Kinds, Memory
<1>22. ASSUME NEW w \in Workers, Reconcile(w) PROVE RowTypes'
  BY <1>22, Values DEF Reconcile, Kinds, Memory
<1>23. ASSUME NEW w \in Workers, ReconcileFails(w) PROVE RowTypes'
  BY <1>23, Values DEF ReconcileFails, Kinds, Memory
<1>24. ASSUME NEW w \in Workers, Complete(w) PROVE RowTypes'
  BY <1>24, Values DEF Complete, Kinds, Memory
<1>25. ASSUME NEW w \in Workers, Fail(w) PROVE RowTypes'
  BY <1>25, Values DEF Fail, Kinds, Memory
<1>26. ASSUME NEW w \in Workers, Escape(w) PROVE RowTypes'
  BY <1>26, Values DEF Escape, Kinds, Memory
<1>27. ASSUME NEW w \in Workers, Recover(w) PROVE RowTypes'
  BY <1>27, Values DEF Recover, Kinds, Memory
<1>28. ASSUME NEW w \in Workers, RecoverFails(w) PROVE RowTypes'
  BY <1>28, Values DEF RecoverFails, Kinds, Memory
<1>29. CASE Age
  BY <1>29, Values DEF Age, Kinds, Memory
<1>30. CASE Reactivate
  BY <1>30, Values DEF Reactivate, Kinds, Memory
<1>31. CASE Reprocess
  BY <1>31, Values DEF Reprocess, Kinds, Memory
<1>32. CASE Delete
  BY <1>32, Values DEF Delete, Kinds, Memory
<1>33. CASE UNCHANGED vars
  BY <1>33, Values DEF vars, Kinds, Memory
<1>. QED
  BY <1>1, <1>2, <1>3, <1>4, <1>5, <1>5a, <1>6, <1>7, <1>8, <1>9, <1>10, <1>11, <1>12,
     <1>13, <1>14, <1>15, <1>16, <1>17, <1>18, <1>19, <1>20, <1>21, <1>21a, <1>21b,
     <1>21c, <1>21d, <1>22, <1>23,
     <1>24, <1>25, <1>26, <1>27, <1>28, <1>29, <1>30, <1>31, <1>32, <1>33 DEF Next,
     Dispatch

\* All of it together.
LEMMA StepTypes ==
    ASSUME TypeOK, Counted, [Next]_vars
    PROVE  (TypeOK /\ Counted)'
  BY StepPlaces, StepJob, StepRows DEF TypeOK, PlaceTypes, JobTypes, RowTypes

\* Every variable keeps its type: no attempt is given back that was not
\* counted, although the workers' writes of the job are not fenced.
THEOREM TypeCorrect == Spec => []TypeOK
<1>. Spec => [](TypeOK /\ Counted)
  BY InitTypes, StepTypes, PTL DEF Spec
<1>. QED
  BY PTL

-----------------------------------------------------------------------------

\* Rows of a deleted source survive only in front of a Reconcile or behind a
\* dispatch that left without one.
LEMMA StepReconciled ==
    ASSUME TypeOK, ReconciledUnlessSkipped, [Next]_vars
    PROVE  ReconciledUnlessSkipped'
<1>. USE DEF ReconciledUnlessSkipped, TypeOK
<1>1. ASSUME NEW w \in Workers, ClaimNext(w) PROVE ReconciledUnlessSkipped'
  BY <1>1 DEF ClaimNext, Goto, Running, Kinds
<1>2. ASSUME NEW w \in Workers, Crash(w) PROVE ReconciledUnlessSkipped'
  BY <1>2 DEF Crash, Goto, durable, Leaves, Running, Kinds
<1>3. ASSUME NEW w \in Workers, Start(w) PROVE ReconciledUnlessSkipped'
  BY <1>3 DEF Start, Goto, Running, Kinds
<1>4. ASSUME NEW w \in Workers, Load(w) PROVE ReconciledUnlessSkipped'
  BY <1>4 DEF Load, Proceed, Goto, durable, Running, Kinds
<1>5. ASSUME NEW w \in Workers, Gate(w) PROVE ReconciledUnlessSkipped'
  BY <1>5 DEF Gate, Proceed, Goto, GoOn, durable, Running, Kinds
<1>5a. ASSUME NEW w \in Workers, GateAuditFails(w) PROVE ReconciledUnlessSkipped'
  BY <1>5a DEF GateAuditFails, Proceed, Goto, Leaves, durable, Running
<1>6. ASSUME NEW w \in Workers, GateFails(w) PROVE ReconciledUnlessSkipped'
  BY <1>6 DEF GateFails, Goto, durable, Leaves, Running, Kinds
<1>7. ASSUME NEW w \in Workers, Policy(w) PROVE ReconciledUnlessSkipped'
  BY <1>7 DEF Policy, Goto, Record, Running, Route, Kinds
<1>8. ASSUME NEW w \in Workers, PolicyUnrecorded(w) PROVE ReconciledUnlessSkipped'
  BY <1>8 DEF PolicyUnrecorded, Goto, GoOn, GiveUp, durable, Leaves, Running,
     Unrecorded, Kinds
<1>9. ASSUME NEW w \in Workers, Park(w) PROVE ReconciledUnlessSkipped'
  BY <1>9 DEF Park, Proceed, Goto, Running, Kinds
<1>10. ASSUME NEW w \in Workers, Wait(w) PROVE ReconciledUnlessSkipped'
  BY <1>10 DEF Wait, Goto, Return, Leaves, Running, Kinds
<1>11. ASSUME NEW w \in Workers, CheckSummary(w) PROVE ReconciledUnlessSkipped'
  BY <1>11 DEF CheckSummary, Proceed, Goto, durable, Running, Kinds
<1>12. ASSUME NEW w \in Workers, Summarize(w) PROVE ReconciledUnlessSkipped'
  BY <1>12 DEF Summarize, Summaries, Proceed, Goto, Running, Kinds
<1>13. ASSUME NEW w \in Workers, SummaryBreaks(w) PROVE ReconciledUnlessSkipped'
  BY <1>13 DEF SummaryBreaks, Summaries, Goto, GiveUp, Leaves, Running, Kinds
<1>14. ASSUME NEW w \in Workers, SummaryFails(w) PROVE ReconciledUnlessSkipped'
  BY <1>14 DEF SummaryFails, Goto, GoOn, GiveUp, durable, Leaves, Running, Kinds
<1>15. ASSUME NEW w \in Workers, AuditSummary(w) PROVE ReconciledUnlessSkipped'
  BY <1>15 DEF AuditSummary, Goto, Record, Running, Kinds
<1>16. ASSUME NEW w \in Workers, AuditSummaryFails(w) PROVE ReconciledUnlessSkipped'
  BY <1>16 DEF AuditSummaryFails, Goto, GiveUp, durable, Leaves, Running, Kinds
<1>17. ASSUME NEW w \in Workers, Extract(w) PROVE ReconciledUnlessSkipped'
  BY <1>17 DEF Extract, Facts, Proceed, Goto, Running, Kinds
<1>18. ASSUME NEW w \in Workers, ExtractFails(w) PROVE ReconciledUnlessSkipped'
  BY <1>18 DEF ExtractFails, Facts, Goto, GiveUp, Leaves, Running, Kinds
<1>19. ASSUME NEW w \in Workers, Index(w) PROVE ReconciledUnlessSkipped'
  BY <1>19 DEF Index, Proceed, Goto, GoOn, Running, Kinds
<1>20. ASSUME NEW w \in Workers, CheckEmbedding(w) PROVE ReconciledUnlessSkipped'
  BY <1>20 DEF CheckEmbedding, Proceed, Goto, durable, Running, Kinds
<1>21. ASSUME NEW w \in Workers, Embed(w) PROVE ReconciledUnlessSkipped'
  BY <1>21 DEF Embed, Proceed, Goto, GoOn, Running, Kinds
<1>21a. ASSUME NEW w \in Workers, Detect(w) PROVE ReconciledUnlessSkipped'
  BY <1>21a DEF Detect, durable, Proceed, Goto, GoOn, Running, Kinds
<1>21b. ASSUME NEW w \in Workers, AuditConflict(w) PROVE ReconciledUnlessSkipped'
  BY <1>21b DEF AuditConflict, durable, Proceed, Goto, GoOn, Running, Kinds
<1>21c. ASSUME NEW w \in Workers, Relate(w) PROVE ReconciledUnlessSkipped'
  BY <1>21c DEF Relate, durable, Proceed, Goto, GoOn, Running, Kinds
<1>21d. ASSUME NEW w \in Workers, Classify(w) PROVE ReconciledUnlessSkipped'
  BY <1>21d DEF Classify, durable, Proceed, Goto, GoOn, Running, Kinds
<1>22. ASSUME NEW w \in Workers, Reconcile(w) PROVE ReconciledUnlessSkipped'
  BY <1>22 DEF Reconcile, Proceed, Goto, Record, Running, Suppressed, Kinds
<1>23. ASSUME NEW w \in Workers, ReconcileFails(w) PROVE ReconciledUnlessSkipped'
  BY <1>23 DEF ReconcileFails, Goto, GoOn, durable, Leaves, Running, Kinds
<1>24. ASSUME NEW w \in Workers, Complete(w) PROVE ReconciledUnlessSkipped'
  BY <1>24 DEF Complete, Goto, Return, Running, Kinds
<1>25. ASSUME NEW w \in Workers, Fail(w) PROVE ReconciledUnlessSkipped'
  BY <1>25 DEF Fail, Goto, Return, Running, Kinds
<1>26. ASSUME NEW w \in Workers, Escape(w) PROVE ReconciledUnlessSkipped'
  BY <1>26 DEF Escape, Proceed, Goto, durable, Leaves, Running, Kinds
<1>27. ASSUME NEW w \in Workers, Recover(w) PROVE ReconciledUnlessSkipped'
  BY <1>27 DEF Recover, Goto, Return, Running, Kinds
<1>28. ASSUME NEW w \in Workers, RecoverFails(w) PROVE ReconciledUnlessSkipped'
  BY <1>28 DEF RecoverFails, Goto, Return, durable, Running, Kinds
<1>29. CASE Age
  BY <1>29 DEF Age, Running, Kinds
<1>30. CASE Reactivate
  BY <1>30 DEF Reactivate, Running, Kinds
<1>31. CASE Reprocess
  BY <1>31 DEF Reprocess, Running, Kinds
<1>32. CASE Delete
  BY <1>32 DEF Delete, Running, Suppressed, Kinds
<1>33. CASE UNCHANGED vars
  BY <1>33 DEF vars, Proceed, Goto, GoOn, GiveUp, Return, durable, Leaves, Record,
     Running, Unrecorded, Route, Suppressed, Kinds
<1>. QED
  BY <1>1, <1>2, <1>3, <1>4, <1>5, <1>5a, <1>6, <1>7, <1>8, <1>9, <1>10, <1>11, <1>12,
     <1>13, <1>14, <1>15, <1>16, <1>17, <1>18, <1>19, <1>20, <1>21, <1>21a, <1>21b,
     <1>21c, <1>21d, <1>22, <1>23,
     <1>24, <1>25, <1>26, <1>27, <1>28, <1>29, <1>30, <1>31, <1>32, <1>33 DEF Next,
     Dispatch

\* The deletion race is reconciled in every interleaving of any number of
\* processes, except behind a dispatch that left early.
THEOREM RaceIsReconciled == Spec => []ReconciledUnlessSkipped
<1>1. Init => ReconciledUnlessSkipped
  BY DEF Init, ReconciledUnlessSkipped
<1>. QED
  BY <1>1, StepReconciled, TypeCorrect, PTL DEF Spec

-----------------------------------------------------------------------------

\* A stage that goes on, with the instance as it is or renewed, forgets nothing.
LEMMA GoesOn ==
    ASSUME TypeOK, InDispatch, GivenUp, UNCHANGED log,
           NEW w \in Workers, pc[w] \in Busy,
           NEW label \in Busy, Proceed(w, label) \/ GoOn(w, label)
    PROVE  (InDispatch /\ GivenUp)'
<1>1. \A v \in Workers : wk'[v].at = wk[v].at /\ wk'[v].failed = wk[v].failed
  BY DEF TypeOK, Memory, Proceed, GoOn
<1>2. \A v \in Workers : pc'[v] = IF v = w THEN label ELSE pc[v]
  BY DEF TypeOK, Proceed, GoOn, Goto
<1>3. label # "idle"
  BY DEF Busy, Running, Exits
<1>. QED
  BY <1>1, <1>2, <1>3 DEF InDispatch, GivenUp

\* What a dispatch knows of its claim and of the summary it gave up.
LEMMA StepRemembered ==
    ASSUME TypeOK, InDispatch, GivenUp, [Next]_vars
    PROVE  (InDispatch /\ GivenUp)'
<1>. USE DEF InDispatch, GivenUp, TypeOK
<1>1. ASSUME NEW w \in Workers, ClaimNext(w) PROVE (InDispatch /\ GivenUp)'
  <2>1. clock + 1 \in 1..MaxClaims
    BY <1>1, ConstantsAssumption DEF ClaimNext
  <2>2. ~wk[w].failed
    BY <1>1 DEF ClaimNext
  <2>3. \A v \in Workers : /\ pc'[v] \in Busy => v = w \/ pc[v] \in Busy
                           /\ pc'[v] = "idle" => pc[v] = "idle"
                           /\ wk'[v].failed = wk[v].failed
                           /\ wk'[v].at = IF v = w THEN clock + 1 ELSE wk[v].at
    BY <1>1 DEF ClaimNext, Goto, Memory
  <2>. QED
    BY <1>1, <2>1, <2>2, <2>3 DEF ClaimNext, Busy, Running, Exits
<1>2. ASSUME NEW w \in Workers, Crash(w) PROVE (InDispatch /\ GivenUp)'
  BY <1>2, ConstantsAssumption DEF Crash, Goto, durable, Memory, Busy, Running, Exits,
     Fresh
<1>3. ASSUME NEW w \in Workers, Start(w) PROVE (InDispatch /\ GivenUp)'
  BY <1>3, ConstantsAssumption DEF Start, Goto, Memory, Busy, Running, Exits, Fresh
<1>4. ASSUME NEW w \in Workers, Load(w) PROVE (InDispatch /\ GivenUp)'
  <2>1. UNCHANGED log /\ \A v \in Workers : /\ wk'[v].at = wk[v].at
                                            /\ wk'[v].failed = wk[v].failed
    BY <1>4 DEF Load, Proceed, durable, Memory
  <2>2. pc[w] \in Busy /\ \A v \in Workers : v # w => pc'[v] = pc[v]
    BY <1>4 DEF Load, Proceed, Goto, Busy
  <2>3. pc'[w] # "idle"
    BY <1>4 DEF Load, Proceed, Goto
  <2>. QED
    BY <2>1, <2>2, <2>3
<1>5. ASSUME NEW w \in Workers, Gate(w) PROVE (InDispatch /\ GivenUp)'
  BY <1>5 DEF Gate, Proceed, Goto, durable, Busy, Running
<1>5a. ASSUME NEW w \in Workers, GateAuditFails(w) PROVE (InDispatch /\ GivenUp)'
  BY <1>5a DEF GateAuditFails, Proceed, Goto, durable, Busy, Running, Exits
<1>6. ASSUME NEW w \in Workers, GateFails(w) PROVE (InDispatch /\ GivenUp)'
  BY <1>6, ConstantsAssumption DEF GateFails, Goto, durable, Memory, Busy, Running,
     Exits
<1>7. ASSUME NEW w \in Workers, Policy(w) PROVE (InDispatch /\ GivenUp)'
  BY <1>7, ConstantsAssumption DEF Policy, Goto, Record, Memory, Busy, Running, Exits,
     Route
<1>8. ASSUME NEW w \in Workers, PolicyUnrecorded(w) PROVE (InDispatch /\ GivenUp)'
  <2>1. PICK extern \in BOOLEAN, onHost \in SUBSET Ops :
          Unrecorded(w, extern, Permitted(w, extern, onHost))
    BY <1>8 DEF PolicyUnrecorded
  <2>2. CASE GiveUp(w, TRUE)
    BY <1>8, <2>2 DEF PolicyUnrecorded, GiveUp, Goto, durable, Busy, Running, Exits,
       Memory
  <2>3. CASE GoOn(w, "fts")
    BY <1>8, <2>3 DEF PolicyUnrecorded, GoOn, Goto, durable, Busy, Running, Memory
  <2>. QED
    BY <2>1, <2>2, <2>3 DEF Unrecorded
<1>9. ASSUME NEW w \in Workers, Park(w) PROVE (InDispatch /\ GivenUp)'
  BY <1>9, ConstantsAssumption DEF Park, Proceed, Goto, Memory, Busy, Running, Exits
<1>10. ASSUME NEW w \in Workers, Wait(w) PROVE (InDispatch /\ GivenUp)'
  BY <1>10, ConstantsAssumption DEF Wait, Goto, Return, Memory, Busy, Running, Exits,
     Fresh
<1>11. ASSUME NEW w \in Workers, CheckSummary(w) PROVE (InDispatch /\ GivenUp)'
  BY <1>11, ConstantsAssumption DEF CheckSummary, Proceed, Goto, durable, Memory,
     Busy, Running, Exits
<1>12. ASSUME NEW w \in Workers, Summarize(w) PROVE (InDispatch /\ GivenUp)'
  BY <1>12, ConstantsAssumption DEF Summarize, Summaries, Proceed, Goto, Memory, Busy, Running,
     Exits
<1>13. ASSUME NEW w \in Workers, SummaryBreaks(w) PROVE (InDispatch /\ GivenUp)'
  BY <1>13, ConstantsAssumption DEF SummaryBreaks, Summaries, Goto, GiveUp, Memory, Busy,
     Running, Exits
<1>14. ASSUME NEW w \in Workers, SummaryFails(w) PROVE (InDispatch /\ GivenUp)'
  <2>1. CASE GoOn(w, "sum_audit")
    <3>1. pc[w] \in Busy /\ UNCHANGED log /\ "sum_audit" \in Busy
      BY <1>14 DEF SummaryFails, durable, Busy, Running
    <3>. QED
      BY <2>1, <3>1, GoesOn
  <2>2. CASE GiveUp(w, TRUE)
    BY <1>14, <2>2 DEF SummaryFails, Goto, GiveUp, durable, Memory, Busy, Running, Exits
  <2>. QED
    BY <1>14, <2>1, <2>2 DEF SummaryFails
<1>15. ASSUME NEW w \in Workers, AuditSummary(w) PROVE (InDispatch /\ GivenUp)'
  BY <1>15, ConstantsAssumption DEF AuditSummary, Goto, Record, Memory, Busy, Running,
     Exits
<1>16. ASSUME NEW w \in Workers, AuditSummaryFails(w) PROVE (InDispatch /\ GivenUp)'
  BY <1>16, ConstantsAssumption DEF AuditSummaryFails, Goto, GiveUp, durable, Memory,
     Busy, Running, Exits
<1>17. ASSUME NEW w \in Workers, Extract(w) PROVE (InDispatch /\ GivenUp)'
  BY <1>17, ConstantsAssumption DEF Extract, Facts, Proceed, Goto, Memory, Busy, Running,
     Exits
<1>18. ASSUME NEW w \in Workers, ExtractFails(w) PROVE (InDispatch /\ GivenUp)'
  BY <1>18, ConstantsAssumption DEF ExtractFails, Facts, Goto, GiveUp, Memory, Busy, Running,
     Exits
<1>19. ASSUME NEW w \in Workers, Index(w) PROVE (InDispatch /\ GivenUp)'
  <2>1. pc[w] \in Busy /\ UNCHANGED log
    BY <1>19 DEF Index, durable, Busy, Running, Exits
  <2>2. PICK label \in Busy : Proceed(w, label) \/ GoOn(w, label)
    BY <1>19 DEF Index, Busy, Running, Exits
  <2>. QED
    BY <2>1, <2>2, GoesOn
<1>20. ASSUME NEW w \in Workers, CheckEmbedding(w) PROVE (InDispatch /\ GivenUp)'
  BY <1>20, ConstantsAssumption DEF CheckEmbedding, Proceed, Goto, durable, Memory,
     Busy, Running, Exits
<1>21. ASSUME NEW w \in Workers, Embed(w) PROVE (InDispatch /\ GivenUp)'
  <2>1. pc[w] \in Busy /\ UNCHANGED log
    BY <1>21 DEF Embed, durable, Busy, Running, Exits
  <2>2. PICK label \in Busy : Proceed(w, label) \/ GoOn(w, label)
    BY <1>21 DEF Embed, Busy, Running, Exits
  <2>. QED
    BY <2>1, <2>2, GoesOn
<1>21a. ASSUME NEW w \in Workers, Detect(w) PROVE (InDispatch /\ GivenUp)'
  <2>1. pc[w] \in Busy /\ UNCHANGED log
    BY <1>21a DEF Detect, durable, Busy, Running, Exits
  <2>2. PICK label \in Busy : Proceed(w, label) \/ GoOn(w, label)
    BY <1>21a DEF Detect, Busy, Running, Exits
  <2>. QED
    BY <2>1, <2>2, GoesOn
<1>21b. ASSUME NEW w \in Workers, AuditConflict(w) PROVE (InDispatch /\ GivenUp)'
  <2>1. pc[w] \in Busy /\ UNCHANGED log
    BY <1>21b DEF AuditConflict, durable, Busy, Running, Exits
  <2>2. PICK label \in Busy : Proceed(w, label) \/ GoOn(w, label)
    BY <1>21b DEF AuditConflict, Busy, Running, Exits
  <2>. QED
    BY <2>1, <2>2, GoesOn
<1>21c. ASSUME NEW w \in Workers, Relate(w) PROVE (InDispatch /\ GivenUp)'
  <2>1. pc[w] \in Busy /\ UNCHANGED log
    BY <1>21c DEF Relate, durable, Busy, Running, Exits
  <2>2. PICK label \in Busy : Proceed(w, label) \/ GoOn(w, label)
    BY <1>21c DEF Relate, Busy, Running, Exits
  <2>. QED
    BY <2>1, <2>2, GoesOn
<1>21d. ASSUME NEW w \in Workers, Classify(w) PROVE (InDispatch /\ GivenUp)'
  <2>1. pc[w] \in Busy /\ UNCHANGED log
    BY <1>21d DEF Classify, durable, Busy, Running, Exits
  <2>2. PICK label \in Busy : Proceed(w, label) \/ GoOn(w, label)
    BY <1>21d DEF Classify, Busy, Running, Exits
  <2>. QED
    BY <2>1, <2>2, GoesOn
<1>22. ASSUME NEW w \in Workers, Reconcile(w) PROVE (InDispatch /\ GivenUp)'
  BY <1>22, ConstantsAssumption DEF Reconcile, Proceed, Goto, Record, Memory, Busy,
     Running, Exits
<1>23. ASSUME NEW w \in Workers, ReconcileFails(w) PROVE (InDispatch /\ GivenUp)'
  <2>1. pc[w] \in Busy /\ UNCHANGED log
    BY <1>23 DEF ReconcileFails, durable, Busy, Running, Exits
  <2>2. PICK label \in Busy : Proceed(w, label) \/ GoOn(w, label)
    BY <1>23 DEF ReconcileFails, Busy, Running, Exits
  <2>. QED
    BY <2>1, <2>2, GoesOn
<1>24. ASSUME NEW w \in Workers, Complete(w) PROVE (InDispatch /\ GivenUp)'
  BY <1>24, ConstantsAssumption DEF Complete, Goto, Return, Memory, Busy, Running,
     Exits, Fresh
<1>25. ASSUME NEW w \in Workers, Fail(w) PROVE (InDispatch /\ GivenUp)'
  BY <1>25, ConstantsAssumption DEF Fail, Goto, Return, Memory, Busy, Running, Exits,
     Fresh
<1>26. ASSUME NEW w \in Workers, Escape(w) PROVE (InDispatch /\ GivenUp)'
  BY <1>26, ConstantsAssumption DEF Escape, Proceed, Goto, durable, Memory, Busy,
     Running, Exits
<1>27. ASSUME NEW w \in Workers, Recover(w) PROVE (InDispatch /\ GivenUp)'
  BY <1>27, ConstantsAssumption DEF Recover, Goto, Return, Memory, Busy, Running,
     Exits, Fresh
<1>28. ASSUME NEW w \in Workers, RecoverFails(w) PROVE (InDispatch /\ GivenUp)'
  BY <1>28, ConstantsAssumption DEF RecoverFails, Goto, Return, durable, Memory, Busy,
     Running, Exits, Fresh
<1>29. CASE Age
  BY <1>29, ConstantsAssumption DEF Age, Memory, Busy, Running, Exits
<1>30. CASE Reactivate
  BY <1>30, ConstantsAssumption DEF Reactivate, Memory, Busy, Running, Exits
<1>31. CASE Reprocess
  BY <1>31, ConstantsAssumption DEF Reprocess, Memory, Busy, Running, Exits
<1>32. CASE Delete
  BY <1>32, ConstantsAssumption DEF Delete, Memory, Busy, Running, Exits
<1>33. CASE UNCHANGED vars
  BY <1>33, ConstantsAssumption DEF vars, Proceed, Goto, GoOn, GiveUp, Return,
     durable, Record, Memory, Busy, Running, Exits, Unrecorded, Route, Fresh
<1>. QED
  BY <1>1, <1>2, <1>3, <1>4, <1>5, <1>5a, <1>6, <1>7, <1>8, <1>9, <1>10, <1>11, <1>12,
     <1>13, <1>14, <1>15, <1>16, <1>17, <1>18, <1>19, <1>20, <1>21, <1>21a, <1>21b,
     <1>21c, <1>21d, <1>22, <1>23,
     <1>24, <1>25, <1>26, <1>27, <1>28, <1>29, <1>30, <1>31, <1>32, <1>33 DEF Next,
     Dispatch

\* A partial result is always accounted for.
THEOREM PartialResultsAreAudited == Spec => []PartialIsAudited
<1>1. Init => InDispatch /\ GivenUp /\ PartialIsAudited
  BY DEF Init, InDispatch, GivenUp, PartialIsAudited, Fresh, Busy, Running, Exits
<1>2. ASSUME TypeOK, GivenUp, PartialIsAudited, [Next]_vars
      PROVE  PartialIsAudited'
  <2>. USE DEF PartialIsAudited, TypeOK
  <2>1. ASSUME NEW w \in Workers, ClaimNext(w) PROVE PartialIsAudited'
    BY <2>1, <1>2 DEF ClaimNext, Goto, GivenUp, JobRow
  <2>2. ASSUME NEW w \in Workers, Crash(w) PROVE PartialIsAudited'
    BY <2>2, <1>2 DEF Crash, Goto, durable, GivenUp, JobRow
  <2>3. ASSUME NEW w \in Workers, Start(w) PROVE PartialIsAudited'
    BY <2>3, <1>2 DEF Start, Goto, GivenUp, JobRow
  <2>4. ASSUME NEW w \in Workers, Load(w) PROVE PartialIsAudited'
    BY <2>4, <1>2 DEF Load, Proceed, Goto, durable, GivenUp, JobRow
  <2>5. ASSUME NEW w \in Workers, Gate(w) PROVE PartialIsAudited'
    BY <2>5, <1>2 DEF Gate, Proceed, Goto, GoOn, durable, GivenUp, Current, JobRow
  <2>5a. ASSUME NEW w \in Workers, GateAuditFails(w) PROVE PartialIsAudited'
    BY <2>5a, <1>2 DEF GateAuditFails, Proceed, Goto, durable
  <2>6. ASSUME NEW w \in Workers, GateFails(w) PROVE PartialIsAudited'
    BY <2>6, <1>2 DEF GateFails, Goto, durable, GivenUp, JobRow
  <2>7. ASSUME NEW w \in Workers, Policy(w) PROVE PartialIsAudited'
    BY <2>7, <1>2 DEF Policy, Goto, Record, GivenUp, JobRow
  <2>8. ASSUME NEW w \in Workers, PolicyUnrecorded(w) PROVE PartialIsAudited'
    BY <2>8, <1>2 DEF PolicyUnrecorded, Goto, GoOn, GiveUp, durable, GivenUp,
       Current, JobRow
  <2>9. ASSUME NEW w \in Workers, Park(w) PROVE PartialIsAudited'
    BY <2>9, <1>2 DEF Park, Proceed, Goto, GivenUp, JobRow
  <2>10. ASSUME NEW w \in Workers, Wait(w) PROVE PartialIsAudited'
    BY <2>10, <1>2 DEF Wait, Goto, Return, Written, GivenUp, JobRow
  <2>11. ASSUME NEW w \in Workers, CheckSummary(w) PROVE PartialIsAudited'
    BY <2>11, <1>2 DEF CheckSummary, Proceed, Goto, durable, GivenUp, JobRow
  <2>12. ASSUME NEW w \in Workers, Summarize(w) PROVE PartialIsAudited'
    BY <2>12, <1>2 DEF Summarize, Summaries, Proceed, Goto, GivenUp, JobRow
  <2>13. ASSUME NEW w \in Workers, SummaryBreaks(w) PROVE PartialIsAudited'
    BY <2>13, <1>2 DEF SummaryBreaks, Summaries, Goto, GiveUp, GivenUp, Current, JobRow
  <2>14. ASSUME NEW w \in Workers, SummaryFails(w) PROVE PartialIsAudited'
    BY <2>14, <1>2 DEF SummaryFails, Goto, GoOn, GiveUp, durable, GivenUp, Current,
       JobRow
  <2>15. ASSUME NEW w \in Workers, AuditSummary(w) PROVE PartialIsAudited'
    BY <2>15, <1>2 DEF AuditSummary, Goto, Record, GivenUp, JobRow
  <2>16. ASSUME NEW w \in Workers, AuditSummaryFails(w) PROVE PartialIsAudited'
    BY <2>16, <1>2 DEF AuditSummaryFails, Goto, GiveUp, durable, GivenUp, Current,
       JobRow
  <2>17. ASSUME NEW w \in Workers, Extract(w) PROVE PartialIsAudited'
    BY <2>17, <1>2 DEF Extract, Facts, Proceed, Goto, GivenUp, JobRow
  <2>18. ASSUME NEW w \in Workers, ExtractFails(w) PROVE PartialIsAudited'
    BY <2>18, <1>2 DEF ExtractFails, Facts, Goto, GiveUp, GivenUp, Current, JobRow
  <2>19. ASSUME NEW w \in Workers, Index(w) PROVE PartialIsAudited'
    BY <2>19, <1>2 DEF Index, Proceed, Goto, GoOn, GivenUp, Current, JobRow
  <2>20. ASSUME NEW w \in Workers, CheckEmbedding(w) PROVE PartialIsAudited'
    BY <2>20, <1>2 DEF CheckEmbedding, Proceed, Goto, durable, GivenUp, JobRow
  <2>21. ASSUME NEW w \in Workers, Embed(w) PROVE PartialIsAudited'
    BY <2>21, <1>2 DEF Embed, Proceed, Goto, GoOn, GivenUp, Current, JobRow
  <2>21a. ASSUME NEW w \in Workers, Detect(w) PROVE PartialIsAudited'
    BY <2>21a, <1>2 DEF Detect, durable, Proceed, Goto, GoOn, GivenUp, Current, JobRow
  <2>21b. ASSUME NEW w \in Workers, AuditConflict(w) PROVE PartialIsAudited'
    BY <2>21b, <1>2 DEF AuditConflict, durable, Proceed, Goto, GoOn, GivenUp,
       Current, JobRow
  <2>21c. ASSUME NEW w \in Workers, Relate(w) PROVE PartialIsAudited'
    BY <2>21c, <1>2 DEF Relate, durable, Proceed, Goto, GoOn, GivenUp, Current, JobRow
  <2>21d. ASSUME NEW w \in Workers, Classify(w) PROVE PartialIsAudited'
    BY <2>21d, <1>2 DEF Classify, durable, Proceed, Goto, GoOn, GivenUp, Current, JobRow
  <2>22. ASSUME NEW w \in Workers, Reconcile(w) PROVE PartialIsAudited'
    BY <2>22, <1>2 DEF Reconcile, Proceed, Goto, Record, GivenUp, JobRow
  <2>23. ASSUME NEW w \in Workers, ReconcileFails(w) PROVE PartialIsAudited'
    BY <2>23, <1>2 DEF ReconcileFails, Goto, GoOn, durable, GivenUp, Current, JobRow
  <2>24. ASSUME NEW w \in Workers, Complete(w) PROVE PartialIsAudited'
    BY <2>24, <1>2 DEF Complete, Goto, Return, Written, GivenUp, JobRow
  <2>25. ASSUME NEW w \in Workers, Fail(w) PROVE PartialIsAudited'
    BY <2>25, <1>2 DEF Fail, Goto, Return, Written, GivenUp, JobRow
  <2>26. ASSUME NEW w \in Workers, Escape(w) PROVE PartialIsAudited'
    BY <2>26, <1>2 DEF Escape, Proceed, Goto, durable, GivenUp, JobRow
  <2>27. ASSUME NEW w \in Workers, Recover(w) PROVE PartialIsAudited'
    BY <2>27, <1>2 DEF Recover, Goto, Return, GivenUp, JobRow
  <2>28. ASSUME NEW w \in Workers, RecoverFails(w) PROVE PartialIsAudited'
    BY <2>28, <1>2 DEF RecoverFails, Goto, Return, durable, GivenUp, JobRow
  <2>29. CASE Age
    BY <2>29, <1>2 DEF Age, GivenUp, JobRow
  <2>30. CASE Reactivate
    BY <2>30, <1>2 DEF Reactivate, GivenUp, JobRow
  <2>31. CASE Reprocess
    BY <2>31, <1>2 DEF Reprocess, GivenUp, JobRow
  <2>32. CASE Delete
    BY <2>32, <1>2 DEF Delete, GivenUp, JobRow
  <2>33. CASE UNCHANGED vars
    BY <2>33, <1>2 DEF vars, Proceed, Goto, GoOn, GiveUp, Return, durable, Record,
       Written, GivenUp, Current, JobRow
  <2>. QED
    BY <1>2, <2>1, <2>2, <2>3, <2>4, <2>5, <2>5a, <2>6, <2>7, <2>8, <2>9, <2>10,
       <2>11, <2>12,
       <2>13, <2>14, <2>15, <2>16, <2>17, <2>18, <2>19, <2>20, <2>21, <2>21a, <2>21b,
       <2>21c, <2>21d, <2>22,
       <2>23, <2>24, <2>25, <2>26, <2>27, <2>28, <2>29, <2>30, <2>31, <2>32, <2>33
       DEF Next, Dispatch
<1>. QED
  BY <1>1, <1>2, StepRemembered, TypeCorrect, PTL DEF Spec

\* A dispatch that goes to a stage that calls no provider, or to one it may
\* call, stays authorized.
LEMMA StaysAuthorized ==
    ASSUME TypeOK, Authorized, UNCHANGED log,
           rows'["summary"] = rows["summary"], rows'["fact"] = rows["fact"],
           NEW w \in Workers,
           NEW label \in PCs \ {"idle", "summary", "summarizing", "sum_audit", "extract"},
           label = "classify" => "link" \in wk[w].allowed,
           Goto(w, label),
           \A v \in Workers : wk'[v].at = wk[v].at /\ wk'[v].allowed = wk[v].allowed
    PROVE  Authorized'
<1>1. \A v \in Workers : pc'[v] = IF v = w THEN label ELSE pc[v]
  BY DEF TypeOK, Goto
<1>2. Permissions'
  BY <1>1 DEF Authorized, Permissions
<1>3. AuthorizedFirst'
  BY <1>1, <1>2 DEF Authorized, Permissions, AuthorizedFirst
<1>. QED
  BY <1>2, <1>3 DEF Authorized

\* No provider is called, and nothing a provider made exists, without a
\* durable policy decision.
THEOREM ProvidersAreAuthorized == Spec => []AuthorizedFirst
<1>1. Init => InDispatch /\ GivenUp /\ Authorized
  BY DEF Init, Authorized, Permissions, InDispatch, GivenUp, AuthorizedFirst, Fresh,
     Busy, Running, Exits, Kinds
<1>2. ASSUME TypeOK, InDispatch, Authorized, [Next]_vars
      PROVE  Authorized'
  <2>. USE DEF Authorized, Permissions, AuthorizedFirst, TypeOK
  <2>1. ASSUME NEW w \in Workers, ClaimNext(w) PROVE Authorized'
    <3>1. wk[w].allowed = {} /\ UNCHANGED <<rows, log>>
      BY <2>1, <1>2 DEF ClaimNext
    <3>2. \A v \in Workers : /\ pc'[v] = IF v = w THEN "load" ELSE pc[v]
                             /\ wk'[v].allowed = wk[v].allowed
                             /\ v # w => wk'[v].at = wk[v].at
      BY <2>1, <1>2 DEF ClaimNext, Goto, Memory
    <3>. QED
      BY <1>2, <3>1, <3>2
  <2>2. ASSUME NEW w \in Workers, Crash(w) PROVE Authorized'
    BY <2>2, <1>2 DEF Crash, Goto, durable, InDispatch, Memory, Busy, Running,
       Exits, Fresh, Kinds
  <2>3. ASSUME NEW w \in Workers, Start(w) PROVE Authorized'
    BY <2>3, <1>2 DEF Start, Goto, InDispatch, Memory, Busy, Running, Exits, Fresh,
       Kinds
  <2>4. ASSUME NEW w \in Workers, Load(w) PROVE Authorized'
    <3>1. /\ UNCHANGED log
          /\ rows'["summary"] = rows["summary"] /\ rows'["fact"] = rows["fact"]
          /\ \A v \in Workers : wk'[v].at = wk[v].at /\ wk'[v].allowed = wk[v].allowed
      BY <2>4, <1>2 DEF Load, Proceed, GoOn, GiveUp, durable, Memory, Added, Kinds,
         Unrecorded
    <3>2. PICK label \in {"failing", "gate"} :
            Goto(w, label) /\ (label = "classify" => "link" \in wk[w].allowed)
      BY <2>4 DEF Load, Proceed, GoOn, GiveUp, Unrecorded
    <3>3. label \in PCs \ {"idle", "summary", "summarizing", "sum_audit", "extract"}
      BY DEF PCs, Busy, Running, Exits
    <3>. QED
      BY <1>2, <3>1, <3>2, <3>3, StaysAuthorized
  <2>5. ASSUME NEW w \in Workers, Gate(w) PROVE Authorized'
    BY <2>5, <1>2 DEF Gate, Proceed, Goto, GoOn, durable, InDispatch, Memory, Busy,
       Running, Exits, Kinds
  <2>5a. ASSUME NEW w \in Workers, GateAuditFails(w) PROVE Authorized'
    BY <2>5a, <1>2 DEF GateAuditFails, Proceed, Goto, durable
  <2>6. ASSUME NEW w \in Workers, GateFails(w) PROVE Authorized'
    BY <2>6, <1>2 DEF GateFails, Goto, durable, InDispatch, Memory, Busy, Running,
       Exits, Kinds
  <2>7. ASSUME NEW w \in Workers, Policy(w) PROVE Authorized'
    BY <2>7, <1>2 DEF Policy, Goto, Record, InDispatch, Memory, Busy, Running,
       Exits, Route, Kinds
  <2>8. ASSUME NEW w \in Workers, PolicyUnrecorded(w) PROVE Authorized'
    <3>1. /\ UNCHANGED log
          /\ rows'["summary"] = rows["summary"] /\ rows'["fact"] = rows["fact"]
          /\ \A v \in Workers : wk'[v].at = wk[v].at /\ wk'[v].allowed = wk[v].allowed
      BY <2>8, <1>2 DEF PolicyUnrecorded, Proceed, GoOn, GiveUp, durable, Memory,
         Added, Kinds, Unrecorded
    <3>2. PICK label \in {"failing", "fts"} :
            Goto(w, label) /\ (label = "classify" => "link" \in wk[w].allowed)
      BY <2>8 DEF PolicyUnrecorded, Proceed, GoOn, GiveUp, Unrecorded
    <3>3. label \in PCs \ {"idle", "summary", "summarizing", "sum_audit", "extract"}
      BY DEF PCs, Busy, Running, Exits
    <3>. QED
      BY <1>2, <3>1, <3>2, <3>3, StaysAuthorized
  <2>9. ASSUME NEW w \in Workers, Park(w) PROVE Authorized'
    BY <2>9, <1>2 DEF Park, Proceed, Goto, InDispatch, Memory, Busy, Running, Exits,
       Added, Kinds
  <2>10. ASSUME NEW w \in Workers, Wait(w) PROVE Authorized'
    BY <2>10, <1>2 DEF Wait, Goto, Return, InDispatch, Memory, Busy, Running, Exits,
       Fresh, Kinds
  <2>11. ASSUME NEW w \in Workers, CheckSummary(w) PROVE Authorized'
    <3>1. <<"policy_decision", wk[w].at>> \in log
      BY <2>11, <1>2 DEF CheckSummary
    <3>. QED
      BY <2>11, <1>2, <3>1 DEF CheckSummary, Proceed, Goto, durable
  <2>12. ASSUME NEW w \in Workers, Summarize(w) PROVE Authorized'
    BY <2>12, <1>2 DEF Summarize, Summaries, Proceed, Goto, InDispatch, Memory, Busy, Running,
       Exits, Added, Kinds
  <2>13. ASSUME NEW w \in Workers, SummaryBreaks(w) PROVE Authorized'
    BY <2>13, <1>2 DEF SummaryBreaks, Summaries, Goto, GiveUp, InDispatch, Memory, Busy,
       Running, Exits, Added, Kinds
  <2>14. ASSUME NEW w \in Workers, SummaryFails(w) PROVE Authorized'
    BY <2>14, <1>2 DEF SummaryFails, Goto, GoOn, GiveUp, durable, InDispatch,
       Memory, Busy, Running, Exits, Kinds
  <2>15. ASSUME NEW w \in Workers, AuditSummary(w) PROVE Authorized'
    BY <2>15, <1>2 DEF AuditSummary, Goto, Record, InDispatch, Memory, Busy,
       Running, Exits, Kinds
  <2>16. ASSUME NEW w \in Workers, AuditSummaryFails(w) PROVE Authorized'
    BY <2>16, <1>2 DEF AuditSummaryFails, Goto, GiveUp, durable, InDispatch, Memory,
       Busy, Running, Exits, Kinds
  <2>17. ASSUME NEW w \in Workers, Extract(w) PROVE Authorized'
    BY <2>17, <1>2 DEF Extract, Facts, Proceed, Goto, InDispatch, Memory, Busy, Running,
       Exits, Added, Kinds
  <2>18. ASSUME NEW w \in Workers, ExtractFails(w) PROVE Authorized'
    BY <2>18, <1>2 DEF ExtractFails, Facts, Goto, GiveUp, InDispatch, Memory, Busy,
       Running, Exits, Added, Kinds
  <2>19. ASSUME NEW w \in Workers, Index(w) PROVE Authorized'
    <3>1. /\ UNCHANGED log
          /\ rows'["summary"] = rows["summary"] /\ rows'["fact"] = rows["fact"]
          /\ \A v \in Workers : wk'[v].at = wk[v].at /\ wk'[v].allowed = wk[v].allowed
      BY <2>19, <1>2 DEF Index, Proceed, GoOn, GiveUp, durable, Memory, Added, Kinds,
         Unrecorded
    <3>2. PICK label \in {"embed"} :
            Goto(w, label) /\ (label = "classify" => "link" \in wk[w].allowed)
      BY <2>19 DEF Index, Proceed, GoOn, GiveUp, Unrecorded
    <3>3. label \in PCs \ {"idle", "summary", "summarizing", "sum_audit", "extract"}
      BY DEF PCs, Busy, Running, Exits
    <3>. QED
      BY <1>2, <3>1, <3>2, <3>3, StaysAuthorized
  <2>20. ASSUME NEW w \in Workers, CheckEmbedding(w) PROVE Authorized'
    BY <2>20, <1>2 DEF CheckEmbedding, Proceed, Goto, durable, InDispatch, Memory,
       Busy, Running, Exits, Kinds
  <2>21. ASSUME NEW w \in Workers, Embed(w) PROVE Authorized'
    <3>1. /\ UNCHANGED log
          /\ rows'["summary"] = rows["summary"] /\ rows'["fact"] = rows["fact"]
          /\ \A v \in Workers : wk'[v].at = wk[v].at /\ wk'[v].allowed = wk[v].allowed
      BY <2>21, <1>2 DEF Embed, Proceed, GoOn, GiveUp, durable, Memory, Added, Kinds,
         Unrecorded
    <3>2. PICK label \in {"detect"} :
            Goto(w, label) /\ (label = "classify" => "link" \in wk[w].allowed)
      BY <2>21 DEF Embed, Proceed, GoOn, GiveUp, Unrecorded
    <3>3. label \in PCs \ {"idle", "summary", "summarizing", "sum_audit", "extract"}
      BY DEF PCs, Busy, Running, Exits
    <3>. QED
      BY <1>2, <3>1, <3>2, <3>3, StaysAuthorized
  <2>21a. ASSUME NEW w \in Workers, Detect(w) PROVE Authorized'
    <3>1. /\ UNCHANGED log
          /\ rows'["summary"] = rows["summary"] /\ rows'["fact"] = rows["fact"]
          /\ \A v \in Workers : wk'[v].at = wk[v].at /\ wk'[v].allowed = wk[v].allowed
      BY <2>21a, <1>2 DEF Detect, Proceed, GoOn, GiveUp, durable, Memory, Added,
         Kinds, Unrecorded
    <3>2. PICK label \in {"links", "conflict"} :
            Goto(w, label) /\ (label = "classify" => "link" \in wk[w].allowed)
      BY <2>21a DEF Detect, Proceed, GoOn, GiveUp, Unrecorded
    <3>3. label \in PCs \ {"idle", "summary", "summarizing", "sum_audit", "extract"}
      BY DEF PCs, Busy, Running, Exits
    <3>. QED
      BY <1>2, <3>1, <3>2, <3>3, StaysAuthorized
  <2>21b. ASSUME NEW w \in Workers, AuditConflict(w) PROVE Authorized'
    <3>1. /\ UNCHANGED log
          /\ rows'["summary"] = rows["summary"] /\ rows'["fact"] = rows["fact"]
          /\ \A v \in Workers : wk'[v].at = wk[v].at /\ wk'[v].allowed = wk[v].allowed
      BY <2>21b, <1>2 DEF AuditConflict, Proceed, GoOn, GiveUp, durable, Memory,
         Added, Kinds, Unrecorded
    <3>2. PICK label \in {"links"} :
            Goto(w, label) /\ (label = "classify" => "link" \in wk[w].allowed)
      BY <2>21b DEF AuditConflict, Proceed, GoOn, GiveUp, Unrecorded
    <3>3. label \in PCs \ {"idle", "summary", "summarizing", "sum_audit", "extract"}
      BY DEF PCs, Busy, Running, Exits
    <3>. QED
      BY <1>2, <3>1, <3>2, <3>3, StaysAuthorized
  <2>21c. ASSUME NEW w \in Workers, Relate(w) PROVE Authorized'
    <3>1. /\ UNCHANGED log
          /\ rows'["summary"] = rows["summary"] /\ rows'["fact"] = rows["fact"]
          /\ \A v \in Workers : wk'[v].at = wk[v].at /\ wk'[v].allowed = wk[v].allowed
      BY <2>21c, <1>2 DEF Relate, Proceed, GoOn, GiveUp, durable, Memory, Added,
         Kinds, Unrecorded
    <3>2. PICK label \in {"reconcile", "classify"} :
            Goto(w, label) /\ (label = "classify" => "link" \in wk[w].allowed)
      BY <2>21c DEF Relate, Proceed, GoOn, GiveUp, Unrecorded
    <3>3. label \in PCs \ {"idle", "summary", "summarizing", "sum_audit", "extract"}
      BY DEF PCs, Busy, Running, Exits
    <3>. QED
      BY <1>2, <3>1, <3>2, <3>3, StaysAuthorized
  <2>21d. ASSUME NEW w \in Workers, Classify(w) PROVE Authorized'
    <3>1. /\ UNCHANGED log
          /\ rows'["summary"] = rows["summary"] /\ rows'["fact"] = rows["fact"]
          /\ \A v \in Workers : wk'[v].at = wk[v].at /\ wk'[v].allowed = wk[v].allowed
      BY <2>21d, <1>2 DEF Classify, Proceed, GoOn, GiveUp, durable, Memory, Added,
         Kinds, Unrecorded
    <3>2. PICK label \in {"reconcile"} :
            Goto(w, label) /\ (label = "classify" => "link" \in wk[w].allowed)
      BY <2>21d DEF Classify, Proceed, GoOn, GiveUp, Unrecorded
    <3>3. label \in PCs \ {"idle", "summary", "summarizing", "sum_audit", "extract"}
      BY DEF PCs, Busy, Running, Exits
    <3>. QED
      BY <1>2, <3>1, <3>2, <3>3, StaysAuthorized
  <2>22. ASSUME NEW w \in Workers, Reconcile(w) PROVE Authorized'
    BY <2>22, <1>2 DEF Reconcile, Proceed, Goto, Record, InDispatch, Memory, Busy,
       Running, Exits, Suppressed, Kinds
  <2>23. ASSUME NEW w \in Workers, ReconcileFails(w) PROVE Authorized'
    BY <2>23, <1>2 DEF ReconcileFails, Goto, GoOn, durable, InDispatch, Memory,
       Busy, Running, Exits, Kinds
  <2>24. ASSUME NEW w \in Workers, Complete(w) PROVE Authorized'
    BY <2>24, <1>2 DEF Complete, Goto, Return, InDispatch, Memory, Busy, Running,
       Exits, Fresh, Kinds
  <2>25. ASSUME NEW w \in Workers, Fail(w) PROVE Authorized'
    BY <2>25, <1>2 DEF Fail, Goto, Return, InDispatch, Memory, Busy, Running, Exits,
       Fresh, Kinds
  <2>26. ASSUME NEW w \in Workers, Escape(w) PROVE Authorized'
    BY <2>26, <1>2 DEF Escape, Proceed, Goto, durable, InDispatch, Memory, Busy,
       Running, Exits, Kinds
  <2>27. ASSUME NEW w \in Workers, Recover(w) PROVE Authorized'
    BY <2>27, <1>2 DEF Recover, Goto, Return, InDispatch, Memory, Busy, Running,
       Exits, Fresh, Kinds
  <2>28. ASSUME NEW w \in Workers, RecoverFails(w) PROVE Authorized'
    BY <2>28, <1>2 DEF RecoverFails, Goto, Return, durable, InDispatch, Memory,
       Busy, Running, Exits, Fresh, Kinds
  <2>29. CASE Age
    BY <2>29, <1>2 DEF Age, InDispatch, Memory, Busy, Running, Exits, Kinds
  <2>30. CASE Reactivate
    BY <2>30, <1>2 DEF Reactivate, InDispatch, Memory, Busy, Running, Exits, Kinds
  <2>31. CASE Reprocess
    BY <2>31, <1>2 DEF Reprocess, InDispatch, Memory, Busy, Running, Exits, Kinds
  <2>32. CASE Delete
    BY <2>32, <1>2 DEF Delete, InDispatch, Memory, Busy, Running, Exits, Suppressed,
       Kinds
  <2>33. CASE UNCHANGED vars
    BY <2>33, <1>2 DEF vars, Proceed, Goto, GoOn, GiveUp, Return, durable, Record,
       InDispatch, Memory, Busy, Running, Exits, Unrecorded, Route, Fresh, Added,
       Suppressed, Kinds
  <2>. QED
    BY <1>2, <2>1, <2>2, <2>3, <2>4, <2>5, <2>5a, <2>6, <2>7, <2>8, <2>9, <2>10,
       <2>11, <2>12,
       <2>13, <2>14, <2>15, <2>16, <2>17, <2>18, <2>19, <2>20, <2>21, <2>21a, <2>21b,
       <2>21c, <2>21d, <2>22,
       <2>23, <2>24, <2>25, <2>26, <2>27, <2>28, <2>29, <2>30, <2>31, <2>32, <2>33
       DEF Next, Dispatch
<1>. QED
  <2>1. Authorized => AuthorizedFirst
    BY DEF Authorized
  <2>. QED
    BY <1>1, <1>2, <2>1, StepRemembered, TypeCorrect, PTL DEF Spec


-----------------------------------------------------------------------------

\* What a step of one worker does to the summaries and embeddings, and to the
\* two stages that are about to write one: it moves nobody else.
Careful(w) ==
    /\ \A v \in Workers \ {w} : pc'[v] = pc[v]
    /\ pc'[w] = "summarizing" => rows'["summary"] = 0
    /\ pc'[w] = "embedding" => rows'["embedding"] = 0
    /\ \/ rows'["summary"] <= rows["summary"]
       \/ pc[w] = "summarizing" /\ rows'["summary"] <= rows["summary"] + 1
    /\ \/ rows'["embedding"] <= rows["embedding"]
       \/ pc[w] = "embedding" /\ rows'["embedding"] <= rows["embedding"] + 1

\* A step that goes elsewhere and leaves summaries and embeddings alone.
LEMMA Elsewhere ==
    ASSUME TypeOK, NEW w \in Workers, NEW label \in PCs \ {"summarizing", "embedding"},
           Goto(w, label),
           rows' = rows \/ rows' = Added("fact") \/ rows' = Added("fts") \/ rows' = Suppressed
    PROVE  Careful(w)
<1>1. pc \in [Workers -> PCs] /\ rows["summary"] \in Nat /\ rows["embedding"] \in Nat
  BY DEF TypeOK, Kinds
<1>2. /\ rows'["summary"] <= rows["summary"]
      /\ rows'["embedding"] <= rows["embedding"]
  BY <1>1 DEF TypeOK, Added, Suppressed, Kinds
<1>. QED
  BY <1>1, <1>2 DEF Careful, Goto

\* Every step of a worker looks before it writes.
LEMMA WorkersAreCareful ==
    ASSUME TypeOK, NEW w \in Workers, ClaimNext(w) \/ Dispatch(w) \/ Crash(w) \/ Start(w)
    PROVE  Careful(w)
<1>0. pc \in [Workers -> PCs] /\ rows \in [Kinds -> Nat]
  BY DEF TypeOK
<1>1. PCs = {"load", "gate", "policy", "park", "parked", "summary", "summarizing",
             "sum_audit", "extract", "fts", "embed", "embedding", "detect", "conflict",
             "links", "classify", "reconcile", "failing", "complete", "escaped", "down",
             "idle"}
  BY DEF PCs, Busy, Running, Exits
<1>2. CASE ClaimNext(w) \/ Crash(w) \/ Start(w)
  BY <1>1, <1>2, Elsewhere DEF ClaimNext, Crash, Start, durable
<1>3. CASE \/ Load(w) \/ Gate(w) \/ GateAuditFails(w) \/ GateFails(w) \/ AuditSummary(w)
           \/ AuditSummaryFails(w) \/ SummaryFails(w) \/ Detect(w) \/ AuditConflict(w)
           \/ Relate(w) \/ Classify(w) \/ ReconcileFails(w) \/ Escape(w)
  <2>1. rows' = rows
    BY <1>3 DEF Load, Gate, GateAuditFails, GateFails, AuditSummary, AuditSummaryFails,
       SummaryFails, Detect, AuditConflict, Relate, Classify, ReconcileFails, Escape, durable
  <2>2. PICK label \in {"failing", "gate", "policy", "escaped", "extract", "sum_audit",
                        "links", "conflict", "reconcile", "classify", "complete"} :
          Goto(w, label)
    BY <1>3 DEF Load, Gate, GateAuditFails, GateFails, AuditSummary, AuditSummaryFails,
       SummaryFails, Detect, AuditConflict, Relate, Classify, ReconcileFails, Escape,
       Proceed, GoOn, GiveUp
  <2>. QED
    BY <1>1, <2>1, <2>2, Elsewhere
<1>4. CASE Policy(w) \/ PolicyUnrecorded(w)
  <2>1. rows' = rows
    BY <1>4 DEF Policy, PolicyUnrecorded, durable
  <2>2. PICK label \in {"fts", "park", "summary", "failing"} : Goto(w, label)
    BY <1>4 DEF Policy, PolicyUnrecorded, Route, Unrecorded, GiveUp, GoOn
  <2>. QED
    BY <1>1, <2>1, <2>2, Elsewhere
<1>5. CASE \/ Wait(w) \/ Complete(w) \/ Fail(w) \/ Recover(w) \/ RecoverFails(w)
  <2>1. rows' = rows /\ Goto(w, "idle")
    BY <1>5 DEF Wait, Complete, Fail, Recover, RecoverFails, Return, durable
  <2>. QED
    BY <1>1, <2>1, Elsewhere
<1>6. CASE Park(w) \/ Extract(w) \/ ExtractFails(w) \/ Index(w) \/ Reconcile(w)
  <2>1. rows' = rows \/ rows' = Added("fact") \/ rows' = Added("fts") \/ rows' = Suppressed
    BY <1>6 DEF Park, Extract, ExtractFails, Facts, Index, Reconcile
  <2>2. PICK label \in {"parked", "fts", "failing", "embed", "complete"} : Goto(w, label)
    BY <1>6 DEF Park, Extract, ExtractFails, Index, Reconcile, Proceed, GoOn, GiveUp
  <2>. QED
    BY <1>1, <2>1, <2>2, Elsewhere
<1>7. CASE CheckSummary(w)
  <2>1. rows' = rows
    BY <1>7 DEF CheckSummary, durable
  <2>2. CASE Goto(w, "extract")
    BY <1>1, <2>1, <2>2, Elsewhere
  <2>3. CASE Goto(w, "summarizing") /\ rows["summary"] = 0
    BY <1>0, <2>1, <2>3 DEF Careful, Goto, Kinds
  <2>. QED
    BY <1>7, <2>2, <2>3 DEF CheckSummary, Proceed
<1>8. CASE Summarize(w) \/ SummaryBreaks(w)
  <2>1. pc[w] = "summarizing" /\ (Goto(w, "extract") \/ Goto(w, "failing"))
    BY <1>8 DEF Summarize, SummaryBreaks, Proceed, GiveUp
  <2>2. /\ rows'["summary"] <= rows["summary"] + 1
        /\ rows'["embedding"] = rows["embedding"]
    <3>1. rows["summary"] \in Nat /\ rows["embedding"] \in Nat
      BY <1>0 DEF Kinds
    <3>2. rows' = rows \/ rows' = [rows EXCEPT !["summary"] = @ + 1]
      BY <1>8 DEF Summarize, SummaryBreaks, Summaries, Added
    <3>. QED
      BY <1>0, <3>1, <3>2 DEF Kinds
  <2>. QED
    BY <1>0, <2>1, <2>2 DEF Careful, Goto, Kinds
<1>9. CASE CheckEmbedding(w)
  <2>1. rows' = rows
    BY <1>9 DEF CheckEmbedding, durable
  <2>2. CASE Goto(w, "detect")
    BY <1>1, <2>1, <2>2, Elsewhere
  <2>3. CASE Goto(w, "embedding") /\ rows["embedding"] = 0
    BY <1>0, <2>1, <2>3 DEF Careful, Goto, Kinds
  <2>. QED
    BY <1>9, <2>2, <2>3 DEF CheckEmbedding, Proceed
<1>10. CASE Embed(w)
  <2>1. pc[w] = "embedding" /\ Goto(w, "detect")
    BY <1>10 DEF Embed, Proceed, GoOn
  <2>2. /\ rows'["embedding"] <= rows["embedding"] + 1
        /\ rows'["summary"] = rows["summary"]
    BY <1>0, <1>10 DEF Embed, Added, Kinds
  <2>. QED
    BY <1>0, <2>1, <2>2 DEF Careful, Goto, Kinds
<1>. QED
  BY <1>2, <1>3, <1>4, <1>5, <1>6, <1>7, <1>8, <1>9, <1>10 DEF Dispatch

\* As long as no two processes meet, what a check found is still so at the write.
LEMMA AloneStep ==
    ASSUME TypeOK, TypeOK', Alone, [ObservedNext]_<<vars, raced>>
    PROVE  Alone'
<1>0. /\ rows["summary"] \in Nat /\ rows["embedding"] \in Nat
      /\ rows'["summary"] \in Nat /\ rows'["embedding"] \in Nat
  BY DEF TypeOK, Kinds
<1>1. CASE UNCHANGED <<vars, raced>>
  BY <1>1 DEF vars, Alone, Overlap
<1>2. ASSUME ObservedNext, ~raced'
      PROVE  /\ ~raced /\ ~Overlap /\ ~Overlap'
             /\ rows["summary"] <= 1 /\ rows["embedding"] <= 1
             /\ \A w \in Workers : /\ pc[w] = "summarizing" => rows["summary"] = 0
                                   /\ pc[w] = "embedding" => rows["embedding"] = 0
  BY <1>2 DEF ObservedNext, Alone
<1>3. ASSUME ObservedNext, ~raced', NEW w \in Workers,
             ClaimNext(w) \/ Dispatch(w) \/ Crash(w) \/ Start(w)
      PROVE  /\ rows'["summary"] <= 1 /\ rows'["embedding"] <= 1
             /\ \A v \in Workers : /\ pc'[v] = "summarizing" => rows'["summary"] = 0
                                   /\ pc'[v] = "embedding" => rows'["embedding"] = 0
  <2>1. Careful(w)
    BY <1>3, WorkersAreCareful
  <2>2. rows'["summary"] <= 1 /\ rows'["embedding"] <= 1
    BY <1>0, <1>2, <1>3, <2>1 DEF Careful
  <2>3. ASSUME NEW v \in Workers, v # w
        PROVE  /\ pc'[v] = "summarizing" => rows'["summary"] = 0
               /\ pc'[v] = "embedding" => rows'["embedding"] = 0
    <3>1. pc'[v] = pc[v]
      BY <2>1, <2>3 DEF Careful
    <3>2. ~(pc[v] \in Running /\ pc[w] \in Running)
      BY <1>2, <1>3, <2>3 DEF Overlap
    <3>3. "summarizing" \in Running /\ "embedding" \in Running
      BY DEF Running
    <3>. QED
      BY <1>0, <1>2, <1>3, <2>1, <2>3, <3>1, <3>2, <3>3 DEF Careful
  <2>. QED
    BY <2>1, <2>2, <2>3 DEF Careful
<1>4. CASE ObservedNext /\ (Age \/ Reactivate \/ Reprocess)
  BY <1>2, <1>4 DEF Age, Reactivate, Reprocess, Alone
<1>5. CASE ObservedNext /\ Delete
  <2>1. rows'["summary"] = 0 /\ rows'["embedding"] = 0
    BY <1>5 DEF Delete, Suppressed, Kinds
  <2>. QED
    BY <1>2, <1>5, <2>1 DEF Alone
<1>. QED
  BY <1>1, <1>2, <1>3, <1>4, <1>5 DEF ObservedNext, Next, Alone

\* The checks of worker/dispatcher.py for an active summary and an active
\* embedding suffice: crashes, retries, restarts and reprocessing leave a source
\* with one of each, as long as no second process is at it at the same time.
THEOREM OneOfEachUnlessRaced == ObservedSpec => []OneOfEach
<1>1. ObservedSpec => Spec
  <2>1. ObservedInit => Init
    BY DEF ObservedInit
  <2>2. [ObservedNext]_<<vars, raced>> => [Next]_vars
    BY DEF ObservedNext
  <2>. QED
    BY <2>1, <2>2, PTL DEF ObservedSpec, Spec
<1>2. ObservedInit => Alone
  BY DEF ObservedInit, Init, Alone, Overlap, Running, Kinds
<1>3. TypeOK /\ TypeOK' /\ Alone /\ [ObservedNext]_<<vars, raced>> => Alone'
  BY AloneStep
<1>4. Alone => OneOfEach
  BY DEF Alone, OneOfEach
<1>. QED
  BY <1>1, <1>2, <1>3, <1>4, TypeCorrect, PTL DEF ObservedSpec

=============================================================================
