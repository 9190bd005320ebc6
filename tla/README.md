# Recalium in TLA+

Recalium keeps a person's AI conversations in a PostgreSQL archive, derives
summaries, facts, full-text entries and embeddings from them with local or
external models, and serves the result to people and agents. This directory
holds TLA+ models of its server (`src/backend/app`), the TLC configurations that
check them and TLAPS proofs of what matters most. Everything is translated from
the Python code; paths below are relative to `src/backend/app` unless they begin
with `src/`, and `PROJECT.json` maps every definition to its lines.

Contents: [the system](#the-system), [the modules](#the-modules),
[the runs](#the-runs), [the proofs](#the-proofs),
[where code and promise disagree](#where-code-and-promise-disagree),
[what is not modelled](#what-is-not-modelled), [the plan](#the-plan).

## The system

One FastAPI process serves HTTP, runs one worker loop as an asyncio task, a daily
backup task and an inbox watcher, and mounts an MCP server. Nothing forbids more
than one such process on a database, and a restarted one overlaps the row
versions its predecessor left. All parts share the database: rows and row locks
are the only communication between the worker and the request handlers, apart
from an in-process retrieval cache that writers invalidate.

| component | state | operations | interacts with | model |
|---|---|---|---|---|
| ingest, watcher (`domain/ingest`) | `raw_archive`, `jobs`, inbox files | paste, file, poll | one transaction stores archive row, audit event and pending job | Intake |
| imports, portability (`domain/imports`, `api/routes/portability.py`) | archive rows, tombstones | import conversations, export and import a bundle | ingest, deletion | Intake |
| job queue, worker loop (`domain/jobs`, `worker/loop.py`) | `jobs`: status, attempts, claimed_at, bound generation | claim, complete, fail, park, recover, reset stale (once, at start), reactivate, reprocess | claims with SKIP LOCKED, dispatches, recovers by the claim's fingerprint | Derivation, LegacyPipeline |
| legacy pipeline (`worker/dispatcher.py`) | summaries, facts, tags, FTS, embeddings, audit events | `dispatch_job`: gate, policy, summary, extraction, index, embedding, duplicates, links, reconcile, complete | providers between commits; deletions at any point | LegacyPipeline |
| derivation coordinator (`domain/derivations/service.py`) | heads, generations, stage completions, projections | admit, persist each stage, prepare, publish, finish, resolve a conflict, fail | every transaction locks source, head, job, generations and re-reads the claim | Derivation |
| managed dispatch (`worker/managed_dispatcher.py`) | a worker's captured claim and snapshots | `dispatch_managed_job`, `dispatch_claim`, `enrich_and_finish` | calls the coordinator between provider calls | Derivation |
| deletion (`domain/archive`, `derivations/privacy.py`) | `deleted_at`, tombstones, the external ledger | delete, suppress, erase, append, reapply | withdraws generations and heads under the coordinator's locks | Derivation, Curation, Restore |
| visibility (`derivations/visibility.py`, `readers.py`) | none | which rows a reader sees | reads heads and generations in one statement | PublishedMemory, Bridge |
| backup and restore (`domain/backup`) | dump files, rollback snapshots | backup, retention, restore with rollback and reapply | replaces the whole database while it is in use | Restore |
| duplicates, review, canonical memory (`conflict_detection.py`, `review_queue`, `canonical_memory`, `facts.py`) | facts, groups, review items, canonical memory | detect, resolve, dismiss, promote, edit | lock several archives at once | Curation |
| authority (`domain/authority`) | records, supersession edges, receipts | propose, activate, supersede, withdraw, dispute | advisory locks by receipt and scope, state digests | Authority |
| bridge (`domain/bridge`) | clients, grants, aliases, receipts | ingest, retrieve, provision, revoke | row and advisory locks, a snapshot per retrieval | Bridge |
| retrieval (`domain/retrieval`) | an in-process cache | search in three modes, links, trimming, invalidate | reads what visibility admits | Ranking, Recall |
| context packets, succession, model context | none | packet, rendered handoff, consumption payload | built from an answer of retrieval | Handoff |
| local inference (`infrastructure/local_inference.py`) | process lock, advisory lock, quarantine | acquire, identity and residency checks, release | one model request at a time over all processes | LocalInference |
| policy and sensitivity gate (`domain/policy`) | none | classify, resolve | asked by both pipelines | its decision, left open |
| cutover, links between facts, embedding model, settings, telemetry, audit, MCP, routes, frontend | logs, configuration | assembly and display | call the services above | [not modelled](#what-is-not-modelled) |

**What is hard.** (1) Provider calls take minutes and run between transactions:
deletion, reprocessing, a restore or another worker may step in. (2) A claim older
than ten minutes is given to somebody else although its worker may still be
running. (3) A process may die between any two commits, and most recovery is one
pass at start-up. (4) Attempts are counted, given back and reset by different
paths. (5) A failure that is only logged leaves the next stage with a rolled-back
session. (6) Publication, withdrawal and legacy retirement together decide what
readers see, and no reader may see two generations or none. (7) A restore replaces
the tables under everybody, the deletion log included. (8) Transactions run in READ
COMMITTED, so a look-up proves nothing about the insert behind it unless a row or an
advisory lock stands between them. (9) Retried requests meet their own first attempt.
(10) The local model server does not say when it has finished with a request whose
client is gone. `PROJECT.json` lists each hazard at its line with the properties that
watch it.

**What makes each part correct.** The queue: one owner per claim, every claim is
settled, waiting jobs can be claimed. The coordinator: head, job and generations
agree; published output is complete; nothing of a removed source comes back;
conflicts end with a true reason; readers see one generation at a time. The legacy
pipeline: the deletion race is reconciled, decisions are on record before a
provider is called, partial results are on record, a summary or an embedding that exists is not made
again.
Restore: deleted rows stay deleted, a usable state is never lost. Curation: a fact is
judged once, what a suppression keeps is of a live source and current, nobody waits in
a circle. Intake: a
deletion travels, a file is filed away for what became of it. Authority and bridge:
supersession is acyclic, what was retired stays so, a retry is answered from its receipt, nobody writes or reads
behind a revocation. Recall: answers are ranked, bounded, in scope and not staler than
the overlap that caused it. Local inference: one prompt at a time, none behind a failed
cleanup, and every request ends.

## The modules

### Derivation: one source under the managed coordinator

`Derivation` is the core: one archived source, its only job, its head, its
generations, and any number of workers in processes of their own.

- Durable state. `source` is the `raw_archive` row (deleted) together with the
  tombstone of a content twin; `job` the job row, `head` the
  `archive_derivation_heads` row, `gens` the generations with their stage
  completions, projection and embedding, `baseline` the projection that belongs
  to no generation. `clock` numbers claims and stands for the time `claimed_at`
  is taken from: it only has to differ between claims, which microsecond
  timestamps of serialised claims do.
- Local state. `pc` is the next transaction of a worker's dispatch, `claim` the
  `Claim` it captured, `ctx` whatever else it carries from one transaction to a
  later one: providers allowed by the policy, the summary outcome that forbids a
  retry, the raised reason, the replay flag. A field is reset where the code
  drops the variable, so states that cannot differ later coincide.
- Actions. A coordinator transaction locks source, head, job and generations in
  that order and re-reads them, so each is one action: `Admit`, `Snapshot`,
  `Classify`, `RawBaseline`, `Decide`, `Park`, `PersistSummary`, `Review`,
  `PersistExtraction`, `Assess`, `PrepareFts`, `Publish`, `Enrich`, `Finish`,
  `Resolve`, `FailCurrentClaim`, `Recover`. `FenceFails` is any of them finding
  its claim or its source gone. `Escape`, `RecoverFails` and `Crash` are the
  failures around them; `Start` includes the stale reset that runs once per
  process.
- Environment: `Age` (ten minutes pass), `Reactivate`, `ReprocessFailed` (with or
  without the binding the caller saw, `Preconditions`), `ReprocessCompleted` (late and
  repeated requests included), `Delete`,
  `DeleteTwin`.
- Abstractions. Texts, vectors and hashes are gone; a stage has an outcome. The
  policy decision is any set of operations the settings permit. `Enrich` is one
  step that may record an embedding: duplicate and link detection write rows of
  other archives. Rows of a second job of the source do not exist, because ingest
  creates one.

`DerivationProperties` states what must hold, why it does, and the promises that do not;
`PublishedMemory` is the abstract specification: what a reader of one source is
shown, in three actions (`Publish`, `Seal`, `Withdraw`). `Readers` in
`DerivationProperties` is the refinement mapping through `visibility.current`:
the shown generation is `head.active`; legacy rows are shown while there is no
active generation and legacy derivations are not retired.

### LegacyPipeline: the same source with the switch off

`dispatch_job` commits many times and nothing fences a write. The model has one
action per commit, and keeps the one thing that makes the unfenced writes subtle:
SQLAlchemy's `expire_on_commit=False` session writes only the attributes that
differ from the instance it loaded (`seen`, `Written`), so a worker that was
presumed dead may overwrite some columns of the job and leave others. Derived rows
are counted by kind: a summary and an embedding are looked up before they are made, facts
and rows of text are added on every run that gets there. `log` holds the audit events some property is about;
`skipped` is a history variable set when a dispatch that may have written leaves
without reaching `Reconcile`.

### Restore: backup, deletion, restore

The database is what a dump of it holds: the live and the erased rows. `files` is the
backup directory, with backups and hidden rollback snapshots; `ledger` the external
tombstone file; `rs` the running restore request with one stage per await in
`restore_backup`. Requests of users (`Ingest`, `Delete`, the ledger line behind it) come
between the stages. `born`, `gone`, `exposed` and `purged` are history: what was ever
stored, what was deleted, which deleted rows some failure the code names may have brought
back, and whether retention took a snapshot. A restore may name a backup or a rollback
snapshot. `Restored` is what `pg_restore` may leave, whose exit code is only logged: the
rows of the dump, no rows (their loading failed), or what was there (it did nothing), and
each of these with a core table missing. Only a missing table is noticed by the
validation, and a usable state is one that passes it; the others are answered as a
success (`SuccessRecoversAll`). One restore runs at a time; two at once are listed as a hazard.

### Authority: guarded writes over a supersession graph

A write is one transaction, a slot with the locks it holds given by `pc`: `Begin`
checks client and grant and keeps both rows FOR SHARE, `LockReceipt` waits for the
advisory lock of client and key and answers a repeated request from its receipt,
`LockScope` waits for the lock of the scope and evaluates the guards (`Verdict`: mode,
digest, eligibility, supersession), `Commit` writes rows, edges and receipt together.
A digest stands for the graph it is computed from, so two states have one digest only
if they are one state. Clients decide on what they read: `ReadRecords`, `ReadEdges`,
`ReadAgain` and `Show` are the four statements of `get_current_authority`, and commits
may come between them. `Provision` is the operator; it waits for the rows that running
writes share.

### Bridge: clients, grants, aliases and keys

Every statement of ingest, retrieve and provisioning that may wait is a step, and the
fields of `txn` say what the transaction has locked (`Blockers` is who it waits for).
An alias resolves through its receipt (`PinnedSpace`), else through the binding; a
receipt by space and key decides whether an ingest is replayed or refused. With
generations managed, a retrieval is authorised twice, the second time in a REPEATABLE
READ snapshot in which a row that changed since cannot be locked (`InSnapshot`).
`DirectRevoke`, `Revoke` and `Delete` are the operator and the owner of sources.

### Curation: facts after they are published

Facts of several sources, of several generations each; a transaction has one step per
statement that reads, waits or commits. With managed generations on, detection,
resolution and promotion lock the sources first, in the order of their ids, and then
look again at what they found; without them detection commits three times
(`CreateGroup`, `LinkFacts`, `QueueItem`), and a crash in between leaves a group that
is never queued. An embedding outlives the suppression of its fact (`Embedded`), so
detection goes on finding it. The review status of a fact, which an edit may set while its
group is pending, is kept apart from its source status: a resolution looks at the latter
only (`KeptIsListed`). An edit locks nothing but its row. `Publish` and `Erase` come from
the coordinator and from deletion.

### Intake: how sources come in and travel

Two installations with databases of their own. Look-up and insert are two steps
(`LookUpKey`, `Store`), which is the idempotency race as it is. Bundles are a growing
set, so that they may be imported late, twice and out of order; an export reads items
and deletions in two steps, an import locks what it will erase, then stores item by
item, and each stored item commits what came before. The watcher's file is read,
stored and moved in three steps with `Interrupt` (it dies, or the move fails) between; an
error puts the file under `failed/` even if it comes behind the commit (`RefuseFile`). An
item of a bundle may lack its hash (`NoHash`), and is then stored without a look at what is
there or deleted.

### Ranking, Handoff and Recall: from a query to what a model is given

`Ranking` and `Handoff` are pure: reciprocal rank fusion over rows that stand for one
unit, trimming by layer within a budget, the packet, the rendered handoff and the
consumption payload with its second pass when something was left out. `Recall` runs
them: requests read full text hits, semantic hits and links in steps of their own while
sources are published and withdrawn, an unscoped answer is kept in the cache, and a
writer clears the cache in a step after its commit. What PostgreSQL computes is a given
ranking; scores are exact integers (fractions of `Unit`). The fusion keeps `RRF_TopN`
units of an unscoped request and `MaxRank` of a scoped one. A source may be listed
several times by one search: its text is indexed when its job is parked and again when it
is run, and the search for text does not take duplicates out (`ListsRowsOnce` says only
that no row is listed twice); each listing votes. Each choice along a list
is an operator of its own (`Considered`, `Packed`, `Selected`, `Taken`) that a fold
applies to one item after the other, and sorting is `InOrder` along a relation
(`BestFirst`, `Precedes`), so that both can be reasoned about.

### LocalInference: one lane over all processes

Tasks of several processes take the lock of their process, then the advisory lock with
a connection of their own, check the model's identity, poll until nothing is resident,
send, and poll until their model has left. A failed cleanup sets `unhealthy` and keeps
the connection. The server (`Load`, `Unload`, `Notice`, `OthersLoad`) is external: it
loads for a client that may be gone (`late`). `LoseConnection` and `Restart` are the
faults; `lost` is history. What every specification has (`LaneInit`, `LaneNext`,
`LaneSpec`, `LaneTypeOK`) carries the lane's name here, so that a module can extend this
one beside another.

### Other modules

Modules named `MC...` declare model values, small data and symmetry; `...Properties`
hold properties; `...Proofs` hold theorems. A definition named `..._Bug` is a plausible
faulty variant of the definition behind it and is used only to show that a property
notices it.

## The runs

All runs finish; `CHECK_DEADLOCK FALSE` is set throughout, because a system whose
job is done, or whose bounded requests are used up, rightly stops. Transactions that
wait for each other are looked for by `NoDeadlock` instead.

| run | asks | bounds |
|---|---|---|
| `safety` | does the published state stay coherent, and is a stale worker harmless, when two processes race for one job through crashes, resets, deletion and reprocessing? Also the refinement of `PublishedMemory` | 2 workers, 2 attempts, 2 generations, 2 claims |
| `liveness` | does every dispatch of a running process end, with a true verdict, when the process restarts with and without providers? | 1 worker, 2 configurations, 2 generations, 2 claims, weak fairness of its dispatch |
| `legacy` | is the deletion race reconciled, partial output recorded, every provider call authorised, and no summary or embedding made twice by processes that do not overlap? | 2 workers, 2 configurations, 2 attempts, 2 claims |
| `restore` | can deleted rows come back other than by a failure the code names, and can failing restores lose the last usable state? | 1 row, 3 files |
| `authority` | do supersession, retirement, replay, the digest guard and revocation survive overlapping and repeated requests? | 1 client, 2 requests at once, 3 writes, 2 reads, 2 records, 2 keys |
| `bridge` | does a key stay one archive, and is nothing served behind a revocation or deletion? | 1 client, 2 spaces, 1 key, 2 contents, 2 transactions at once, 3 in all |
| `local_inference` | is the lane exclusive and quarantine tight, and does every request end? | 2 processes with 2 tasks each, 2 models, 2 polls, 2 requests, 1 fault, fairness below |
| `curation` | are facts judged once, kept facts current and live, promotions live, and is there no circle of waits? | 2 sources with 2 generations, 2 groups, 2 transactions at once, 3 in all |
| `intake` | does a deletion reach every row it should, and is every filed file stored? | 2 installations, 1 content, 1 key, 1 file, 3 rows, 1 bundle (2 in `finding_bundle`), 2 transactions at once, 3 in all, 1 fault |
| `recall` | are answers ranked, in scope and stale only by overlap, and does a handoff account for every item? | 2 requests at once, 2 sources, 3 pairs of rankings, 5 kinds of request, 2 changes |
| `finding_rollback`, `finding_bundle` | a quoted promise that the code breaks, one property each | as small as the trace allows |

Five more configurations collect the other disagreements named below:
`FindingsDerivation.cfg`, `FindingsLegacy.cfg`, `FindingsRestore.cfg`,
`FindingsCuration.cfg` and `FindingsRecall.cfg`, each for the `MC` module of that name.
Every property in them is violated. TLC stops at the first it finds; without its line it
shows the next.

**Why the bounds are enough.** Two claims and two workers are what a takeover
takes: the first claim, its reset and the second claim, with the first worker
anywhere in its dispatch. Two attempts distinguish the last one, on which the
summary may be given up, from the others. Two generations are needed for
succession (a published one replaced, a candidate given up); a third is the same
situation again, since at most one is open and one active. Two claims also let a
job wait for a provider, be reactivated and run again, or fail and be reprocessed.
Three files are a
backup and two snapshots, so that a restore can fail while the snapshot of an
earlier failure is all there is; rows meet only in the reapply, which treats each
by its own hash. `MaxGens` and `MaxClaims` are the only artificial bounds of
these modules, in the guards of the actions that create generations and claims; the
theorems hold for every value of them. Configurations contain "all providers" and
"none".

In the modules of requests (`Authority`, `Bridge`, `Curation`, `Intake`) a hazard takes
two transactions that overlap and one more before or after them that changed what they
saw: an operator, a deletion or a repetition. Three transactions of which two are open
cover that; the operator and the deletions of `Authority` and `Bridge` are not counted.
Two records are enough for a cycle of supersession (each over the other), and the
theorems cover longer ones. Two rows of one content and a third for what an import
stores are what `Intake` needs, and one bundle, which both installations may import,
more than once: `DeletionTravels` follows one import at a time. `LocalInference` needs a task that holds the lane, one
that waits in its process and one that waits in another; one fault can be the restart
or the lost connection of any of them. `Recall` chooses its rows so that every choice
of the code is made: two rows of one unit in different modes, a source that one search
lists twice against one that both find, a source in one space and
one in two, a fact reached by a link from out of scope, budgets that some item misses
and a payload budget that fits only without the warning; `RRF_TopN` is 2, fewer units than
two searches can find, and `RRF_Worst` is 2, so that a unit found late by one search
misses the threshold. `MaxRequests`, `MaxPrompts`, `MaxTxns`,
`MaxWrites`, `MaxReads`, `MaxBundles`, `MaxFaults`, `MaxChanges` and `MaxGenerations`
bound only how much happens in one behaviour.

**Fairness.** Two specifications assume any. `FairSpec` of Derivation: weak fairness of
`Dispatch(w)` for each worker. asyncio resumes a runnable task, every transaction
commits or raises, and provider calls have timeouts, so an enabled dispatch step is
eventually taken; a crash disables it. Nothing is assumed of the environment, of
start-up or of claiming. `DispatchEnds` says that a dispatch leaves its busy stages,
which is not obvious because a published replay restarts it. `FairLaneSpec` of
LocalInference: weak fairness of each task's `TaskStep`, whose stages all have a timeout or
a bounded number of polls (`StopWaiting` is the timeout of the prompt); strong fairness
of entering the process and of taking the advisory lock, because `asyncio.Lock` and
PostgreSQL grant both in the order of the requests; weak fairness of the server's
`Unload` and `Notice`, because the request asks for `keep_alive` 0 and the server
notices a closed connection. No fairness is assumed of restarts, so a lane that another
process quarantined may stay closed for ever, which `RequestEnds` says.

## The proofs

The theorems hold for every number of workers, clients, sources, rows and files, all
settings and all bounds. They rest on each module's named assumption about its constants
only: settings are configurations, a job may be attempted and a lane asked at least once,
bounds are natural numbers, each row has a hash, ids that are locked in order are natural
numbers, the rows and sources that are counted or locked one by one are finite sets, there
is an installation, and `"none"`, which stands for SQL's NULL, is no client, scope,
process, group or file. `RecallAssumption` says what a row is and that an id names one,
that there are finitely many links, and that a search lists a row once (`ListsRowsOnce`: its
statements join each row to one source); a source may be listed by many rows.
`RankingAssumption` says that at most `RRF_K + 1` ranks are fused (50 and 60 in the code),
so that what both searches found outweighs what one found first. TLC checked each
invariant, the inductive ones included, before it was proved.

**Coherence** (`DerivationProofs`). What the runs check is not inductive: `HeadsAgree`
alone does not say that a worker about to publish holds the newest generation. `IndInv`
is `TypeOK`, `Counted` (a claimed job has used an attempt, so the reset's subtraction
stays in range) and `Coherent`:

- `Numbered`: sequence numbers are used in order;
- `BoundToNewest`: the job is bound to the newest generation, which only a removal
  retires;
- `Succession`: the candidate is the newest generation and succeeds the active one,
  and an active generation has retired the legacy rows;
- `HeadsAgree`, `PublishedComplete`, `RemovedStaysWithdrawn`,
  `CompletedIsPublished`.

The proof has one lemma per group of steps: steps that change only local state,
steps that only fill in a stage of an open generation, the creation of a
generation, publication, the end of a job, deletion. `ContextOk` is what the fence
gives every worker step: the claim is current, the source live, the generation the
job's own and the head's.

**Claims** (`DerivationProofs`). `StaleClaimHarmless` follows from
`WritesAreFenced`: a worker's step changes a durable row only if it owns the job by
attempt and `claimed_at`. `ClaimIsSettled` needs `Tokens`: claims that are running
at once differ in `claimed_at`, and the one that agrees with the job passes the
whole fence. `LifecycleIsMonotone` is proved with a relation on rows (`Evolves`)
shown for each step. `LostAckIsSafe` needs that a generation is admitted on an
older binding (`AdmittedOnOlder`).

**Verdicts** (`DerivationProofs`). `NoFalseVerdict` speaks of the one step that judges,
`Resolve`, but what it judges by was carried there from a transaction that failed
earlier. `Reasoned` follows it: `Progress` says what is durable at each stage of a
dispatch that would still pass the fence (`Holds`), `Blamed` that a conflict of such a
worker has one of two reasons, and that the generation is still what raised it,
`Searchable` that only a removal makes rows `source_removed`. Steps of others either take
the claim away or leave its generation alone (`OthersLeaveHolder`); the stages that raise
are shown to raise only those two reasons (`RaiseBlames`).

**Refinement** (`DerivationProofs`). Every step of the coordinator is, through
`Readers`, a `Publish`, `Seal` or `Withdraw` of `PublishedMemory` or a stutter, so
`Spec => ReadersSpec`: one reader-visible step per publication, complete outputs
that never change, no legacy rows after it, nothing of a removed source.

**Legacy** (`LegacyProofs`). `TypeCorrect` needs `InDispatch` and `Counted`,
because unfenced writes of two workers meet on one row. `RaceIsReconciled` is
inductive as stated. `PartialResultsAreAudited` is strengthened with what workers
remember (`GivenUp`: a worker that carries a partial summary, or has seen the row
say so, finds the event in the log). `ProvidersAreAuthorized` needs that a stage
behind the policy carries the number of its own claim. `OneOfEach` is about behaviours in
which no two dispatches overlap, so it is stated of `ObservedSpec`, where `raced`
remembers whether they ever did; `Alone` adds that a worker alone at a provider call
found nothing to repeat when it looked.

**Restore** (`RestoreProofs`). `Held` is typing plus consistent dumps (every dump
holds only rows once stored, none twice) and a snapshot that exists in the stages
that need it. `LedgerCovers` gives `OnlyExposedReturn`: each deletion is in the
ledger, on its way or exposed; while the reapply runs its reading covers the live
deleted rows. `Recoverable` gives `GoodStateIsKept`: between the snapshot and the
verdict a usable state is in the directory, afterwards in the database.

**Authority** (`AuthorityProofs`). `Locks` is what the locks give while they are held:
`TypeOK`, `Requested` (a slot in progress has a request), `Previews` (a dry run never
gets as far as the commit), `KeysAreHeld` and `ScopesAreHeld` (two writes never hold the
same lock), `Authorized` (client and grant stand while their rows are shared) and
`RetryIsReplayed`. It gives `RetriesAreReplayed` and `RevocationHolds`. `Guarded` adds
`GuardsHold` (what the guards found under the scope lock is still so at the commit),
`Joined` (an edge joins two records of one scope) and that every scope is acyclic. A
commit changes its own scope only (`OtherScopesStay`, `OwnScopeGrows`), and an edge that
passed `WouldCycle` closes no cycle (`NoCycleIsClosed`: reachability through a new edge
is cut at that edge). That gives `SupersessionNeverCycles`, and `AppliedToTheDigest`,
the first half of `AppliedToTheStateShown`. Its second half is that the eligible records
in an answer agree with the digest beside them, although they come from different
statements. It holds because a scope only grows: the status of a record rises (`Rank`:
proposed, active, withdrawn or disputed) and edges are added (`TablesRise`). `InOrder`
says that what an answer showed is eligible in some graph between its digest and the
scope (`Shown`); when the scope is the digest, nothing is left between them (`Between`).
`RetirementIsFinal` comes from the same growth: a commit only raises what it was validated
against (`CommitRaises`). `TypeOK` of this module is proved and not checked by a run.

**Bridge** (`BridgeProofs`). `Exclusive` says of any two transactions what locks keep
them apart: an operator's from those of its client and its space, two ingests from one
key and, if they name an alias, from one alias. `Standing` is what those locks preserve,
from look-up to commit: client, grants and sources of a request stand (`Permits`), its
alias is where it resolved it (`Pinned`), its key has no receipt of another payload
(`Keyed`). `ServedIsGranted` follows. `Answered` ties each answer given to its
receipt and alias, which are never written twice, and `RepeatsAreOneSource` follows.
`BoundToKind` is needed for an alias that is resolved through its binding.

**Curation** (`CurationProofs`). `Types` holds the discipline of the locks: the ids a
transaction holds are below those it still wants, and the row of a fact comes last
(`Locking`). `NeverDeadlocked` takes from a circle of waits the transaction that wants
the greatest lock; with managed generations nobody can be in its way.
`PromotedStaysLive` is inductive as stated, because the insert looks at the fact and its
source once more under the locks it holds. `JudgedOnce` is far from inductive. `Care` adds
`Exclusive` (a source is locked by one), `Grounded` (a fact in a group was published, an
active fact has a live source), `Settled` and `Membership` (a group that was decided on
is empty; the members of a pending group point to it) and `Deciding`: what a resolution
found under its locks is so until it commits.
`SuppressKeepsCurrent` is `Deciding` at the commit.

**Intake** (`IntakeProofs`). `Carried` follows an import: the rows it will erase cover
every live row that it saw under a deleted hash (`Travelling`), until it has erased them;
nobody else makes a row live again. `Watched` counts: a file has one copy for each
interruption behind the store, and one more once it is stored and not yet filed
(`Done`); a step of the watcher adds one row at most.

**Local inference** (`ProcessProofs`). `Lane` is `LaneTypeOK`, `Named` (a task that
needs a model has one) and `Held`: a task behind the process lock has it, one behind the
advisory lock has that (unless a connection was lost), and while a process is
quarantined, its own tasks are outside and the advisory lock is still its own. Mutual
exclusion and `QuarantineHolds` follow; the third part is what is easily lost, because a
quarantined process must keep a connection that no task uses any more.

**Recall** (`ProcessProofs`). What an answer is was computed by folds and sorts, so the
proof has two halves.

The first is about the operators of `Ranking` and `Handoff`, for every list. The
library's induction theorems cannot be used here, but induction can: a claim is the set
of the numbers it holds for, and a set that holds zero and every successor holds the
natural numbers (`CountUp`, from well-foundedness). It shows that a fold over the
positions of a list is a walk along them (`FoldWalk`), that a sum over a finite set can
be taken apart at any element (`SumElement`), and that `InOrder` lists a set along a
strict total order (`InOrderSorts`). From these: `TrimByLayer` (what was left out did not
fit beside its own and higher layers), `Merges` and `MergeRanks` (the fusion shows a
unit once, and what both searches found before what one of them lists once;
`TwoOutweighOne` is the arithmetic of the scores, none of which is rounded, and
`SingleVote` says that a unit listed once by one search has one vote), `FilledHolds`, `ConsumeAccounts` and `RenderAccounts`
(each selection within a budget accounts for every item, warnings included).

The second is the invariant `RecallInv`: `Reading` says what every place of a request keeps
for the next (`Sound`: each list ranks a row once and is in scope, a search that the mode
leaves out found nothing, an answer is ranked when it is built and accounted for when it is
handed over), and `Holding` says of a cached answer that its filters are those of its key
and that no more changes were made since it was kept than there are writers still to clear
for (`Cached`). `AnswersAreRanked`, `AnswersStayInScope`, `StaleOnlyByOverlap` and
`HandoffAccounts` follow.

**Defects the proofs found**, all in the models. The choice of spaces of a retrieval was
written with CASE guards that overlapped, which TLC decides by their order and a proof
cannot; the choice in the code is an `if` that excludes the rest, and so is it now
(`Wanted` in `Bridge`). The same was true of `Candidates` in `Recall`. The fusion
there had one limit for all requests; the code has two
(`domain/retrieval/service.py:1032`).

**Only model-checked.** The liveness properties `DispatchEnds` and `RequestEnds`
(liveness and `ENABLED` are out of the prover's reach), and the counterexamples of the
next section. That the constants of a configuration meet their assumptions is evaluated
by TLC in each run.

## Where code and promise disagree

Each of these has a property that TLC finds violated; the first two are runs, the others
are in the `Findings` configuration of their module.

| property | code | promise |
|---|---|---|
| `DeletedStaysDeleted` | `domain/backup/service.py:298`: a rollback is not followed by the tombstone reapply, whether it puts back a snapshot older than a deletion or changes nothing | "never becomes retrievable again regardless of which backup was restored" (`domain/archive/tombstones.py:15`) |
| `DeletedStaysOut` | `api/routes/portability.py:177`: an import heeds the deletions of its own bundle and the rows that exist, never the tombstones earlier imports left; an older bundle behind a newer one brings content back | "a receiving instance will not resurrect deleted content on import" (`portability.py:17`) |
| `KeptIsListed` | `domain/review_queue/service.py:97`: the kept fact is chosen by confidence and age, whatever its review status; one that the user deleted meanwhile is kept, and the facts readers saw disappear | "keep the best fact, suppress the duplicates" (`domain/review_queue/service.py:173`) |
| `SuccessRecoversAll` | `domain/backup/service.py:288`: the exit code of `pg_restore` is only logged, and success is that the core tables can be read | "Recovers all data including audit events and configuration" (`domain/backup/service.py:249`) |
| `AgreementOutranks` | `domain/retrieval/service.py:241`: every listed row votes, and a source whose text was indexed twice (`worker/dispatcher.py:1086` and `1220`) has two votes of one search | "An item found by both modes outranks an item found by only one mode" (`src/backend/tests/domain/test_retrieval.py:133`) |
| `CompletedNotRerun` | `worker/dispatcher.py:1171`: facts are extracted and written again by every run behind one that committed them | "does not re-run already-completed sub-jobs" (`src/backend/tests/worker/test_dispatcher.py:90`) |
| `PendingIsEligible` | `reactivate_pending_provider_jobs` keeps the attempts: a job parked on its last one becomes pending and can be neither claimed nor reprocessed | "jobs don't stay blocked forever when user adds a key" |
| `MissingProviderNeverFails` | a prepared generation retried without providers fails with `invalid_phase` | missing provider is "not failure" |
| `DeletionConverges` | waiting for a provider and a failed extraction return before the reconciliation | "both interleavings converge" |
| `GateAuditIsNonFatal` | the rollback expires `archive_item`, only the job is refreshed | "(non-fatal)" |
| `FailedRestoreRollsBack` | `_run_pg_restore` raises outside the `try` that rolls back | "on failure, roll back from the safety snapshot" |
| `CacheHonorsDeletion` | `domain/retrieval/service.py:1129`: a request that read before a deletion keeps its answer behind the flush, and only the time to live of 60 seconds ends it (`StaleOnlyByOverlap` is what does hold) | "deletion events must flush relevant cache entries" (`src/docs/architecture/retrieval-and-ranking.md:91`) |
| `LinkedBelowDirect` | `domain/retrieval/service.py:867`: a linked fact scores half its confidence, more than any score of the fusion | "discount vs direct match" (`domain/retrieval/service.py:867`) |
| `ErasedStaysErased` | `api/routes/facts.py:210`: an edit updates the row it read before the deletion, by id, and puts text behind the erasure | derived plaintext is erased "so the content cannot survive" |

Others were met while reading.

- `worker/loop.py:86` sends its NOTIFY in a session that is closed without a commit, so
  other processes are never told to clear their caches, which
  `domain/retrieval/service.py:129` describes.
- `_apply_candidate_filters` (`domain/retrieval/service.py:923`) compares `captured_at`,
  text with a space between date and time, with an ISO filter that has a `T` there. On the
  day a range starts, matches are dropped; on the day it ends, later ones may pass.
- Only `budget_met` makes a packet warn of memory left out upstream;
  `result_limit` and `result_exhausted` drop items without one.
- A conversation import hashes the conversation, a bundle hashes the text it stores:
  re-imported conversations are stored twice, and a deletion in a bundle does not reach
  the row an import made. Canonical items of a bundle lose their source, so a later
  deletion of the source leaves them.
- `get_current_authority` reads four statements in READ COMMITTED, so the records and
  edges shown may belong to no one state, against "ambiguity is returned, never resolved
  by guessing"; a mutation on such a digest is refused.
- Without managed generations a promotion locks the fact before its source. `NoDeadlock`
  holds with them.
- Edits and promotions do not clear the retrieval cache.
- The second pass of link detection sends fact texts of other sources to a provider under
  the policy decision of the source at hand (`worker/dispatcher.py:655`).
- A managed dispatch whose summary key is missing records `policy_skipped` when another
  provider's key is set (`worker/managed_dispatcher.py:99` against
  `worker/dispatcher.py:854`).
- After a restore the backups that still hold deleted rows lose their flag
  (`domain/backup/service.py:405` against 396): the deletion events were replaced and the
  reapply writes another event type.

## What is not modelled

Texts, prompts, embeddings, formatting and logging: the properties do not tell them
apart. Besides:

- **Policy and sensitivity gate**: rules over text without state. The pipelines take any
  decision it can return.
- **Managed links** and the writers of **derived memory**: rows under the locks that
  Derivation and Curation have. That they exist is a stage outcome or a fact.
- **Cutover**: a read-only report, made while writers stand still. The managed and legacy
  pipelines are modelled apart, so nothing is said of a switch while jobs run.
- **Several jobs**: a job concerns one source, and SKIP LOCKED keeps claims apart; their
  order is not modelled.
- **Retrieval**: time and tag filters (the first compare text, see above), diagnostics,
  and readers with generations on, whose one-statement view is PublishedMemory and whose
  snapshot is in Bridge.
- **Bundles**: canonical items. **Bridge**: the status query. **Curation**: canonical
  items written by hand. **Imports**: parsing.
- **Two restores at once** (`api/routes/backup.py:77`): each takes snapshots of what the
  other left half done, and nothing stands against it. Content that was deleted and is
  stored again under a new row is erased by the next restore, since the ledger goes by
  hash (`domain/archive/service.py:296`).
- Start-up, configuration, telemetry, audit, the MCP server and most routes have no
  protocol of their own; the frontend, integrations, agents and experiments are clients.

A claim younger than ten minutes at start-up stays claimed until the next start; the
project's own notes accept that (`src/docs/recommendations.md`, F18), so no liveness of
the queue is claimed.

## The plan

Done, in the order of importance: Derivation with PublishedMemory, LegacyPipeline,
Restore, Authority, Bridge, Curation, Intake, Recall with Ranking and Handoff,
LocalInference. Worth doing next:

1. Proofs: that Bridge implements a store in which requests take effect one at a time, and
   Authority a register that is changed only in the state it was read in.
2. Composition: Recall over PublishedMemory, so that a cached answer is related to
   generations and not only to live sources; Derivation and LegacyPipeline over one job
   for the switch between them, with the cutover checker as a read-only action.
3. JobQueue: several jobs, their order and a worker task that dies.
4. Pure algorithms against reference definitions: policy resolution, conversation
   splitting, bounded summary input.
