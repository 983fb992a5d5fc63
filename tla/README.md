# A TLA+ model of raglogs

raglogs ingests logs from files and log platforms, clusters and embeds them in
PostgreSQL, and explains incidents with rules, telemetry and an LLM. This
directory models it from the adapters to the evaluation harness: the parts in
which several actors share state step by step, the analysis as operators over
small inputs, with other transactions committing between its queries. TLC checks
the models on small instances; TLAPS proves the safety properties of the parts
that share state for every value of the constants, and that the ingest pipeline
implements the table its readers are promised.
`PROJECT.json` maps every definition to the lines it models and lists the runs,
the mutants that show that a property can fail, the findings, the hazards and
the theorems.

Paths below are relative to the repository's own root; the JSON prefixes them
with `src/`.

## 1. Inventory

| part | code | state | operations | modules |
|---|---|---|---|---|
| worker loop and queue | `src/worker/runner.py`, `src/core/ingestion/backpressure.py`, `src/db/session.py` | `worker_jobs` rows, row locks, `last_purge_at` | claim, run, terminal commit, rollback, idle poll | WorkerQueue |
| completion callbacks | `src/core/ingestion/webhooks.py` | none (HTTP attempts) | deliver, retry | WorkerQueue |
| tail ingestion | `src/core/ingestion/tail.py` | `ingestion_jobs` row: status, poll clock, error counter, cursors, held window | tick, auto-pause, pause / resume / stop | TailIngest |
| enqueue API, idempotency keys | `src/api/routes/ingestions.py`, `src/core/ingestion/idempotency.py` | `worker_jobs`, one row per key | ceiling check, insert, replay, expiry, race recovery | WorkerQueue, IdempotentEnqueue |
| ingest pipeline | `src/core/ingestion/service.py`, `push.py`, `telemetry.py` | `ingestion_jobs`, `log_entries`, `sources`, spans, samples | read, batch, dedup, resume, push | IngestPipeline, LineStore, StructuralSignals |
| embeddings | `src/core/embeddings/` | `log_embeddings`, `cluster_embeddings` | embed after a flush, upsert per cluster | LogEmbeddings, RetentionPurge |
| source adapters | `src/adapters/` | `ref.cursor` | read pages, fail, resume, join CRI fragments | AdapterPaging, LineParsing, TailIngest |
| retention purge | `src/core/retention/` | expired rows, `last_purge_at` | select and delete chunks, follow-up, schedule | RetentionPurge, WorkerQueue |
| LLM call path | `src/core/llm/` | semaphore, breaker counters, probe flag | acquire, admit, retry, record, release | LLMBreaker |
| authentication, scopes, rate limiter | `src/api/auth/`, `src/api/ratelimit.py` | `api_keys`, JWKS cache, token buckets | start, authorize, limit, resolve scope | ApiGuard |
| configuration overrides | `src/api/overrides.py` | `api_keys.config_json` | set, clear, resolve | QueryOverrides |
| explain cache | `src/api/routes/explain.py` | `explanations` | read, compute, save | ExplainCache |
| parsing, normalization | `src/core/parsing/`, `src/core/normalization/` | none | pure | LineParsing |
| clustering, explanation | `src/core/clustering/`, `src/core/explain/` | the session's snapshots | aggregate, merge, cap, select, label | Clustering, Explanation |
| comparison, timeline | `src/core/compare/`, `src/core/timeline/` | none | pure | WindowViews |
| retrieval and questions | `src/core/retrieval/` | the session's transaction | semantic, keyword, fallback; similar incidents | Retrieval |
| root cause analysis | `src/core/rca/` | telemetry rows | signals, partition, outcome, ranking, rerank, calibration | StructuralSignals, StructuralPartition, RcaRanking |
| evaluation harness | `src/eval/`, `scripts/` | corpus, split file, evaluation scopes | seal, score, eval, frozen-eval | EvalHarness |
| observability, CLI and UI shells, clients, settings | `src/observability/`, `src/cli/`, `src/clients/`, `src/config/` | none that control depends on | front ends | not modelled |

What is hard in it: worker processes, API threads and command lines share rows
with nothing but READ COMMITTED transactions and row locks between them;
transactions end in the middle of a job (the purge) or swallow errors and go on
(embedding); rows are loaded, decided upon and written later; page tokens, key
sets and explanations are cached and used after the world has moved on; several
SELECTs of one analysis see different tables; several threads share one breaker
whose callers report long after they were admitted. The most important places,
line by line, are `PROJECT.json` "hazards".

## 2. The modules

### TailIngest: one tail job, its ticks and its lifecycle requests

`job` is the committed row; `lock` is the row lock of the worker that selected
it with `FOR UPDATE SKIP LOCKED`; `poll[w]` is what a tick read when it started;
`req[c]` is a lifecycle request between its load and its UPDATE. `adapter` is
fixed when the job is created, and so is `asked`, the from_time and to_time of the
request, which only the first window heeds. Time is a number and a window a
half-open interval of instants.

| action | code |
|---|---|
| `BeginTick` | `tick_tail_jobs`, `_due_tail_jobs`, start of `tick_one_tail_job` |
| `TickSucceeds` | `ingest_from_source` and `_apply_tail_window_progress` |
| `TickFails` | the `except` branch of `tick_one_tail_job`: counter, poll clock, auto-pause |
| `TickAborts` | a crash, or `run_worker` logging a failed commit: `get_db` rolls back |
| `LoadLifecycle`, `CommitLifecycle` | `_apply_tail_action`; SQLAlchemy emits the UPDATE only when the status differs from what was loaded |

An adapter's `read` is the set `Reads(cursor, window, t)`: how far it got by the
clock `t`, the cursor it left and whether it failed. Datadog may stop at its row limit, Loki
may leave its loop exactly at the window's end, all may fail after some pages.
`covered`, `issued`, `from` and `lapses` are history variables that only the
properties read.

### WorkerQueue: enqueue, claim, run, purge, notify

`status` holds what is committed: a claim's "running" is not visible until the
transaction commits. `wk[w]` is where a worker's loop is and which job it has,
`api[t]` the row of a POST between its ceiling check and its commit, `order`
the rows by `created_at`.

| action | code |
|---|---|
| `CheckQueue`, `CommitEnqueue` | `create_ingestion` around `_reject_if_queue_full` |
| `Claim` | `claim_next_job` |
| `IngestSucceeds`, `IngestFails`, `PoisonRollsBack` | `run_ingest_job` in `process_one`; the last is a database error after which the handler's own flush raises |
| `PurgeChunk`, `PurgeEpilogue`, `PurgeDone`, `PurgeFails` | `run_purge` with its two commits, then `process_one` |
| `ScheduleCheck`, `ScheduleCommit` | `maybe_enqueue_purge` on an idle poll |
| `NotifyEnds`, `NotifyRetries` | `maybe_deliver_ingest_callback` after the terminal commit |
| `Abort` | crash, or an error the loop catches: everything since the last commit is undone |

Ids of purge rows are reused once they are finished and nobody holds them; an
id then stands for the next row. How rows expire is a counter of chunks.

### IdempotentEnqueue: requests with one Idempotency-Key

Each request is a READ COMMITTED transaction taken one SQL statement at a time:
lookup, insert of the job, second read, DELETE of an expired row, savepoint
insert, commit. `holder` is the transaction that touched the key's row; others
wait for it. The key is the primary key, so the DELETE is by key and removes
whatever row is committed when it runs; a DELETE that had to wait sees a row
that was replaced in the meantime as gone.

### LLMBreaker: semaphore, breaker and retries in one process

A caller waits for a slot, is admitted or refused by `allow_request`, makes its
attempts and reports through `record_success` or `record_failure`, which act on
the shared breaker whoever reports. `opened` is `_opened_at` as the remaining
cooldown.

### LineStore and IngestPipeline: lines into rows

`LineStore` is what readers are promised: the rows of a run become visible
together, and a timestamped line has at most one row per scope. `IngestPipeline`
is the pipeline itself and is shown to implement it (`Store == INSTANCE LineStore
WITH count <- ..., ended <- ...`, checked as `ImplementsLineStore`).

`run[r]` is the local state and the open transaction of a run, `rows`, `job` and
`sources` what is committed. A run reads its streams line by line
(`ProcessLine`), fails a stream, finishes it or stops short of its end
(`StreamFails`, `StreamEnds`, and `StopsShort` for a read that reached its row
limit: no error, the cursor is kept, the stream is not complete),
flushes row by row (`FlushRow`: an INSERT that meets an uncommitted row with its
key waits), and ends with `Complete`, `CompleteFiles`, `CompletePush`, `Fail`,
`ReadRaises` or `Abort`. `BeginSource`, `BeginFiles`, `BeginPush` and the two
`Refuse` actions are the ways in. PostgreSQL's deadlock detector
(`DeadlockVictim`) is external. The real flush sends a whole batch; the model
takes its rows one at a time, because that is how PostgreSQL takes their locks.
A resume skips the streams its predecessor completed (`SkipCompleted`) and reads
the others from the committed cursor (`resume_cursor`).
Lines are positions with a class (blank, bad, untimed, timed) and a key.

### LogEmbeddings: vectors of the inserted lines

One job's transaction at a time: `FlushBatch` keeps what was really inserted,
`EmbedBatch` is one request of `_OPENAI_BATCH_SIZE` texts whose items come back
in any order, `EmbedFails` the end of its retries, `PersistVectors` the savepoint,
`CommitJob` and `LoseJob` the caller. A vector is the text it was computed from.

### AdapterPaging: pages of a remote query

`feed` is the remote content of the window, external and fixed; `reading`,
`cursor` and `got` are the read, the reference's cursor and how often each line
was given. A cursor is a `Token`: a start time for Loki, else the position of a
line and how many empty pages were answered there, so that two tokens are equal
only when the service repeats one. One
action per page and adapter (`ReadLokiPage`, `ReadDatadogPage`,
`ReadCloudwatchPage`, `LokiWindowEnds`), and `FetchFails`, `Resume`, `StartRead`.
`TailIngest` uses the coarser `Reads` of the same adapters.

### RetentionPurge: rows, policies and chunks

`table` holds the expiry stamp of each row. A purge goes through
`list_scopes_to_purge` (`BeginPurge`), skips scopes it has no valid policy for,
and per chunk selects ids and later deletes them (`SelectChunk`, `DeleteChunk`),
while rows are inserted and cluster embeddings upserted; `FinishPurge` stamps or
enqueues a follow-up, `KillPurge` is a crash. `WorkerQueue` has the same purge as
a job; here it has rows.

### ApiGuard: bind guard, credentials, rate limit, scope

A request is authorized in one step (no await in `authorize_request`), passes the
bucket in a second and is handled in a third; keys are created and revoked, the
identity provider rotates and time passes in between. `jwks` is the
process-wide cache, `buckets` hold fractions of a token. Signature checks are
external: a token names its signer.

### QueryOverrides, ExplainCache

`QueryOverrides` resolves the five tunables from request, key defaults and
settings while an administrator changes the defaults. `ExplainCache` is the
request that reads the `explanations` table, computes from the lines it sees and
saves; `created_at` is the start of its transaction.

### Clustering, Explanation

`Clustering` takes the five SELECTs of `run_clustering` one by one with
`CommitLine` between them, then scores, merges along similar pairs, ranks and
caps (`RankAndMerge`). `Explanation` extends it with the count, the trigger
search and the summary of `explain_window`. Scores are integers in thousandths;
the importance formula keeps its order.

### WindowViews, LineParsing, Retrieval

`WindowViews`: `compare_windows` over two capped lists, `build_timeline` over a
packet. `LineParsing`: CRI reassembly as a state machine, text lines as token
kinds, timestamps as numbers, identifiers as lengths. `Retrieval`: a question's
way from semantic to keyword to fallback search in one transaction that a failed
SELECT aborts, and the similar-incident queries with their merge.

### StructuralSignals, StructuralPartition, RcaRanking

`StructuralSignals`: idempotent insertion of spans and samples (`persist_spans`,
`persist_metric_samples`, row by row where the code takes a list) and the
three-valued observables derived from them. `StructuralPartition`: hypotheses
grouped by what they predict, eliminated, classified, ordered and rendered, anew
after each `Measure` or `Rescore`. `RcaRanking`: features, tree scores, rerank
by propagation, calibration and silent services, each reading the tables when
its step comes.

### EvalHarness

`Seal`, `ScoreDev`, `ScoreTest` are the split, which goes by directory, and the
trace-localization scorer, which goes by the id in the case.yaml and takes only
cases with a label (`Hand`). `EvalCmd` and `FrozenEvalCmd` ingest every case into
the scope of its id, explain the job's lines in the case's window
(`explain_window`: the pool of significant clusters or, without any, all) and the
ranking of the scope, and score; `CaptureCase` edits the corpus in between. Which
clusters a run keeps and picks (`Clusterings`) and what the ranker answers
(`Rankers`) are left open here; `Clustering`, `Explanation` and `RcaRanking` model
them.

### Instances and proofs

`MCIngest` gives `IngestPipeline` its runs and files. `MCPlatform` and
`MCAnalysis` put independent modules into one instance: the variable `part` picks
the module a behaviour is about, the others keep an initial state, so the state
space is the sum and not the product. Fairness is conditioned on `part`.
The modules whose names end in `Proofs` hold the theorems: `TailIngestProofs`,
`WorkerQueueProofs` and `IngestPipelineProofs` those of one module each,
`ServiceProofs` those of `LLMBreaker`, `IdempotentEnqueue`, `ApiGuard`,
`RetentionPurge` and `MCPlatform`, `PlatformProofs` those of `ExplainCache`,
`QueryOverrides`, `AdapterPaging` and `LogEmbeddings`, `AnalysisProofs` those of
`Retrieval`, `EvalHarness`, `StructuralSignals`, `StructuralPartition` and
`RcaRanking`, `WindowProofs` those of `LineParsing` and `WindowViews`, and
`ClusterProofs` those of `Clustering` and `Explanation`. A module that `MCPlatform` or `MCAnalysis` composes has its own
next-state relation and specification for them (`KeySpec`, `PurgeSpec`,
`GuardSpec`, `ExplainSpec`, `OverrideSpec`, `PagingSpec`, `EmbSpec`,
`RetrievalSpec`, `EvalSpec`, `SignalsSpec`, `PartitionSpec`, `RankingSpec`,
`ParsingSpec`, `ViewSpec`, `ExplanationSpec`): the disjuncts that the composition uses, with the inputs left
to the constants.

## 3. Runs

| run | bounds | shows |
|---|---|---|
| `tail_race` | 2 streams, 2 workers, 1 request at a time, each of 3 adapters, from_time 0 or 2 with or without a to_time of 1 or 3, clock 0..3, 2 outages, 1 crash | `CursorBoundToWindow`, `TickedJobIsRunning`, `CaughtUpLosesNothing`, `OnlyOperatorsRevive` |
| `tail_stop_race` | the same with 2 requests, no window asked for and no faults | `StopIsTerminal` fails (finding) |
| `tail_paging_gap` | Datadog's one stream, no faults | `NoInstantSkipped` fails (finding) |
| `queue_safety` | 2 API threads, 2 workers, 3 ingest jobs (one poison), ceiling 1, 1 crash | `TypeOK`, `ClaimExclusive`, `QueueBound`, `CallbackTruthful`, `TerminalIsFinal` |
| `queue_live` | 1 API thread, 2 workers, a poison and a healthy job, 1 crash or failed purge, 1 chunk, 1 callback retry | `FinishUnlessPoisoned`, `PurgedUnlessStranded` |
| `queue_poison` | 1 worker | `AcceptedJobsFinish` fails (finding) |
| `queue_purge_stranded` | 1 worker, 1 crash | `ExpiredRowsPurged` fails (finding) |
| `idem_expired_race` | 3 requests, TTL 1 | `OneJobPerTTL` fails (finding) |
| `ingest` | 5 runs over 3 streams: two of them over the same two files in opposite orders, a resume, a resume from another scope, a push; batch 2, page 1, a stream with a row limit, an outage, an unreadable file, crashes | `TypeOK`, `CompletedUnlessDropped`, `JobReportIsTrue`, `ImplementsLineStore`, `RunsEndOnceQuiet` |
| `ingest_resume_loss` | a run and its resume | `CompletedStreamsStored` fails (finding) |
| `platform` | see below | one property or a few for each of eight modules |
| `analysis` | see below | one property for each of nine modules |

`platform`:

| module | bounds | properties |
|---|---|---|
| LLMBreaker | 3 callers, 2 slots, threshold 2, cooldown 2, 2 attempts, at most 4 failures in a row | `SlotsConserved`, `ProbeHasOwner`, `OpenedByFailures`, `BreakerRecovers` |
| IdempotentEnqueue | 3 requests of 2 scopes, TTL 1, clock 0..2, 1 failed commit | `OneJobUnlessExpired`, `JobsMatchAnswers`, `EveryRequestAnswered` |
| RetentionPurge | 2 raw rows, an embedding and a document in 2 scopes, one with a tier off and one unparsable, chunk 1, clock 0..2 | `PurgeIsExact` |
| ApiGuard | 2 keys (pinned, override), JWTs of one subject, 1 rotation, 2 requests, half a token per tick, four configurations | `AccessIsJustified` |
| QueryOverrides | 20 bodies, 6 updates in any order, auth on and off | `OverridesKeepTheirWord` |
| ExplainCache | 2 concurrent requests, 2 scopes, 2 computations, 1 line | `RepliesAreRight` |
| AdapterPaging | every feed of up to 4 lines over 3 instants, page 2, row limit 3, 2 resumes, a repeated last token | `PagesMakeTheWindow`, `PagingEnds` |
| LogEmbeddings | 2 jobs, 3 batches with duplicates and blanks, sub-batch 2, 2 attempts, every provider setting | `EmbeddingIsHarmless` |

`PlatformTypeOK` covers the types of the first two.

`analysis`:

| module | bounds | property |
|---|---|---|
| Clustering | tables of 3 lines of 7 kinds (4 fingerprints, 2 services, 2 environments, another scope), 1 line committed in between, cap 1 | `ClustersPartitionLines` |
| Explanation | the same, both trigger modes, with and without calibrator | `ExplanationFitsWindow` |
| WindowViews | windows of up to 4 lines over 4 fingerprints, cap 2; packets of up to 3 of 6 clusters | `ViewsTellAll` |
| LineParsing | 5 CRI records of 2 streams, bodies of up to 5 tokens, stamps around both cuts, identifiers up to 34 long | `MessagesComeThrough` |
| Retrieval | 6 lines, 12 questions, 16 callers, 5 cluster vectors | `RetrievalKeepsToTheQuestion` |
| StructuralPartition | 3 hypotheses over 3 observables, one uncollectable; every order of measurements, with low confidence too | `ViewsRefineWithEvidence` |
| StructuralSignals | any 4 rows of 6 spans and 9 samples of 3 services | `SignalsProveWhatTheySay` |
| RcaRanking | any 4 rows of 6 spans, 2 samples and 3 error lines, 4 configurations | `RankingRestsOnEvidence` |
| EvalHarness | the split: 2 directories, 6 contents (labelled and not, healthy, the id of the other directory, a missing file), 2 hold-outs; the commands: 5 contents over 3 log files (windows that leave lines out, info lines only, a shared id), 2 clusterings, 4 rankers, 2 commands | `EvaluationIsHonest` |

Several of these are conjunctions; each conjunct is a definition of its own with
its own comment in the module.

Why the bounds are enough. Two of each actor is what a race needs; two streams
let one stay open while the other is exhausted (a CloudWatch job may have two; for
Loki and Datadog, whose discovery yields one, the runs with two ask more than the
code needs). Three polls are a window, the
window after it and the seam between them. A ceiling of 1 with two threads
reaches the overshoot, three ingest jobs leave one behind the two that
overshoot. Threshold 2 with three callers on two slots lets a stale failure
arrive while another call is the probe, and lets a caller wait for a slot. Three
requests on one key are a predecessor that expires and two that race to replace
it. Two files read in opposite orders are the smallest deadlock; batch 2 leaves a
line in the batch when the second file fails. Four lines with page 2 give a
second page, ties at a page's end and a page that ends the window. A chunk of 1
with two rows makes every chunk full. Three clusters with cap 1 let a rare root
cause be cut. Three hypotheses let a class split in two steps. Weights are integers
where the code has floats: the blame of an ERROR span is `BlameUnit`, which 1, 2
and 3 callees divide, and `HopWeight` is the decay of 0.5 over two hops. What is
proved (section 4) does not depend on these bounds. Deadlock is checked in
`ingest`; in the other runs every request of the instance may have been served
and the clock may have reached its bound.

The pairs `AcceptedJobsFinish` / `FinishUnlessPoisoned`, `ExpiredRowsPurged` /
`PurgedUnlessStranded`, `OneJobPerTTL` / `OneJobUnlessExpired`,
`NoInstantSkipped` / `CaughtUpLosesNothing` and `CompletedStreamsStored` /
`CompletedUnlessDropped` belong together: the first is what the documents promise
and the code breaks, the second is the strongest form of it that holds: it names
the ways to break it, and TLC and the proofs show that there is no other. For the
tail these are a failed tick, a tick that leaves a cursor open and a first window
that ends at a to_time the clock has passed (`lapses`). `PartialIsTold` says in the
same way what "completed" without `partial` means: every line of each stream the
job keeps no cursor of is stored; a kept cursor is the only sign of a row limit.
`DevShowsNoHeldOut` and `TestIsAsSealed` name the two ways past a sealed split: a
case captured or labelled anew and a case whose id is another directory's.

Fairness. `queue_live`: a transaction that was started ends, a worker process
keeps looping and is restarted after a crash (the loop in `run_worker` catches
everything), and the purge interval passes; nothing is assumed of crashes, of
requests or of rows expiring. `ingest`: a run goes on (weak fairness of its
steps), and PostgreSQL resolves a deadlock once there is one; `RunsEndOnceQuiet`
asks nothing while runs keep being rolled back. `platform`: an admitted LLM call
returns (its attempts are bounded and each has a timeout), questions keep coming
and one caller is not passed over for ever, neither at the semaphore nor always
by its own token budget (strong fairness of `Acquire` and `Admit`), and the clock
runs; the bound on consecutive failures is the end of the outage. The server goes
on with a request it accepted, and a read loop takes its next page.

## 4. Proofs

For any finite or, where nothing is counted, infinite sets of actors and any
values of the numeric constants:

* **TailIngestProofs.** `TypeCorrect`, `CursorsStayBound`, `OneTickOfARunningJob`
  and `WorkersNeverRevive` follow from one inductive invariant `IInv`: types,
  the error counter never ahead of the outages, `CursorBoundToWindow` and
  `TickedJobIsRunning`. The cursor property needs the tick's exclusion: only
  because the row cannot change under a tick is the window it captured still
  the held one at its commit. `CaughtUpTailIsComplete` adds `Seam`: as long as
  every committed tick exhausted its window no cursor is open, each captured
  window begins at the committed poll clock, and everything between `from` and
  that clock is covered; a first window that ends before the clock is a lapse.
* **WorkerQueueProofs.** `ClaimExclusive` is not inductive, because the lock that
  excludes a second worker ends at the first commit. `IInv` therefore ties each
  place of the worker loop to the status its job can have there (`Fits`), and a
  POST to a row nobody sees (`OwnRow`). From it: `NoDoubleClaim`;
  `TerminalStays`, since a worker only ends jobs that are pending;
  `CallbacksTellTheTruth`, because a callback is sent for a terminal status and
  that status is final; and `OverrunIsBounded`, by counting: an enqueue adds one
  pending job and frees the request's own place, everything else only removes.
  `TypeCorrect` adds the rest of the types (`Books`): the order of the rows, the
  counters within their bounds and what receivers were sent.
* **ServiceProofs.** `TypeCorrect`, `SlotsNeverLeak` (free slots and holders
  add up, by cardinality lemmas), `ProbeNeverOrphaned` and `OpenOnlyByFailures`,
  from one invariant that ties the flags of a caller to its place.
  `KeyTypeCorrect`, `NoSecondJobBeforeExpiry` and `AnswersNameCommittedJobs`:
  `OneJobUnlessExpired` does not say what a request that is about to bind the key
  knows. `FirstBinding` does: one binding is a TTL older than every other. It is
  kept because whoever commits a second binding has seen an expired row
  (`Licensed`), and that row was a committed one (`RowIsBound`).
  `AccessJustified`: an override of the scope that reaches the handler comes from
  the key's own row, also after the key is revoked (`Carried`); the times of a
  bucket are in order and a fresh one has admitted nobody (`Accounts`), which
  closes the account of refills and charges. `PurgeExact`, with its two action
  properties: the DELETE goes by ids that an earlier statement selected; `Chosen`
  says what is still known of them, `Complete` that a short chunk held all there
  was, `Sweeps` that a purge of all scopes owes an expired row a scope on its list
  or a follow-up, and `StampMeansDrained` needs all three. `PlatformTypes` is
  about the composition: a step of one part leaves the others' state alone.
* **IngestPipelineProofs.** `TypeCorrect`, `CompletedMeansStored`,
  `ReportsAreTrue` and `StoreRefinement`. The properties speak of committed rows; the
  invariant says what an open transaction owes them: each line a run has read is in
  its batch, in its uncommitted rows or has a committed row (`Covers`), for its
  completed streams, its cursors and its position alike; the lines in hand are
  distinct and behind the position, so that none is counted twice (`InHand`); and
  no two transactions hold rows of one entry (`OneRowEach`), which is what waiting
  for the other's row achieves. Under the refinement a commit is a step of
  `LineStore` and everything else a stutter.
* **PlatformProofs.** `RepliesRight`: `created_at` orders computations as it orders
  the lines they could see (`Ordered`), and what a refresh saved is not behind
  what a slower computation read (`Refreshed`). `OverridesHold`: every value in a
  key's defaults was checked when it was stored and the principal is a copy of
  them. `PagesAddUp`: the cursor, or the start of the window without one, splits
  the lines into covered ones and untouched ones (`Split`), a read that has not
  ended stands at it, and a Loki page is the front of what is due, so that a line
  left out has the time of the page's last line.

* **PlatformProofs**, the embeddings. `EmbeddingRight`: what was sent and what is
  still owed are stretches of one sequence of texts (`SelectSeq`, read off as an
  order-preserving numbering), an answer is sorted by the index it carries, so it
  is the request's order whatever order it came in, and the rows of a batch are
  inserted before the savepoint that a failure rolls back.
* **WindowProofs.** `ParsingRight`: that the parts pending are one message does
  not follow from what is pending; it needs the place a stream has reached
  (`Reached`) and where the pending parts begin (`Pending`). `ViewsRight`: the two
  sides of a comparison are one definition with the windows exchanged, and a
  timeline is a list whose order is total on what it lists (`StrictOrder`,
  `Numbering`: in such an order everything has its own number, so the list sorted
  by it has each element once). The counts are sums; `SumsExist`, `SumSplit` and
  `SumRenamed` say how the library's sum behaves.
* **ClusterProofs.** `ClustersRight`: a group is assembled from queries that saw
  different tables, and the invariant says of each of its columns which of the
  tables seen since the first query it agrees with (`Aggregated`); with one table
  they all agree with that one. After the ranking, the list is tied back to the
  groups it was built from by a partition of them (`Represents`): each cluster
  stands for a set of groups (`StandsFor`), these sets are the components of the
  similarity relation, and reordering and merging keep that, whatever order the
  database gave (`RankInv`). `ExplanationRight` adds what a packet remembers
  (`ExplInv`) and needs the order of the list: the cluster kept beyond the cap is
  the one that the choice of the primary cluster would pick (`CapKeeps`), a cause
  is searched up to the primary cluster's onset, and a cluster that stands for
  counted groups has lines.
* **AnalysisProofs.** `RetrievalRight`: an ORDER BY ... LIMIT returns the first of
  the rows it matched and nothing if and only if there are none, a merge of two
  such lists keeps the nearer score, and the statements after a failed one cannot
  be reached. `EvaluationRight`: the split is sealed with the contents it was computed
  from (`SealStands`), so that a matching fingerprint makes every TEST case what it
  was; a line that was not inserted was in the scope before (`CaseLines`), and a job
  with any line in its window has a primary cluster (`PoolFacts`); what a scorer
  reads of an explanation satisfies `Scorable`, from which both judge alike.
  `SignalsRight`: inserting rows is idempotent and commutes, and a signal that
  shows a fault is a maximum over rows of one trace or instance, so that rows of
  another cannot lower it. `PartitionRight`: the invariant is that the view is the
  one the present measurements give; the survivors are divided by an equivalence,
  so that the outcome says whether any two of them differ over the usable facts,
  and a step adds a usable fact or none, so that it can only split. That
  `rank_classes` has an order to list the classes in needs one to be built
  (`Ranked`). `RankingRight`: the blame is counted by failed span instead of by
  service (`SumTwice`), which makes it one whole each; every feature reads rows of
  the window, or of a service that has some (`SilenceIs`); a neighbour is one hop
  away (`HopsAre`), so that of two equals alone in having errors the first to fail
  weighs its score more (`FirstWeighsMore`); and reordering only permutes
  (`SortedGood`), so that the head is the ranker's best whenever the calibrator's
  guard lets it through (`StageInv`). A tree's walk ends, and in a number, because
  children come after their parent (`PredictIs`).

Where the properties are action properties or a refinement, the proof goes step by
step from the same invariant. Each inductive invariant was first checked by TLC on
a small instance.

A few proofs did not go through for a reason. Two definitions with CASE had
branches that overlap, where TLC takes the first and TLA+ leaves the choice open
(`normalize_id`, `compute_confidence`): they now say IF, as the code does. That the
cap keeps the primary cluster needs the error volume to weigh something: with all
three `rca_weight_*` at zero the primary is chosen by its count, and the cap may cut
it. Pairs of similar clusters have to be symmetric
(a cosine is) for a merge to be independent of the order.

The assumptions are the named `ASSUME`s of the base modules: finite sets where
something is counted, positive intervals, ceilings, page and batch sizes,
placeholders (no row, no cursor, not given) that differ from real values, kinds of
rows that do not overlap, times of a feed within the window and in order, tables
and weights that are numbers, a symmetric similarity, trees whose children are
numbered after their parent (`well_grown`, as the fitted trees that
`serialize_gbc` writes are), a unit of blame that the callees of a span divide
(`RankConstants`). TLC evaluates them in the runs. One restricts the callers: a
run names no stream twice (`IngestConstants`). Files are deduplicated by
`discover_files`, and Loki and Datadog discover one stream; a request that lists a
CloudWatch log group twice is outside the model. One fixes the instance:
`MCPlatform` picks two scopes by name (`PlatformScopes`).

Only model-checked:

* the liveness properties `FinishUnlessPoisoned`, `PurgedUnlessStranded`,
  `RunsEndOnceQuiet`, `BreakerRecovers`, `EveryRequestAnswered` and `PagingEnds`:
  fairness is outside the prover's reach.

Every safety property of a passing run is proved.

## 5. Departures of the code from its documents

With a run (see "findings" in `PROJECT.json`): a stopped tail job revived by a
concurrent request; time skipped after a held paging window; a poison job that
starves the queue; a purge row stranded in "running"; two jobs under one
idempotency key when its expired row is replaced twice; lines lost when a failed
run that had finished a stream is resumed.

Met while modelling and described by the model, without a run of their own.

Ingestion and adapters:

* a failed tick with no open cursor stamps `last_polled_at`
  (`src/core/ingestion/tail.py:273`), so its window is never read; the docstring
  at line 137 calls that column "only the poll clock";
* a tail job created with a from_time and a to_time (nothing in
  `src/api/schemas/ingestions.py` or the route forbids them) ends its first window
  at to_time, while the tick stamps `last_polled_at` with now
  (`src/core/ingestion/tail.py:150`, 172): if the tick runs later, the time between
  the two is in no window. This is the same seam as the finding of
  `tail_paging_gap`;
* a read that stops at `max_rows` is not an error (`src/adapters/datadog/adapter.py:359`)
  and leaves its cursor, so the stream is not recorded as completed
  (`service.py:547`), but the job is "completed" without `partial`
  (`service.py:708`): of the two ways a job may end with lines missing only an outage
  is marked;
* a resume that loaded "running" issues no UPDATE, so an auto-pause committed in
  between stays (`src/api/routes/ingestions.py:477`), and resuming does not reset
  the error counter (`tail.py:250`); ticks are skipped while the queue is full;
* a full Loki page that ends at the window's last nanosecond leaves a cursor from
  which no later read moves (`src/adapters/loki/adapter.py:177`, against
  `src/adapters/base.py:60`), and lines of the nanosecond at which a full page
  ends are skipped (line 231);
* lines without a timestamp are outside the dedup index
  (`src/db/models.py:24`), so a retry stores them again although
  `docs/api.md:147` calls it a no-op;
* re-ingesting a file makes a newest completed job that owns no line
  (`src/core/explain/summarizer.py:91`), so what defaults to the latest
  ingestion is empty; an evaluation that is run twice over one database books its
  positives as detection failures, and its healthy cases as left alone, for the same
  reason;
* vectors lost in an embeddings outage are never backfilled: the lines are
  duplicates the next time (`src/core/ingestion/service.py:234`);
* two jobs may create one source twice (`service.py:714`); nothing depends on
  there being one;
* the callback of an ingest that fails after it created its `ingestion_jobs` row
  carries the worker job's id (`src/worker/runner.py:149`, against
  `docs/api.md:151`).

Platform:

* a stale failure clears the probe flag, so that after another cooldown two
  half-open probes may run (`src/core/llm/resilience.py:103`, against line 11); a
  success of a call admitted before the breaker opened ends the cooldown early
  (line 94);
* a purge of one scope from the command line stamps the `last_purge_at` of all
  (`src/core/retention/purge.py:603`);
* the JWKS document is kept for the life of the process
  (`src/api/auth/oidc.py:103`), so a rotated key is refused and a withdrawn one
  accepted until a restart;
* `no_llm: true` loses against `llm.provider` in the same body
  (`src/api/overrides.py:221`);
* a template written during an LLM outage is cached under the key of the LLM
  request and served later, also after more lines arrived
  (`src/api/routes/explain.py:280`); a confidence read back has lost its
  `calibrated` flag (`src/api/schemas/v1.py:513`, against `docs/api.md:237`).

Analysis:

* the four SELECTs of the clusterer may see different tables, so a cluster may be
  torn or have no line (`src/core/clustering/clusterer.py:164`); the window's count
  ignores the environment filter, the trigger search the service and environment;
* minutes between trigger and error are truncated towards zero
  (`src/core/explain/evidence.py:560`), so "after" may be said of a trigger up to a
  minute late; a comparison of capped lists may call an entry new that is in both;
* the text parser's fallback strips two tokens (`src/core/parsing/text_parser.py:151`);
  CRI fragments of two streams that interleave split a message, and a blank CRI
  line is stored as its tag;
* a failed SELECT in the semantic search aborts the transaction, so the fallback
  raises (`src/core/retrieval/question_router.py:404`, whose docstring says errors
  "never raise to the caller"); for a caller bound to a scope the fingerprint
  fallback of similar incidents asks for what it excludes and returns nothing
  (`docs/api.md:281`);
* `src/core/rca/linkage.py:105` and `propagation.py` key spans by `span_id` alone;
  after a rerank the "margin" feature is not the ranker's
  (`src/core/explain/summarizer.py:491`);
* DEV cases and log files outside the case directory are not in the fingerprint of
  a sealed split (`src/eval/sealed_split.py:80`);
* the split is sealed by directory name (`scripts/seal_corpus_split.py:28`), while the
  scorer selects by the id a case.yaml may give
  (`scripts/eval_trace_localization.py:102`, `src/eval/case.py:140`), so a held-out case with a DEV
  directory's id is scored with DEV, and two cases of one id share a scope
  (`src/eval/runner.py:77`); a held-out case without a trace-localization block is
  counted in TEST and never scored (line 91);
* `src/core/explain/summarizer.py:245` speaks of "insufficient evidence" for "no
  significant clusters", but without significant clusters all are taken
  (`src/core/explain/evidence.py:390`): a healthy case with one informational line in
  its window is explained, so `negative_precision` counts empty windows only;
* from Python 3.11 on `datetime.fromisoformat` takes some strings of 13 digits, so that
  the millisecond epoch "1770123100000" is a day of 1770
  (`src/core/parsing/timestamp.py:65`, against the comment at line 75); 3.10, which
  the Dockerfile installs, rejects them.

## 6. What is not modelled, and the plan

Not modelled, and why: regular expressions, prompts, templates, Markdown and HTML
(text that no state depends on); vector distances and floating-point weights
beyond their order; the forms of an ISO date (`fromisoformat` in
`parse_timestamp_field` is a choice of `CalendarDigits` only); spans stored twice
under one trace and span id with different services (the instance has none, and
`SignalsRight` takes each row as a parent of its own); span and metric files of an
evaluation case; HTTP, TLS, signatures and decompression (external); metrics,
logs and spans of the service itself; argument parsing and printing of the command
line, the web UI, the client library and the settings loader; read-only routes
(listing jobs, status, dry-run counts); soft support scores of the structural
view; the corpus importers and offline studies of `src/eval` (file conversion);
migrations.
