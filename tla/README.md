# documents-rag: formal model of the document lifecycle

documents-rag stores uploaded documents, indexes them into versioned Qdrant
collections for retrieval-augmented chat, and moves them between collections,
retries and deletes them with jobs kept in Postgres. This directory holds TLA+
modules that model the job system, the requests that only read, the calls to
Qdrant, MinIO and Ollama and the chat stream, TLC configurations that check them
on small instances, and TLAPS proofs of the safety of the job
system, of uploads, of paging, of the calls and of the chat stream for every instance.
Paths below are relative to the repository (`src/` here).

## 1. Inventory

### Components, their state and operations

| component | state | operations | interacts with |
|---|---|---|---|
| Upload and deduplication (`services/documents/upload_service.py`, `dedup_service.py`) | `documents`, `documents.content_hash`, stored object | upload, decide by hash, recover from the hash race | storage, ingestion (creates the first job), deletion (hash) |
| Ingestion (`services/ingestion/*`, `indexing/collection_registry.py`) | `ingestion_jobs`, `index_collections`, `documents.collection_name` | claim, extract, embed, register, upsert, complete, fail; retry request; stale recovery | storage, vector store, deletion (checked by retry) |
| Deletion (`services/documents/deletion_*.py`, `indexing/vector_deletion_service.py`) | `document_deletion_jobs` | request; worker: claim, erase vectors everywhere, erase the original, release the hash | ingestion and re-index tables (checked), cleanup table (collections to erase) |
| Re-indexing (`indexing/reindex_*.py`, `api/v1/routes/reindex.py`) | `reindex_jobs`, `documents.collection_name` | schedule, build ahead, activate (two routes) | ingestion and deletion tables (checked), creates cleanup jobs |
| Vector cleanup (`indexing/cleanup_job_service.py`) | `vector_cleanup_jobs` | claim, guard, erase, record | vector store, `documents.collection_name` |
| Lifecycle status (`documents/query_service.py`) | none, derived | GET status, list, detail | the job tables |
| Vector store, object storage (`rag/providers/qdrant_vector_store.py`, `storage/*`) | points, objects | upsert, search, delete by document; save, read, delete | all workers |
| Reconciliation, re-index inspection (`services/reconciliation/*`, `indexing/reindex_inspection_service.py`) | none | read-only audits and hints | everything, by reading |
| Chunking, extraction, download (`documents/chunker.py`, `text_extractor.py`, `download_service.py`) | none | split the words of each page; read the original for a client | ingestion, builds; deletion table |
| RAG decision, orchestration, streaming (`rag/*`, `api/v1/routes/chat.py`) | none between requests | answer a question, stream events | vector store, LLM |
| Providers and retry (`rag/providers/*`, `core/retry.py`) | attempts of the call being made | HTTP calls with bounded retries; a call that timed out may be served later | external services |
| Application shell (`main.py`, `core/*`, `services/platform_health.py`) | settings | configuration, logging; readiness probe, which creates the bucket | object storage |

Workers are not deployed processes: operators or cron run
`scripts/process_pending_*.py` and `scripts/recover_stale_ingestion_jobs.py`,
several at a time if they like. All coordination goes through Postgres row
locks (`FOR UPDATE`, `SKIP LOCKED`), partial unique indexes (one active job per
document and table) and the status columns; Qdrant and the storage take part in
no transaction.

### Hard behaviours and the properties they call for

* checks of one table followed by an insert into another (delete, retry,
  schedule): `DeletionExcludesWriters`;
* reads before an external call or from a session's own copy, used after it
  (cleanup guard, activation route, re-read of a build job):
  `CleanupSparesServing`, `ActivatedOnce`, `ServingVectorsPresent`, `DeletedStaysPut`;
* workers that die between two commits, external calls that apply and still
  fail: `VectorsTracked`, `DeletedMeansUnsearchable`, `VectorsBeforeStorage`,
  `DeletedMeansErased`, `HashHeldUntilDeleted`;
* two uploads of the same bytes, a commit that raises, a process that dies
  between the save and the commit: `LiveContentUnique`, `OriginalKept`;
* a claim that marks nothing, so that two workers process one cleanup row:
  `CleanupsErase`;
* recovery by age: `FailedStaysFailed`, `HeldOnce`, `IngestionSettles`;
* exceptions inside exception handlers: `WorkersSettleTheirJobs`;
* retries that must end: `VacatedIsCleaned`, `DeletionSettles`,
  `EverythingReturns`;
* calls repeated, or served after their sender gave up, and races to create a
  collection or the bucket: `WritesLast`, `ErasuresLast`, `ReadyMeansBucket`;
* answers put together from several reads while the jobs run: `StatusWasTrue`,
  `DownloadsHonest`, `AlarmsAreReal`, `LossesReported`, `HintsHold`;
* pages of a table that grows, in an order that is not the order of commits:
  `WalkComplete`, `NobodyTwice`, `ListComplete`;
* a stream that fails in the middle: `KeepsContract`;
* arithmetic of sizes and overlaps: `ChunksCoverText`, `ChunksBounded`.

`PROJECT.json` lists every hazard at its line with the properties that cover it.
Beside these, `RefusedStaysLocal` and `AnswersAreGrounded` say what the decision and
the prompt of a chat request rest on.

## 2. Modules

| module | models |
|---|---|
| `DocumentStore` | the shared tables, collections, storage, request sessions; claims, unique indexes, `Reconfigure` (a redeployment with other settings) |
| `Ingestion` | `IngestionWorker`, `retry_ingestion()`, `recover_stale_ingestion_jobs()` |
| `Deletion` | `request_document_deletion()`, `DocumentDeletionWorker`, `delete_all_tracked_document_vectors()` |
| `Reindexing` | `schedule_reindex()`, `ReindexWorker`, `activate_reindexed_document()` behind its two routes |
| `VectorCleanup` | `process_next_vector_cleanup_job()`, `retry_cleanup_job()` |
| `DocumentLifecycle` | the composition of the above over one store, the cross-component properties, fairness |
| `DocumentPromise` | the abstract specification: what a client is promised about status, search, download and the content hash |
| `Upload` | `POST /documents`: `decide_upload()` and `upload_document()`, over `DocumentPromise` |
| `Observers` | the requests that only read, over `DocumentLifecycle`: document detail, download, `audit_document_lifecycle()`, `inspect_document_reindex_state()`, `build_collection_reconciliation_report()` |
| `Paging` | the walk of the batch audit and the walk of the document list, over a table that uploads extend |
| `Chunking` | `DocumentChunker`, over the lengths of the words |
| `ProviderCalls` | one call to Qdrant, MinIO or Ollama: `retry_async()`, failures, timeouts, requests served late, the servers' effects |
| `ProviderClients` | the sessions behind the calls: indexing, erasing, saving, removing, readiness probe; extends `ProviderCalls` and `Chunking` |
| `ChatAnswer` | `POST /chat` on top of them: decision, retrieval, prompt, LLM stream, server-sent events |
| `AnswerStream` | the abstract specification of the event stream |
| `MCLifecycle`, `MCUpload`, `MCServing`, `MCObserved`, `MCPaging` | instances for TLC |
| `JobSteps_proofs` | lemmas about tables and sessions; the steps of ingestion, deletion, re-indexing and cleanup preserve the invariant |
| `Chunking_proofs` | lemmas about recursive functions, the chunker as one of them, and what it makes of any page |
| `Upload_proofs`, `Paging_proofs` | theorems and proofs about the module of that name |
| `ChatAnswer_proofs` | theorems about the calls to the services (`ProviderClients`), the chunks (`Chunking`) and the chat stream, the refinement of `AnswerStream` among them |
| `DocumentLifecycle_proofs` | theorems about the composition that hold however requests interleave |
| `DocumentPromise_proofs` | theorems for clients whose requests about one document do not overlap, the refinement of `DocumentPromise` among them |
| `Observers_proofs` | theorems about what the read-only requests answer while the jobs go on |

### How state and actions correspond to the code

* A job table is the sequence of its rows in commit order. Rows are never
  deleted, so a position is the job's id and "latest by `created_at`" is the
  last row of a document. (`created_at` is in fact the start of the inserting
  transaction; see section 5.)
* One step is one transaction, or one awaited external call. Statements of one
  transaction that read different tables are steps of their own, since READ
  COMMITTED lets other sessions commit between them. Two merges are made
  because the merged read commutes with every other step or is covered by its
  neighbour: the load of the `Document` row directly after a claim's commit is
  part of the claim step, and `CheckBuildAllowed` reads the deletion table and
  `index_collections` at once (the latter only grows).
* `collection[d]` is `documents.collection_name`; a collection stands for one
  complete indexing configuration, which is what its name encodes.
  `configured` is the collection that the deployed settings resolve to.
* `vectors` is the set of (collection, document) pairs with points: the
  properties do not tell chunks apart. `object` is the set of stored originals,
  `hashed` the set of documents with a non-NULL `content_hash`.
* A request (`client[c]`) or a worker session (`ingestor[w]`, `deleter[w]`,
  `builder[w]`, `cleaner[w]`) is a record with the step it has reached (`at`)
  and the values it has read and will use. What SQLAlchemy keeps in a session
  (`expire_on_commit=False`) is such a value: `base` in an ingestion session is
  the loaded `collection_name` (the ORM writes the column only if it differs),
  `status`/`activated` in an activation request are the preloaded job, `loaded`
  in a cleanup session is the status the claim has read. The comment in
  `cleanup_job_service.py:229-230` that the commit expires the row is untrue under
  this factory, which matters when two workers process one row: a retry that
  fails sets FAILED on a row loaded as FAILED, so no status is written, and what
  another worker has COMPLETED meanwhile stays.
* `Mortal` sessions may stop after any step; the session is then free again (the
  script is started anew) and whatever it has not committed is lost. `Lossy`
  sessions may see an external write raise although it was applied. Every
  external call of every worker may fail without effect, always.
* `MayBeStale(i)` stands for `_is_stale_processing`: a job whose worker is gone
  becomes stale, one whose worker lives only when `Overrun` is TRUE.
* `Claimable` is `ORDER BY created_at LIMIT 1 FOR UPDATE SKIP LOCKED`: the
  oldest row, or the next when older ones are locked by other sessions for an
  instant.

Each action covers a whole handler segment: for example `CompleteIngestion` is
`mark_document_indexed()` plus the commit of `COMPLETED`, with the
foreign-key failure that would follow if nobody had registered the collection; `RegisterIndexCollection` is the insert into `index_collections` and,
when it loses the race, the failing handler in `worker.py:123-127`.

The other modules follow the same conventions.

* `Observers` gives each read-only request a session `observer[o]` with what it
  has read. One read is one step, in the order of the code; the jobs of
  `DocumentLifecycle` move between the steps. `since` and `changed` are
  history: the statuses the document had during the request, and whether
  anything a request about it may read has changed since its first read.
  `Loses` takes points or originals away behind the system's back, once;
  without it the reports would have nothing to report.
* `ProviderCalls` names a session's step after the call it is making.
  `Serves` is a call that is answered, `ServedButRefused` and `Unavailable` are
  failures with and without effect, `TimesOut` leaves the request on the `wire`,
  from where `DeliverLate` may make it happen at any later time, even after
  the session has gone on. `late` remembers these.
  Which failures are repeated differs by client as in the code: HTTP timeouts and
  connection errors, answers 429, 502, 503 and 504, MinIO's transient codes; the LLM
  stream never.
* In `ProviderClients` a document is not indexed again once its erasure has
  begun: that is what the job tables guarantee and `DocumentLifecycle` checks.
  (Where it is violated, in `WriteSkew`, no client can help.)
* `ChatAnswer` reduces a question to what `decide()` looks at: too short or
  not, asks for secrets or not, refers to documents or not. A token is a token;
  `complete` says that the answer is a fixed text or the LLM has sent `done`.
  `CustomRagEngine` is modelled. `LangChainRagEngine` makes the same steps as far as
  its code goes; what langchain_core does with a stream that has no text (it raises,
  which becomes an error event) is not modelled.
* `Chunking` represents a page by the lengths of its words; `Length` is the
  length of a run of words joined by blanks. The loop of `_split_text()` is a
  recursive function of the number of words read (`Scan`).
* `Paging` keeps `created_at` apart from the moment of the commit: it is the
  start of the transaction, and the object is saved in between.

Definitions commented "Mutant" are variants of the definition that follows them
with a plausible mistake. They are not part of the specification; they serve to
show that a property would notice that mistake.

### Abstract specification

`DocumentPromise` has four variables per document: the lifecycle status,
whether it is searchable, whether its original is stored, whether its hash is
reserved. Its actions say that content is published only by an ingestion or a
build, that a deletion is accepted only when no job is writing, that the original goes only when
nothing is searchable, and that a document is deleted (its hash released) only
when both are gone. `DocumentLifecycle` maps its state to it
(`Promise == INSTANCE DocumentPromise WITH ...`, with `LifecycleStatus`
translated from `derive_lifecycle_status()`), and `KeepsPromise` says that
every step is a step of the promise or a stutter.

`Upload` uses the promise the other way round: its `LifecycleStep` lets a
document that an upload has created live in any way `Promise!Next` allows, with
`object` and the hashed documents as the promise's `stored` and `reserved`.
Uploads need to know no more of ingestion and deletion than that, and
`KeepsPromise` is what the composed jobs are checked to keep. `status` is
"absent" until the commit that inserts the document, its hash and its job;
`upload[u]` is a request: the two statements of `decide_upload()` are two steps
(`LooksUpHash`, `ReadsDeletion`), the save, the commit and the cleanup one each.
`doubtful` is a history variable: documents whose commit was applied and raised.

`AnswerStream` has, for each request, the events sent and whether the source of
the answer has come to its proper end. Metadata is first and sent once, tokens
follow, then `done` or `error`, one of them, and nothing after it; `done` only
when the answer is complete. The connection may break anywhere, so there is no
liveness in it. `ChatAnswer` implements it with `events` and `complete` as they
are (`Contract == INSTANCE AnswerStream WITH ...`, `KeepsContract`); the
refinement hides which decision and which failing call produced the events.

## 3. Runs

The first four runs and the violations use `MCLifecycle`, the others the module
with their name. `Forward` is one redeployment from A to B, `Rollback` also
allows going back. Deadlock is not checked: the system stops when every job is
finished and the bounds admit no further request.

### Runs that pass

| run | instance | shows |
|---|---|---|
| `Sequential` | 1 document, A/B, 1 request at a time, 1 worker of each kind and a second one for cleanups; deletion, build and cleanup workers mortal, deletion workers and one cleanup worker lossy; 2 jobs per table; 226 thousand states | `KeepsPromise` and the tracking and serving invariants, and that a COMPLETED cleanup has erased whatever two workers make of its row, when requests for a document do not overlap and ingestion neither dies nor lies |
| `Faulty` | 2 documents, 1 request, 2 ingestion workers, mortal and lossy; 3 ingestion jobs | jobs are held once and failed rows stay failed, whatever races for the registration of a collection, dies and is recovered |
| `Concurrent` | 1 document, 2 requests interleaved, symmetry on requests; deletion workers mortal, deletion and build workers lossy; 2 ingestions, 2 deletions, 1 re-index job; 2.2 million states | the inductive invariant; order of a deletion, hold of the hash, one cleanup per activation; cleanup never erases the serving collection when settings only move forward |
| `Settles` | mortal ingestion, lossy erasing, fairness | ingestions, cleanups and accepted deletions end |
| `Uploads` | 3 document ids, 2 contents, 2 requests, mortal and lossy, symmetry on ids and requests | two live documents never have the same content; no cleanup takes the original of a document, unless its commit was applied and raised |
| `Served` | teams of two sessions (two indexers, indexer and eraser, indexer or eraser and chat, saver and remover, saver or second prober and prober) on one document and one collection, present, absent or of the wrong size; 2 attempts; every page of at most 5 words of 1, 2, 3, 5 or 7 characters for chunks of 6 with an overlap of 3; at most 2 tokens from the LLM; fairness; 47 thousand states | writes that returned last, erasures too except against a write served late; a ready platform has its bucket; refused questions reach no service, answers about documents rest on documents; the stream keeps its contract; every call returns; chunks cover the text and are bounded |
| `Observed` | 1 document, Forward, 1 request and 1 worker of each kind, 1 read-only request, 2 ingestions, 1 deletion, 1 re-index job, the points in A may be lost; 721 thousand states | what detail, download, audit, inspection and report say is true, or something changed during the request |
| `Paged` | 3 documents, page sizes 1 and 2, 3 timestamps; 1.7 million states | the audit walk reports every document it started with, once; the list misses none unless one is added while a page is read |

The conditions of each `MCLifecycle` run are the conditions under which the
property holds: dropped, they give the violations below. The restriction of
`Sequential` to one request at a time is dropped in `WriteSkew`, immortal
ingestion in `CrashOrphans`, forward-only settings in `GuardRace` and
`ActivatedTwice`.

Bounds. `MaxIngestion`, `MaxDeletion` and `MaxReindex` bound the rows per
document that requests and recovery may add. Two rows of a table are enough for
"latest" and "any" to differ, for a retry, for a second deletion after a failed
one and for a build after a build; the third ingestion row in `Faulty` and
`Settles` leaves room for a recovery of a recovery. Components meet per
document, except at `index_collections` and in the claim queues, so one
document suffices outside `Faulty`, which is about those two. An ingestion
worker dies only while a row is left for its recovery and one for a lost race
after it, hence never in runs with two ingestion rows. Two collections allow one move and one move
back. In `Uploads` two requests can race, and with three ids the race can be
lost to a document that is deleted before the loser looks for it, while the
other request creates a third.

`Served` has every pair of sessions that meet on a document, a collection or
the bucket. Two attempts suffice for a call repeated after one that was
applied, and for one served after both; retries of later attempts repeat these.
The pages contain words shorter than the overlap, longer than it, as long as a
chunk allows next to another word, and longer than a chunk. `Observed` has the
jobs of `Sequential` with one deletion (a second makes no difference to what is read:
the latest row) and one build, immortal and without lies, because a crash only leaves
states that a slow worker leaves too. "The latest job" and "an active job" differ
for builds when there are two of them: with `MaxIngestion = 1` and `MaxReindex = 2` the run
has 2.4 million states and ends as well, in more time than a run should take. In `Paged` two of three documents can share a timestamp
on both sides of a page of one or two.

### Runs that show a disagreement

Each checks one property that a doc or comment states, and TLC finds it
violated by what the code does (details and quotes in `PROJECT.json`).

| run | property | what happens |
|---|---|---|
| `CrashOrphans` | `DeletedMeansUnsearchable` | a worker dies after its upsert, the retry indexes elsewhere, deletion never learns of the first collection |
| `WriteSkew` | `DeletionExcludesWriters` | deletion and retry or schedule pass each other's check |
| `GuardRace` | `CleanupSparesServing` | activation between the cleanup's guard and its delete |
| `ActivatedTwice` | `ActivatedOnce` | activation decides on the job its session loaded before |

Further disagreements show when one constant of a passing run is changed, when an
exception of a property is dropped, or as states a passing run reaches; they have
no run of their own:

* `DeletedIsFinal` (a document shown as deleted stays deleted) fails in
  `Concurrent`: two DELETE requests overlap a whole deletion, `FOR UPDATE`
  (`deletion_service.py:213`) locks no row before there is one, and the second
  inserts a new job after the first is COMPLETED, against
  `deletion_service.py:198-199`, "no new job is created". `DeletedFinal` proves it
  for requests that do not overlap.
* `VacatedIsCleaned` fails in `Settles` with `Rollback`: a cleanup row refused by
  the active-collection guard keeps its place in the queue
  (`cleanup_job_service.py:198-204`), is claimed first on every run, and later
  rows of other documents or collections are never processed.
* `ErasuresLast` without its exception fails in `Served`: an upsert or a put that
  timed out is served after the erasure and brings the points or the original
  of a deleted document back. Nothing looks for them again.
* The loser of a race to create a collection in Qdrant fails its job, and so does
  a PUT that is repeated after a first one that was applied but not answered
  (`qdrant_vector_store.py:145-161`), although creation is "if not exists";
  any answer other than 200 to the GET leads on to the PUT.
* A chunk can be longer than `chunk_size`: after an overlap the word is added
  without looking at the size again (`chunker.py:70-76`). `ChunksBounded` says
  by how much.
* The collection report counts deleted documents as claimants of their
  collection (`collection_reconciliation_report_service.py:131-134` does not look
  at deletions), so it shows a deficit of vectors for ever after a deletion; and an
  audit during a deletion reports missing points or objects as errors, which
  the batch route answers as inconsistencies. `AlarmsAreReal` excepts both.
* INDEX_METADATA_INCOMPLETE (`document_audit_service.py:279-301`) is reported
  only when an ingestion completes between the read of the document and that of
  its job; a document whose metadata is complete is then reported as an error.
* `can_activate` is TRUE for a job whose document has moved since it was built
  (`reindex_inspection_service.py:222-227`); the request then answers
  SOURCE_CHANGED. `HintsHold` says so. With settings that are changed back,
  the inspection can also show ACTIVATED for a document that an older job has
  moved elsewhere.
* Chat searches only the collection of the present settings
  (`retrieval_service.py`), so after a redeployment documents not yet re-indexed are
  not found, while the audit calls theirs the collection the document "still
  serves" from.
* A client of the document list that stops when it has seen `total` rows misses the
  oldest document when one is uploaded between the count and the rows of its last page
  (`ListComplete` excepts it); the batch audit does not see documents that commit behind
  its cursor.
* `FailedStaysFailed` fails in `Faulty` with `Overrun = TRUE`: a worker slower
  than `ingestion_stale_after_seconds` is recovered while alive, and its
  unconditional `COMPLETED` (`worker.py:129`) overwrites the FAILED row, which
  `retry_service.py:4-5` says "stays FAILED forever".
* `WorkersSettleTheirJobs` fails in `Sequential` with two ingestion workers:
  both insert the same `index_collections` row; the loser's handler
  (`worker.py:123-127`) commits a session that needs a rollback, raises, and
  leaves the job PROCESSING.
* `ServingVectorsPresent` fails in `Sequential` with `Rollback`: the open
  cleanup row of A survives the move A to B to A and its delete may run between
  the second build and its activation; the document is then served from an
  emptied collection.
* `schedule_winner_missing` is reachable in `Concurrent`: the error that
  `reindex_scheduling_service.py:256-258` calls "should-be-unreachable" is
  raised when the winner is built, or fails, before the loser looks for it.
* `release_missing` and `winner_missing` are reachable in `Uploads`.
  `DeletionInvariantViolationError` (`dedup_service.py:99-106`: "that release
  never happened") is raised when a deletion completes between the two
  statements of `decide_upload()`, and `MissingWinnerAfterRaceError`
  ("unreachable in practice") when the winner of the hash race is deleted
  before the loser looks for it. Both answer 500 and change nothing.
* `OriginalKept` without its exception for `doubtful` fails in `Uploads`: when a
  commit is applied but raises (a lost connection), `upload_service.py:158-160`
  deletes the object of a document that exists, and a second upload of the bytes
  is answered with that document.

### Fairness

`Served` assumes weak fairness of what each session has begun, no more: calls
have timeouts, `retry_async()` is bounded, a streamed line comes or the read
times out. Nothing forces a session to begin, a late request to be served, or a
call to succeed. For the scripts:

`FairSpec` assumes that operators keep running the scripts: weak fairness of
each worker session's next step and of stale recovery. No request is fair:
clients need not come back, and nothing forces a retry or an activation.
Weak fairness of a worker step is met by a step that fails, so a delete could
fail for ever; strong fairness of `EraseVacated` says that a vector store asked
again and again to erase succeeds at last. It is what the retry of FAILED
cleanup rows is for. Deletion needs no such assumption: a failed
attempt ends PARTIALLY_FAILED and waits for a new request. `DeletionSettles` is
checked with deletion workers that do not die, since nothing recovers their
rows (documented in `docs/document-lifecycle/README.md`).

## 4. Proofs

`DocumentLifecycle_proofs` proves, for any finite set of documents, any
collections, numbers of requests and workers, with any of them mortal or lossy,
and any reconfiguration:

| theorem | states | assuming of the instance |
|---|---|---|
| `Consistency` | `Spec => [](TypeOK /\ SessionsConsistent)`, the inductive invariant | |
| `TypeCorrectness` | `Spec => []TypeOK` | |
| `JobsHeldOnce` | `Spec => []HeldOnce` | |
| `ErasingOrder` | `Spec => []VectorsBeforeStorage` | |
| `CompletedErasure` | `Spec => []DeletedMeansErased` | |
| `HashReservation` | `Spec => []HashHeldUntilDeleted` | |
| `StandingFacts` | `Spec => [](Standing /\ NamesRegistered /\ NamesApart)`, how the tables hang together | |
| `FailedIsFinal` | `Spec => FailedStaysFailed` | `~Overrun` |
| `OneActivation` | `Spec => []ActivatedOnce` | `~Overrun`, `OneRedeployment` |
| `ServingSpared` | `Spec => CleanupSparesServing` | `~Overrun`, `OneRedeployment` |
| `ServedFromVectors` | `Spec => []ServingVectorsPresent` | `~Overrun`, `OneRedeployment` |
| `JobsSettled` | `Spec /\ []RegistrationsAlone => WorkersSettleTheirJobs` | ingestion workers not mortal |

`DocumentPromise_proofs` proves, for the same instances:

| theorem | states | assuming of the instance |
|---|---|---|
| `DeletionsExclusive` | `Spec /\ []OneRequestPerDocument => []DeletionExcludesWriters` | |
| `DeletedFinal` | `Spec /\ []OneRequestPerDocument => DeletedIsFinal` | |
| `DeletedUnmoved` | `Spec /\ []OneRequestPerDocument => DeletedStaysPut` | `~Overrun` |
| `CleanupsTruthful` | `Spec /\ []RetriesCurrent => []CleanupsErase` | `~Overrun`, `OneRedeployment` |
| `PointsTracked` | `Spec /\ [](OneRequestPerDocument /\ RetriesCurrent) => []VectorsTracked` | `~Overrun`, `OneRedeployment`, `WritersReliable` |
| `DeletedUnsearchable` | `... => []DeletedMeansUnsearchable` | the same |
| `PromiseKept` | `... => KeepsPromise`, the refinement of `DocumentPromise` | the same |

The only assumption on constants that all of them share is `StoreAssumption` of
`DocumentStore`, which TLC evaluates in every run.

The hypotheses. Each is there because the property fails without it, and the
failure is one of the code (section 3), not of the proof:

* `~Overrun`: no worker is slower than `ingestion_stale_after_seconds`. A worker
  recovered while it lives overwrites the FAILED row, after which the document has
  two attempts under way.
* `OneRedeployment` (`\A p, q \in Reconfiguration : p[2] # q[1]`): the
  collections that redeployments leave are none that they lead to, so a document
  moves at most once. A move back breaks `ActivatedOnce` and
  `CleanupSparesServing` (`ActivatedTwice`, `GuardRace`), and
  `ServingVectorsPresent`; `ActivatedOnce` fails too if settings move forward
  twice, A to B to C.
* `OneRequestPerDocument`: no two requests about one document are in flight. Without
  it a deletion and a retry pass each other's checks (`WriteSkew`), and a second
  DELETE revives a deleted document.
* `RetriesCurrent`: between the two statements of a retry no attempt is added by
  stale recovery, which is no client's request. Otherwise the retry
  decides on the last row of its old snapshot, ingests a document that
  is indexed by then, and may leave the points of its old collection to nobody.
* `WritersReliable`: ingestion workers neither die nor see an applied upsert
  raise, builds do not see one. Otherwise points stay in a collection that no table
  mentions (`CrashOrphans`).

* `RegistrationsAlone`: between a worker's lookup of its collection in
  `index_collections` and its insert nobody else registers it. The loser of that race leaves
  its row PROCESSING (section 3): another ingestion worker, or a schedule request,
  which registers the target of its build.

`OneRequestPerDocument`, `RetriesCurrent` and `RegistrationsAlone` are about the
order in which requests and workers happen to run, so they are premises of the temporal formulas;
the others restrict constants. Run `Sequential` satisfies all of them at once, with its jobs, crashes, lies and redeployment, so
the theorems are about behaviours that exist; the deletion, build and cleanup
workers still die anywhere, and erasing is lossy.

`Observers_proofs` proves, for the same instances and whatever may be lost
(`Losable`):

| theorem | states | assuming of the instance |
|---|---|---|
| `ObserversTyped` | `ObservedSpec => []ObserversType` | |
| `StatusTrue` | `ObservedSpec => []StatusWasTrue` | |
| `DownloadsTrue` | `ObservedSpec => []DownloadsHonest` | |
| `LossesFound` | `ObservedSpec => []LossesReported` | |
| `AlarmsReal` | `ObservedSpec => []AlarmsAreReal` | `~Overrun`, `OneRedeployment` |
| `HintsTrue` | `ObservedSpec /\ []RetriesCurrent => []HintsHold` | `~Overrun`, `OneRedeployment` |

It adds `ObserverAssumption`, that NULL is none of the strings a client is
shown; TLC evaluates it in `Observed`, which also satisfies the
hypotheses of the last two. The first four need none: what a request tells of what
it read is right even where the jobs themselves go wrong.

`Upload_proofs` proves, from `UploadAssumption` (NULL is neither an id nor a
content) and for any sets of documents, contents and requests:

| theorem | states |
|---|---|
| `UploadConsistency` | `Spec => []UploadInvariant` |
| `UploadTypes` | `Spec => []TypeOK` |
| `NoDuplicates` | `Spec => []LiveContentUnique` |
| `CleanupSparesDocuments` | `Spec => []OriginalKept` |

`Paging_proofs` proves, from `PagingAssumption` (a finite set of ids, page sizes
of at least one) and for any clock:

| theorem | states |
|---|---|
| `WalkInvariant` | `PagingSpec => []WalkInv` |
| `WalkIsComplete` | `PagingSpec => []WalkComplete` |
| `WalkReportsOnce` | `PagingSpec => []NobodyTwice` |
| `ListIsComplete` | `PagingSpec => []ListComplete` |

`WalkComplete` speaks about the end of a walk and is not inductive. `WalkInv`
says that the walk holds only rows that exist (`HoldsVisible`), that what it
has reported lies behind the cursor (`ReportedBehind`), that its page lies
between the cursor and the next one (`PageBetween`), and that each document known at
the start is reported, in the page, or ahead of the next cursor (`KnownKept`). The
argument rests on (`created_at`, id) being a strict order of rows that never
change (`RowsOrdered`); uploads add rows anywhere in it and disturb none of the four.

The list goes by numbers instead of rows: an unlisted row that was known at the start
has at least `offset` rows before it (`UnlistedBehind`), since a commit can only
push it back. The rows skipped and the page hold `offset + limit` rows, all of
them newer than a row that is in neither (`ListReadsPage`), and when `offset + limit`
reaches a count that is still current (`CountIsCurrent`) no row has so many before it.

`ChatAnswer_proofs` proves, for any numbers of clients, documents, collections,
attempts, texts and tokens:

| theorem | states |
|---|---|
| `ServingTypes` | `Spec => []TypeOK` |
| `WritesKept` | `Spec => []WritesLast` |
| `ErasuresKept` | `Spec => []ErasuresLast` |
| `ReadyHasBucket` | `Spec => []ReadyMeansBucket` |
| `RefusalsAskNobody` | `Spec => []RefusedStaysLocal` |
| `AnswersRestOnFinds` | `Spec => []AnswersAreGrounded` |
| `AnswersKeepContract` | `Spec => KeepsContract`, the refinement of `AnswerStream` |
| `ChunksCover` | `Spec => []ChunksCoverText` |
| `ChunksInBounds` | `Spec => []ChunksBounded` |

It assumes of the constants that a session is of one kind (`ClientsAssumption`,
`ChatAssumption`), that there is at least one attempt and NULL is no document
(`CallsAssumption`), and that questions and vector sizes have the forms the code
tells apart, texts being sequences of pages and pages sequences of word lengths; of the chunker
(`ChunkingAssumption`) that the overlap is smaller than the size, which its constructor
(`chunker.py:30-35`) enforces. TLC evaluates all of them in `Served`. No fairness is used:
the theorems are about `Spec`.

`WritesLast` and `ErasuresLast` are not inductive, since a write that returned
is undone by a request that some other session made earlier and gave up on.
`CallsInv` therefore traces what is on the wire: a late request to erase comes from
a session that has begun to erase (`ErasuresBegun`), whoever erases found the writers of
the same work over, and they stay over (`WritersOver`), an erasure that returns because the
collection is absent leaves nothing since points are in collections that exist
(`CollectionsExist`), and a session is in a step of its own kind (`StepsApart`).
Every step of a client is then one of three (`ClientsAct`): it moves on without
writing (`Quiet`), its write is served, whatever it is told of it (`Made`), or it gives up on a write
that is on its way (`Abandoned`); beside them there is the late request
(`LateKeeps`). Each part of the invariant is proved from these, not from twenty actions.

`AnswerInv` says where in an answer the events are: none, and no call to the model, before
a text is chosen or documents are found; begun and not ended while it streams;
retrieval only of a question that `decide()` sent there. With it every step of an asker is
one of the five actions of `AnswerStream` or leaves the answer alone
(`AnswersOpen`, `AnswersRetrieve`, `AnswersStream`), and the steps of the other
sessions touch no answer (`ClientsKeep`).

Neither property of uploads is inductive. Uniqueness needs that a document has its hash
exactly while it is live and that it is the hash of its bytes
(`HashFollowsStatus`, `HashOfContent`), so that the unique index speaks about
live documents. `OriginalKept` needs that what a request cleans up is no
document's (`UndoneIsUnused`), which follows from ids being drawn by one request
only (`OwnIds`) and having no row before its commit (`SavedIsOwn`). One lemma
per kind of step: the decision, the save, the commit, the cleanup, the lifecycle.

The invariant. `HeldOnce` is not inductive: a claim only takes PENDING rows, so
one must know that a row held by a worker is not PENDING. `DeletedMeansErased`
is not: the final commit of a deletion sets COMPLETED for a document whose
original another step removed, so one must know that a worker past that step has
no original left and one past the vector step has recorded it.
`SessionsConsistent` therefore adds what each session holds: its job exists and
has the status that the claim gave it (`DeletersValid`, `BuildersValid`:
PROCESSING, because only the holder writes the row, which in turn needs
`HeldOnce`; `IngestorsValid`: not PENDING, the most that recovery leaves true),
what it has read is well typed (`ClientsValid`), and how far a deletion has got
is recorded. These parts need each other, so they are proved as one invariant.

The argument. `JobSteps_proofs` begins with lemmas about tables (updating a field
of a row, appending a row, what this does to rows of a document) and sessions (replacing one
session's record), and shows that each action of the four components
preserves the invariant, one step per action and one below it per conjunct that
the action can disturb (`IngestionStepKeeps`, `DeletionStepKeeps`,
`ReindexingStepKeeps`, `CleanupStepKeeps`); the composition combines the four
by cases on `Next`.

The later theorems share one description of a step. `StepKinds` and `Events` say of
each action what it does to the tables in terms that several actions share (`Event`: a worker sets the status of
the row it holds, an attempt is replaced by a new one, a build or deletion is
inserted, a document is moved, points are written or erased, a request proceeds), and all
that follows argues about these effects, not about thirty actions.
The invariants build on each other:

* `Standing`: an active row is the last of its document in each table; a document
  has an ingestion; a build is of an indexed document; a worker past the
  registration has a registered collection; a job that a route has loaded as COMPLETED is. `Stands` proves it with the inductive invariant.
* `NamesRegistered` and `NamesApart` go with it in `StandingFacts`: a collection
  that is served from or built is registered; a build leads to another collection than it
  starts from, and a cleanup names the one that an activated build of its document has
  started from.
* `LiveInv` adds `AttemptsHeld`: the row of a worker that processes it is still
  PROCESSING, and a document it found in no collection is in none.
  This is what `Overrun` destroys.
* `ForwardInv` adds `MovesForward`: documents, attempts and builds are in a
  collection of the settings or one that was left; a build leads from a left one to the present one;
  an activated job's document has moved. Then the origin of a job is never
  its document's collection again, whence one activation and no erased serving collection.
* `ServingInv` adds that the points that a finished build, or a session about to finish
  one or an ingestion, has written are there as long as the document has no
  deletion (`BuiltPresent`, `IndexedPresent`).
* `ExclusionInv`: what a request has checked still holds at each later
  step of it (`ChecksHold`), and a document with a deletion has no active writer
  (`WritersExcluded`).
* `PointsInv`: a document is ingested once (`IndexedOnce`, `AttemptsFirst`), each point is
  accounted for by its document, a row or a session that is writing
  (`PointsAccounted`), a finished cleanup has left nothing (`CleanedEmpty`), a
  deletion's list of collections is complete while it works through it (`DeletersTrack`),
  and a recorded vector cleanup means no points (`RecordedEmpty`).
* `PromiseInv` adds that a deletion request finds no deletion finished or
  under way (`RequestsAtRest`).

`PromiseKept` then maps each effect to one action of `DocumentPromise` or to a
stutter, one lemma per component (`RequestsKeepPromise`, `DeletersKeepPromise`,
`BuildersKeepPromise`, `CleanersKeepPromise`, joined in `EventsKeepPromise`); the
invariant says that the action's guard holds, for instance that the hash is released
when nothing is searchable and the original is gone.

The answers of the observers. Between two reads of a request anything may
happen, so a property of the answer needs to know at each step what the reads so far still say.
There is one such predicate per request: `StatusSeen` (the status of an ingestion read
earlier is among those the document had since, as long as it has no deletion: the rule that
a deletion takes precedence is what makes two reads safe), `AuditTrue`,
`InspectTrue` and `ReportTrue` (each recorded finding, hint and count is that of the present
tables and services, unless `changed`). Three kinds of steps preserve them:

* the request's own next read (`DetailStepSees`, `AuditStepSees`,
  `InspectStepSees`, `ReportStepSees`, one step per read);
* a step of a job or a loss (`RemembersSees`): either the document's footprint,
  which is all that such a request reads, is untouched and what was read
  remains true (`SameFootprint`, `AuditStays`, `InspectStays`, `ReportStays`), or
  `changed` is set;
* a read of another request, which changes none of this (`WaitingSees`).

Of the jobs this needs more than `IInv` and `Standing`: `NamesRegistered`, a completed ingestion has left its document in
a collection (`CompletedIndexed`), and an original that is gone was lost or
deleted (`OriginalsAccounted`); all three survive losses, which take nothing from the tables.
`AlarmsReal` adds `ServingInv` as long as nothing is lost, and `HintsTrue`
`ForwardInv` and `IndexedOnce`: the inspection looks neither at the source
a job has pinned nor at the last attempt, and is right because these cannot be otherwise.

The end of a worker. `JobsSettled` is an action property that follows from
`Standing`: a worker past its registration has a registered collection, so the commit of
COMPLETED breaks no foreign key and every way out of `process_next_job()`
sets COMPLETED or FAILED (`EndsResolved`).

Cleanups. A cleanup row can be held by any number of workers, and its status says
little of how far they are: one may erase while another records an outcome. That the collection of
a COMPLETED row has no points is inductive only with the reasons why nobody writes there again
(`CleanedInv`): points come from the target of an attempt or a build
(`PointsFrom`), and no target is a collection that the document has left (`WrittenAhead`,
from `MovesForward` and `IndexedOnce`). It needs less than `PointsTracked`: writers may
die, requests may overlap.

The chunker. The library's induction theorems take an operator as a parameter, which no
prover here can instantiate. `Chunking_proofs` therefore derives what it needs from the
well-foundedness of the natural numbers: `Least` (a non-empty set of numbers has a least
one), `Induction` (over a set of numbers) and `Recursion` (a loop of n turns has
values from its start to its end), from which the equations that define `Offset` and `Scan`
have solutions (`OffsetIs`, `ScanIs`). The loop invariant is `AllFine`: the chunks so
far, with the one that the loop is building as if the text ended there, are each
within the bounds and follow each other. A word that fits makes the last chunk longer
(`WordFits`); one that does not, ends it and starts another with the longest overlap
that fits (`WordSplits`, `OverlapFits`). `SplitFine` is the result for a page, of which both
properties are consequences (`TextsCovered`, `TextsBounded`).

Only model-checked: all liveness, which is out of the prover's reach (fairness and
ENABLED): `EverythingReturns`, `IngestionSettles`, `VacatedIsCleaned`, `DeletionSettles`.
The type invariant of the observers is proved and not checked.

## 5. Not modelled

* In the runs of `MCLifecycle` documents exist from the start; `Upload` does not
  show which REUSED outcome a matching upload is answered with.
* Branches no reachable state takes: a job without its document (rows of
  `documents` are never deleted); an IntegrityError of another constraint.
* Operations without a caller: `retire_collection()`,
  `reindex_service.activate_reindexed_document()`, `create_cleanup_job()` with
  an error, `delete_current_document_vectors()`.
* `attempts`, error texts, timestamps other than the order of rows. Two cleanup
  workers on one row count one attempt where there were two.
* In `DocumentStore` a call to Qdrant or the storage is one step that may fail
  with or without effect. Late service of a call that timed out is only in
  `ProviderCalls`, not combined with the jobs.
* The order of rows by `created_at` where transactions overlap
  (`deletion_service.py:130` and the like): tables are sequences in commit order.
* Presigned URLs, object keys and their validation; local files, which are
  MinIO without retries and buckets; PDF, DOCX and XLSX parsing; prompts, scores,
  languages and decision patterns; the provider status route.
* An empty document: the extractor refuses it (`text_extractor.py:104`), so that a
  job with zero chunks (`worker.py:84-85`) does not exist.
* Configuration, logging, correlation ids, error envelopes; the offline
  experiments under `scripts/generated_knowledge_stage0`.

## 6. Plan

Done in this order: store, ingestion, deletion, re-indexing, cleanup,
composition, promise, proofs of the safety core, upload with its proofs;
chunking with its proofs, provider calls and clients, chat and its abstract specification,
observers, paging with its proofs, proofs of the calls, of the chat and of the observers. Next:

1. Late service combined with the jobs: a deletion against an upsert that is
   still on the wire.
2. Rows ordered by the start of their transaction, in `DocumentStore` as
   in `Paging`.
