# nexus-kb in TLA+

nexus-kb is a knowledge base: it ingests uploaded files and Confluence pages
into PostgreSQL (metadata, chunks, jobs, reviews, graph) and Qdrant (vectors),
puts two review gates between a document and its readers, builds a knowledge
graph from the chunks, and answers searches. This directory models the parts of
it that are stateful and concurrent, checks them with TLC on small instances
and proves the most important results with TLAPS for every instance.

Paths below are relative to the repository root. `DP` is
`workers/document-parser/nexus_document_parser`, `API` is
`services/nexus-api/nexus_api`, `repo` is `DP/sqlalchemy_repository.py`.

## 1. The system

| Component | State it keeps | Operations | Interacts with |
|---|---|---|---|
| Ingestion job queue (`repo`, `DP/job_worker.py`) | `ingestion_jobs`: status, attempt, queued_at, document_id | create, claim (`FOR UPDATE SKIP LOCKED`), complete, fail/requeue, manual retry | API enqueues and retries; worker processes poll |
| Ingestion pipeline (`DP/pipeline.py`) | `documents`, `chunks`, `ingestion_runs`, Qdrant points | upsert document, replace chunks, embed, create review items, upsert points | called by the worker for one file, and by `POST /ingest` and the command line for a directory |
| Upload intake (`API/uploads.py`) | staged files, jobs with a raw hash | reject, duplicate test, stage, create job, per file of a batch | the queue; reads jobs and documents |
| Document versions (`repo`) | `documents` row, `document_versions` | version bump with snapshot, rollback of a failed version, listing | the worker, for jobs with a target document |
| Ack (`API/ack.py`) | `documents.acked_by/acked_at`, the `published` flag of points | ack, set_payload | races the worker on the same document |
| Chunk review (`API/review.py`) | `review_items` | create, apply action (approve / modify / reject), index the accepted chunk | pipeline creates, graph build reads |
| Confluence sync (`API/confluence_sync.py`) | `sync_runs`, jobs with a `sync_run_id` | list pages, enqueue, finish, clean up a failed run | the same queue and workers |
| Graph build (`workers/graph-builder`) | `graph_entities`, `graph_relationships`, `graph_hyperedges` | list approved chunks, extract, upsert, merge provenance | reads chunks and review items |
| Search and RAG (`API/search.py`, `rag.py`) | none | vector query with overfetch, a row lookup per hit, ranking; an answer with citations | reads Qdrant and PostgreSQL; the gateway |
| LLM gateway (`services/llm-gateway`) | answers by prompt, for the life of the process | cache, retries | chat, extraction |
| Rate limiter (`API/middleware/rate_limiter.py`) | time stamps per client | sliding window | nobody: `API/main.py` installs only `CorrelationIdMiddleware` |
| Query caches (`API/cache.py`, `query_optimizer.py`) | in-process tables | get, put, expire | nobody but their tests |
| Auth and workspaces | `users`, `workspaces`, memberships; JWT claims | login, claims to scope | every request |
| Audit | `audit_logs`, append-only | record, list | everybody |
| Loaders, converters, chunker, extractors | none | pure functions | the pipeline, the graph build |
| MCP servers, web console | none of their own | adapters | API, Confluence |

Every repository method is one database transaction (`session_scope`); there is
no transaction around a handler, and no row lock except in `claim_next_job`.
Qdrant is a second store, written outside any transaction. That is what makes
the behaviour hard: a handler is a sequence of commits in two stores, other
processes run between any two of them, each may fail or be the last before a
crash, and methods that read a row and write it back by primary key may write on
what another process has changed since.

What makes the components correct:

* queue: one worker per job, a bounded number of attempts, first in first out,
  no job lost, no document of an attempt that failed;
* versions: a gapless history that keeps what was indexed, chunk rows of the
  version the document row names;
* review and ack: nothing is indexed before a reviewer accepts it, decisions are
  final, what is accepted and acked is searchable and stays so;
* sync: a failed run takes back its own pages and nothing else;
* graph: only approved chunks; provenance and confidence survive merging;
* intake: no second document of a content that is there, and no first one
  refused for a document that is not;
* direct ingest: a content hash that makes later scans skip a file stands for
  an indexed document;
* search: no unpublished chunk, no other workspace's, none crowded out by points
  of replaced chunks; an answer goes with the citations it was written from;
* chunker: no text lost, none under a heading that is not its own.

## 2. Modules

| Module | What it models |
|---|---|
| `JobPromise` | Abstract: what the API promises of one job. A submission is pending, then indexed with its document stored or failed with nothing left; a failed one may be resubmitted; attempts are bounded. |
| `JobQueue` | The job table with `run_once` step by step, N workers, enqueue and retry. |
| `QueueProofs` | Theorems about `JobQueue` and `SyncRun`. |
| `SyncRun` | One action per step of `ConfluenceSyncService.sync`; EXTENDS `JobQueue`, whose workers run on between the steps. |
| `DocumentVersions` | Jobs with a target document: bump, chunk replacement, points, rollback, and acks beside them; EXTENDS `JobQueue` and replaces its middle (`load` to `discard`). |
| `DocumentVersionsProofs` | Theorems about `DocumentVersions`. |
| `ReviewGate`, `ReviewGateMC` | One document through ingestion, review, ack and graph build, over several versions. |
| `ReviewGateProofs` | Theorems about `ReviewGate`. |
| `UploadIntake`, `UploadIntakeMC` | Upload requests file by file beside the jobs that come of them; the jobs are an INSTANCE of `JobPromise`. |
| `UploadIntakeProofs` | Theorems about `UploadIntake`. |
| `DirectIngest`, `DirectIngestMC` | `IngestionPipeline.ingest` over a directory, call by call, several runs at once and files that change. |
| `Chunker`, `ChunkerMC` | `TextChunker` and `markdown_blocks`, one action per round of their loops, fed with every document of a few kinds of lines. |
| `IngestProofs` | Theorems about `DirectIngest` and `Chunker`, which share no state. |
| `Retrieval`, `RetrievalMC` | A search, chat or MCP call step by step beside a worker and acks; claims, workspace filter, gateway. |
| `RetrievalProofs` | Theorems about `Retrieval`. |
| `RateLimiter` | The sliding window per client, in ticks of a fraction of a second. |
| `RateLimiterProofs` | Theorems about `RateLimiter`. |
| `GraphPlan` | Pure: the sequence of upserts that `build_from_chunks` makes of a list of chunks. |
| `GraphProvenance`, `GraphProvenanceMC` | The graph's rows under concurrent builds, each upsert in its two steps; metadata and replies to build from. |
| `Extraction` | Pure: what the extractors keep of an LLM reply or of the metadata, which is the corpus of `GraphPlan`; EXTENDS `GraphProvenance`. |
| `GraphProvenanceProofs` | Theorems about `GraphPlan`, `GraphProvenance` and `Extraction`. |

### How state and actions correspond to the code

*JobQueue.* `status`, `attempt`, `queued_at`, `document_id` are the columns of
`ingestion_jobs`; `documents` is the set of jobs whose `source_path` has a document
row (an upload stages each file under a fresh name, so there is at most one). `pc`,
`cur` and `held` are a worker's place in `run_once`, its job, and whether the
document row it looked up still exists. `claim_next_job` is two steps with the row
locked between them, so that another worker's SELECT can fall in between and skip
the row. `retry_job` and `fail_job` are two steps without a lock; `verdict` is the
status that the second of `fail_job` will write. The other methods are one step;
`complete_job` raises when the document that was looked up is gone, which with serial
retries takes a sync run whose cleanup has failed a job in work, and a retry of it.
`queued_at` is read from one clock that ticks with every entry into the queue: the
code takes wall-clock time in several processes, and ties or skew are abstracted.
Audit writes are not modelled, except that one that raises ends the process like any
database exception outside the pipeline (`worker_dies`). A death between two jobs
changes nothing and is left out.

*SyncRun.* `at` is the place in `sync`, `pages` its local counters. Every call
inside the `try` may raise (`sync_raises`), the audit after a successful finish
included. `cleanup_sync_run` is a read step and a commit step. Its delete
removes the documents of the jobs it read as linked, if they are still there.
`selected_at` is auxiliary: the tick of the read, to tell a job that a retry by hand
has queued since from one that the cleanup has missed.

*DocumentVersions.* `row` is the document row, `snapshots` the
`document_versions` rows, `chunks` the batch of chunk rows, `hidden` and
`published` the batches of points in Qdrant by their `published` flag. Methods
that read and then write are split, and `Flush` is what SQLAlchemy writes: the
columns that differ from what was loaded. `pc` values `embed` and `rollback` are
places of this module. `replace_chunks` (DELETE and INSERT in one transaction)
is one step.

*ReviewGate.* `stage` is the ingestion's place for the current version; `item` the
status of a chunk's review item and `payload` what the item would put into Qdrant;
`point` the chunk's point; `review` each review action in flight, with
`mark_review_item` split at its unlocked read. A review may send a
`modified_payload`, which overrides any key of the stored one (`Merged`): what is
indexed, and whether it is published, is then as the payload says, and a payload
that `QdrantChunkPayload` or `UUID` refuses ends the action after the decision has
been committed (`model_validate_raises`). Of a payload the model has the two keys on
which something depends here. The ack's transaction is one step here, its races
being in `DocumentVersions`, and ingestions do not fail. `graph` is the set of
chunks that graph builds took.

*GraphPlan.* What a build upserts depends only on its chunks, not on what is in
the graph, so it is an operator and not a state machine. The corpus gives each
chunk with what the extractors return for it, which `Extraction` computes:
`EntityMerger` (one candidate per name and chunk, the most
confident), the resolution of a relationship's ends, the wikilink edges in two
passes and the members of hyperedges are translated. Document titles and entity
names are taken to differ, as the code's `DOC:` prefix makes them. Loops that
skip elements select positions (`Selected`), over which one can reason.

*GraphProvenance.* `graph` has the rows of each key, a sequence because
hyperedges have no unique constraint. `build` is each build's remaining upserts
and the row its SELECT has read. An upsert is two steps, `upsert_select` and
`upsert_insert` or `upsert_update`: `session_scope` locks nothing between them.
`Refused` is the unique constraints of the migrations. `Changed` is the heart of
it: SQLAlchemy writes the provenance column only if the value assigned differs
from the value loaded, and `merge_provenance` appends in place to a list it
shares with the latter, so that only a scalar that becomes a list is a change.
`upserted`, `raced` and `built` are auxiliary. Approval only grows: what becomes
of a chunk rejected or replaced after it was built is in `ReviewGate`.

*Extraction.* An input is what the LLM replies about a chunk, or None when it is
not configured, fails or replies no JSON, and what the metadata yields: prompts,
templates and the pattern of capitals are natural language and given. What is
kept is translated: blank names, low confidence, ends that are not among the
reply's entities, three names to a hyperedge, and that one candidate which the
contracts refuse discards a whole reply. Names are spellings, with what
`str.lower` and `normalize_entity_name` make of each given as a function, since
the code uses the one here and the other there. The reply about a chunk is the
same from build to build, which the gateway's cache makes true of calls that
succeed; a call that fails once and succeeds later is left out. That the corpus
which is built from is what the extractors give is an assumption
(`Corpus = Extracted`), which TLC evaluates. It also says that spellings which
`str.lower` makes the same `normalize_entity_name` does too, as it begins with it.

*UploadIntake.* `request` is each request's place in its batch. The duplicate
test is a step that finds the newest indexed job of the hash, another that looks
for its document, and a third that inserts the job. Jobs of new uploads take the
steps of `JobPromise!Next` (`phase`, `tries`, `stored`), which `JobQueue` is
shown to implement; jobs with a target change the content `current` of their
target and give it back when they fail. `finished` orders jobs by `finished_at`.
`Page` is the document of a sync run that may still fail and take it away.

*DirectIngest.* `file` is the disk, `doc` the content hash of the row of each path,
`rows` its chunk rows by batch. `load_documents` is one step, for the code reads all
files before the first write. `upsert_document` and `replace_chunks` are a read and
a commit each: under READ COMMITTED a DELETE sees the rows that were committed
before it, and the unique constraint on document and chunk index refuses the INSERT
beside others. A text has at least one chunk. A process that dies is `ingest_fails`,
which writes nothing either but the status of the run. `torn` is auxiliary.

*Chunker.* The variables are the locals of the two functions: `markdown_blocks`
takes one line per step (`read_heading`, `read_blank`, `read_text`) and ends with
the last flush (`end_of_content`), then `chunk_document` takes one block per step
(`add_block`, `open_block`), cuts one window per step (`cut_window`) and closes
the last chunk (`end_of_blocks`). A character is its position in the document, so
that what is lost, repeated or moved can be told; `Space` is what `strip` removes
and joins insert. The heading stack has one heading of a level at most, in the
order of their levels, and so is a function from levels to headings.
`HEADING_PATTERN` and its quirk of matching a bare `#` with the line after it
are translated as properties of a line. Lines have no white space at their ends,
so that `flush` has none to strip. Offsets and copied metadata are left out.

*Retrieval.* `hidden` and `published` are the points as in `DocumentVersions`, with
one chunk per ingestion; here one worker ingests, and its rollback restores the
document row and not the chunk row. It does so for a file that does not load as well
(`load_fails`), where the version that it takes back is an intact one; `displaced`
records under which chunks this has happened. Reviews are left out:
`ServedIsReadable` is about points that only an ack publishes. `request` is a
request's step, its hits still to be looked up, and what it serves: nothing it does
is seen by others but what it puts into the gateway's `cache`, so that one at a time
is enough. `request.token` has the claims, any of which may be missing;
`decode_token` and `workspace_scope` make the filter of them. Text scores are
constants.

*RateLimiter.* The deque of time stamps holds ages instead, which `tick`
advances; a request is one step, for `dispatch` awaits nothing under its lock.

## 3. What is checked

Bounds are constants of the instances. Two workers are enough for every race on a
job, as each race is between two transactions; two jobs give an order and a
bystander; `MaxAttempts = 2` has a first and a last attempt; `MaxEnqueues` caps the
entries into the queue, so that a manual retry can happen next to an upload; two
chunks, one to review and one not, and a second version with one chunk, let a
version be replaced under a review, and a review name a chunk that is not its own.
`CHECK_DEADLOCK FALSE` everywhere: with the bounded inputs used up the system really
stops.

| Run | Shows |
|---|---|
| `JobQueueSafe` | Two workers that may die anywhere, serial manual retries: `TypeOK`, `ExclusiveWork`, `AttemptBudget`, `DocumentsMatchStatus`, `NoOvertaking`, the refinement `ImplementsPromise`, and under fairness `JobsSettleUnlessOrphaned`. |
| `JobQueueRaces` | Violation of `AttemptsBounded`: racing retries put one job in the hands of two workers, and `fail_job` of the one requeues what the other has given up on. No process needs to die. |
| `SyncRunSafe` | `UploadsUndisturbed`, `CleanupStopsRun`, `PagesOutliveAllButFailure`, `EveryRunEnds` while Confluence, the database and the API process may fail at every step, and failed jobs are retried by hand, one at a time. |
| `VersionsSafe` | One worker, an ack, failures at every step, deaths: `HistoryIsLinear`, `ChunksNotSuperseded`, `OnlyUnwrittenRollbackForgets`. |
| `VersionsPopped` | Violation of `IndexedVersionKept`: a file that does not load makes the rollback pop the last good version. No concurrency needed. |
| `ReviewSafe` | Serial reviews with any modified payload, two versions, a chunk on which Qdrant fails: `OnlyAcceptedIsIndexed`, `SturdyIsIndexed`, `DecisionIsFinal`, `PublishedStays`, `BuildsTakeReviewed`. |
| `GraphSafe` | Two builds at once, each failing anywhere, three in all, over a corpus whose chunks disagree on types and link to each other: `ProvenanceConsistent`, `GroundedInSource`, `BuiltIsThere`, `EarlyChunksFound`, `OnlyRacesForget`. |
| `UploadIntakeSafe` | Three requests at once, with batches, new versions, a retry and a page that its sync run takes away: `NoLateDuplicate`, `HeldIsFound`. |
| `DirectIngestSafe` | Three scans that overlap, fail anywhere and meet changed, damaged and removed files: `HashIsIndexed`. |
| `ChunkerSafe` | Every document of up to five lines, round by round through both loops: `ChunksCoverText`, `ChunksUnderTheirHeadings`. |
| `RetrievalSafe` | Searches, chats and MCP calls beside an ingesting worker that may fail at any step, and acks: `ServedIsReadable`, `StaleMargin`, `CitationsNameTheirVersion`, `AnswerMatchesCitations`. |
| `RateLimiterSafe` | Two clients, every time between requests: `LimitIsExact`, `RetryAfterIsEnough`. |

Where a guarantee holds only under a condition, the passing property names it
(`JobsSettleUnlessOrphaned`, `CleanupStopsRun`, `OnlyUnwrittenRollbackForgets`,
`ChunksNotSuperseded`, `PublishedStays`, `SturdyIsIndexed`, `EarlyChunksFound`,
`OnlyRacesForget`, `BuildsTakeReviewed`, `NoLateDuplicate`, `HeldIsFound`,
`HashIsIndexed`, `StaleMargin`, `CitationsNameTheirVersion`); what does not hold
without the condition is in section 5. Each property of a
passing run has a mutant, an operator named `<definition>_<Bug>` beside the
definition it replaces, under which TLC finds the property violated.

`SturdyIsIndexed` is about chunks on which neither embedding nor Qdrant fails and
whose item still names them. It does not hold of the others: `mark_review_item`
commits the decision before the payload is validated and the chunk is embedded
and upserted, so that a failure there leaves an approved item without a point, and
a second action on it is refused. `OnlyAcceptedIsIndexed` and `PublishedStays` go by
the payload of an item as well: a low-confidence chunk may get its point from the
item of another, while its own is pending or rejected, and such a review may also
hide what an ack has published. `CitationsNameTheirVersion` names two cases in which
a result is labelled with another version than that of its text: while the worker
is between `upsert_document_version` and `replace_chunks`, and after a rollback,
which restores the row and not the chunk row, or takes back a version whose
chunks are intact. In the second the label is older than the text, and stays so
until the next upload.
`BuildsTakeReviewed` is about the time between two ingestions: the pipeline
commits the chunk rows before it creates their review items, and a graph build
in between lists low-confidence chunks nobody has reviewed, whose entities stay
after a rejection.

The corpus of `GraphSafe` has three chunks because the provenance of one row
goes through a scalar, a list that is written and a list that is not; two
documents, because the two fields of the provenance become lists at different
times; and two builds with one more to follow, for a lost update and for a build
over what a failed one has left. Its replies spell a name in two ways, name a
relationship's end that only another chunk lists, have a chunk fall back to its
metadata, and name an entity twice in one hyperedge, which the members' primary
key refuses: builds that reach it always stop there.

`UploadIntakeSafe` has three requests because a masking takes three: a content
indexed, indexed again with the page of a sync run, and the page taken away. Two
contents are the one uploaded and the one that replaces it. One version of a
document is under way at a time, and the page is not taken in the middle of one; the
races between those are in `DocumentVersions` and `SyncRun`. `DirectIngestSafe` has
two paths, so that a run stands at one while the other changes, two texts and three
runs: two that race and one that comes after. `ChunkerSafe` has windows of six
characters with two of overlap, lines that fill less than one window, and more than
two, and five of them: enough for a mark, the line that it swallows, a blank line,
and text on both sides. `RetrievalSafe` has a document in a workspace and one in
none, three ingestions, limits of one and two with the factor three of the code, and
a cap of four that takes the place of its 50, so that the cap is met; older chunks
are closer to the query than newer ones, which is the worst case of `StaleMargin`.
`RateLimiterSafe` has windows of two seconds with three ticks each, so that a
request falls on, before and after full seconds. Requests and contents are symmetric
in `UploadIntakeSafe`, texts and runs in `DirectIngestSafe`, builds in `GraphSafe`;
these check invariants and properties of single steps only.

**Fairness.** `Fairness` is weak fairness of `run_once` and of a restart, per
worker: `run_forever` loops without a stopping condition, `FOR UPDATE SKIP
LOCKED` never waits, and docker-compose.prod.yml restarts the worker
(`restart: unless-stopped`). Dying, enqueueing and retrying are never fair.
`SyncFairSpec` adds weak fairness of `sync`: the request handler runs on while
its process lives.

**Concurrency the passing configurations leave out.** With two retry requests for
one job, two review actions on one item, or two version jobs of one document in two
workers, the unlocked read-then-write methods break the properties of the job queue
(`JobQueueRaces` shows it for the budget), `DecisionIsFinal`,
`OnlyAcceptedIsIndexed` and `PublishedStays`, and `HistoryIsLinear`: set `Requests =
{r1, r2}`, `Reviewers = {r1, r2}`, or `Workers = {w1, w2}` in the safe
configurations to see each. Two acks may likewise both succeed, and an ack that
overlaps a version bump may stay on the new version, because assigning None to a
column that was loaded as None is not in the UPDATE. The API does allow these; the
theorems carry the condition as a hypothesis.

## 4. What is proved

`QueueProofs`, of `JobQueue` for any jobs, workers and `MaxAttempts > 0`:

* `TypeCorrect` without further assumption.
* `WorkIsExclusive`, `BudgetRespected`, `DocumentsAgree`, `NeverOvertaken` and
  `QueueKeepsPromise` under `SerialRetries`; what racing ones do to the budget is in
  section 5. None of the five is inductive by itself: that a second
  worker does not take a job needs to know that a job in work is `extracting`,
  which needs to know that nobody else requeues it. `IInv` states where each
  worker stands against its job's row (`WorkerInv`) and that a pending retry
  still sees a failed row (`RetryInv`); everything else follows. The refinement
  maps each step to a step of `JobPromise` or a stutter.

`QueueProofs`, of `SyncRun` for any number of runs, pages, uploads and workers,
while every call of a sync may raise and the API may die. The cleanup of a failed
run breaks the queue's promise for the jobs of that run: it deletes documents under
workers. So `SyncInv` has the promise job by job (`JobInv`: the row, its document
and the worker that has it agree), for every job that no cleanup has written, and
`RunInv`: what a cleanup is about to discard are jobs of its run.

* `SyncTypeCorrect`, and under `SerialRetries` `UploadsStayUndisturbed` and
  `PagesOutlive` from `SyncInv`.
* `CleanupReachesAll` under `SerialRetries`, from `DoomedInv`: a job that the cleanup
  did not read as queued or extracting does not become so before it commits, unless
  a retry by hand has queued it anew, and then its `queued_at` is not older than
  the read.

`DocumentVersionsProofs`, for any uploads, attempts and acks, wherever attempts
fail and workers die:

* `VersionTypeCorrect`, with any number of workers: what each transaction has
  read goes with the place of its worker.
* `LinearHistory` and `RollbackForgetsOthers` for one worker and serial retries.
  `HistoryIsLinear` is about the numbers in the list; the inductive `LinearInv`
  is about the uploads behind them: no two versions are of one upload (`Chain`),
  an upload is in the history exactly as far as its attempt has got (`PlaceInv`),
  and what a worker has read still has the row's number and path, which no ack
  changes (`ReadInv`). With two workers the last is false, and so is the theorem.
* `ChunksAreCurrent`, from `ChunkInv`: chunk rows of a superseded version are those
  of the version just before, while its successor is on the way in or out.

`ReviewGateProofs`, for any chunks, versions and threshold:

* `GateHolds` and `DecisionsAreFinal` under `SerialReviews`, from `GateInv`: a
  review that found its item pending still finds it so when it writes, and the item
  of one that is on its way to Qdrant is accepted with the payload it carries
  (`ReviewInv`).
* `PublishedForGood` under `SerialReviews`, from `PointInv`: points follow versions,
  so that an ingestion never upserts a chunk that is published, and a chunk in
  review has no point, unless the item of another chunk has named it (`Misnamed`).
* `ReviewTypeCorrect`, `AcceptedIsIndexed` and `BuildsAreReviewed` with any number
  of reviews at once, from `ArrivalInv`: an accepted chunk that its own item names
  and that has no point is on its way there or was replaced (`AcceptedArrives`), an
  item is of a version whose rows were written, and once a version is ingested each
  chunk to review has one. Racing reviews may replace each other's decision, but not
  lose an accepted chunk.

`UploadIntakeProofs`, for any number of requests at once, any batches and contents:
`NeverDuplicatedLate` and `HeldIsAlwaysFound`. Neither is inductive: that a file past
the duplicate test is no duplicate has to be known of the request (`RequestInv`)
before it is known of the job (`JobInv`), across a retry of the job and the
undoing of versions that took its document's content away and gave it back
(`BegunInv`, `HeldInv`); and `gone` has a content only once the page is away, for
the newest job of a hash is what the test looks at (`NewestIsOne`).

`GraphProvenanceProofs`, for any corpus that is typed as the contracts have it
(`CorpusAssumption`), any number of builds and any interleaving and failure of
them: `GraphTypeCorrect`, `ProvenanceAgrees`, `EarlyChunksAreFound`,
`OnlyRacesMayForget`, `BuiltChunksAreThere` and, with `Extraction`,
`GroundedInItsSource`.

* `IInv` adds to the types that a build about to update holds a row in order
  (`BuildInv`), which is what makes the written column consistent even when it
  overwrites a newer one, and `EarlyInv`: while the recorded chunks are a scalar
  they are all that were upserted, which is why the second one is always a change
  and always written. The lemmas `MergeAdds`, `UpdatedOK` and `EarlyKept` say what
  `merge_provenance` and the column-wise UPDATE do to a row.
* `BuiltChunksAreThere` is of two halves. `PlanIs` is about the pure part: for
  every list of chunks, the upserts of `build_from_chunks` include an entity for
  every name of each chunk, an edge for every relationship between two of them,
  whatever types other chunks give them, and the links of its document. It rests
  on a lemma for each step of the builder (`MergeIs`, `ResolveIs`, `LinksPlanned`...).
  `PlanInv` is about the machine: what a build has not upserted yet is still to do;
  and no step takes a key from the graph.
* `GroundedInItsSource`, for any replies and metadata under `ExtractionAssumption`,
  from `GroundedInv`: every chunk that a row records, in the graph or in the hands
  of a build, supports it (`Supports`: the corpus has it for the chunk). Merging
  only puts together chunks that each support the row. That a chunk which supports a
  row says it (`Says`) is a lemma for each filter of the extractors and of the
  merger: the most confident candidate of a name is the reply's, a relationship's
  ends are listed by the same reply, whatever the resolution over all chunks makes
  of them.

`RateLimiterProofs`, for any clients, rpm, window and number of ticks in a second:
`CountIsExact` and `WaitIsEnough`. The queue is only ever popped from the left, and
only when its client asks, so that it also holds stamps that are outside. `EndsIn`
says that it ends with what was let through in the window and has only older ones
before; that this survives a tick needs the queue to be in order (`Sorted`). `WaitInv`
says that what a refused client still has to wait is enough for its oldest stamp to
leave; with `RoundedUp`, the arithmetic of `int(...) + 1`, it holds from the refusal
on. "Is let through" is the test of `dispatch`, `~ Full(c)`.

Where a lemma needs induction, over the positions of a sequence for instance, it
takes the smallest counterexample instead: `LeastNat` derives it from the library's
well-founded order of finite sets. `FlattenRange`, for one, says in this way what
the recursive function in `FlattenSeq` has for elements.

`RetrievalProofs`, for any documents, tokens, scores, limits and bounds, a worker
that may fail and acks at any time:

* `RetrievalTypeCorrect` and `ServedAreReadable` from `IInv`, which is the types
  with three more parts. `JobInv`: a document in the worker's hands has a row.
  `ReadInv`: what is published, or about to be by an ack, was a document's chunk
  when it was acked. `RequestInv`: hits and results are such chunks, in the scope
  of the token. `ScopeIsVisible` is the lemma on `decode_token` and
  `workspace_scope`: a missing claim narrows what is seen and never widens it.
* `VersionsAreNamed` from `VersionInv`: a row goes with its chunk (`Versioned`), of
  its own version or of a later one that was rolled back, and while it is a version
  ahead of its chunk what a rollback would make of it does.
* `AnswersMatchCitations` from `AnswerInv`: every entry of the gateway's cache has
  its own context as the key.
* `StalePointsDoNotCost`, for any limit, factor and cap: `HighestOf` says what the
  vector store returns (so many points, and no point left out scores higher than
  one taken), `NearestMargin` that dead points can keep a live one out only by
  taking its place, and `OverfetchCovers` is the arithmetic of the margin.
  `PointsFinite` makes the counting possible.

`IngestProofs`, of `DirectIngest` for any files, texts and number of scans that
overlap and fail anywhere: `HashesAreIndexed` from `PathInv`. Unless a path is
torn, one scan at most is writing it, the rows that its DELETE saw are all there
are, and the document is indexed as its hash says or about to be. `HashIsIndexed`
alone is not inductive: that the batch of one scan ends up as the only rows needs
to know what its DELETE has seen two steps before.

`IngestProofs`, of `Chunker` for any document, `max_chars` and `overlap_chars`
that the constructor accepts:

* `HeadingPathsAreInForce` from `HeadedInv`, which says of everything on its way,
  the lines being read, the blocks that wait and the chunk being filled, what the
  property says of chunks. It is inductive because the stack has exactly the
  headings in force at the last line read (`HeadingsAt`; `UnderANewOne` is the
  lemma on what a new heading leaves of them), and the path of the lines being
  read is that of the stack (`Reading`).
* `EveryTextIsInChunks` from `CoverInv`. `Covered` follows each text line from the
  lines being read to the blocks, the current chunk and the chunks; a line that
  the pattern takes for the title of a bare mark is known to be dropped by what
  stands before and after it, which `LastLines` says of the lines being read.
  `InOrder` has all texts read forward and follow one another. `Cut` is about the
  windows: `Continues` says that of the text still to be cut only the first
  `overlap_chars` characters may be in the last chunk, and that something new is
  among the first `max_chars`. That needs `Tight`, no two spaces in a row within a
  block: else what a window has beyond the overlap could be nothing but white
  space. The lemmas on `SubSeq`, `strip` and the joins (`WindowIs`, `RestIs`, `StripIs`,
  `JoinIs`...) say of each what it keeps. TLC has checked `CoverInv` also with
  windows that advance by one character, and with windows of one.

Every safety invariant and action property that a passing run checks is stated by
a theorem. Only model-checked, being out of the prover's reach, is all liveness
(`JobsSettleUnlessOrphaned`, `EveryRunEnds`). Every assumption on constants is
evaluated by a run.

## 5. Statements that do not hold

The code does not keep everything that its documents say. `VersionsPopped` and
`JobQueueRaces` show two cases in the list of runs; the others are definitions of
the modules, with a comment that says so, and TLC refutes each one as an INVARIANT
or PROPERTY with the constants given here:

| Statement | Where it is said | Constants | What happens |
|---|---|---|---|
| `IndexedVersionKept` | `repo:471` | `VersionsPopped.cfg` | A file that does not load makes the rollback pop the last good version. |
| `AttemptsBounded` (`JobQueue`) | README.md:137 | `JobQueueRaces.cfg` | Two racing retries put a job in the hands of two workers; the one that read `attempt` first requeues it after the other has failed it for good, and it is started once too often. |
| `EveryJobSettles` (`JobQueue`) | docs/knowledge-hub/plan.md:65 | FairSpec, `Jobs = {j1, j2}`, `Workers = Unreliable = {w1}`, `Requests = {r1}`, `MaxAttempts = 2`, `MaxEnqueues = 3` | A job whose worker died, or got an exception from the database, stays EXTRACTING. |
| `FailedRunLeavesNothing` (`SyncRun`) | README.md:76 | SyncSpec, `Workers = {w1}`, `Unreliable = Requests = {}`, `Runs = {s1}`, `MaxPages = 2`, `ApiMayDie = FALSE`, `MaxEnqueues = 2` | The document of a page that a worker is extracting during the cleanup survives it. |
| `AckedIsSearchable` (`DocumentVersions`) | `API/ack.py:12-15` | VersionSpec, `Workers = {w1}`, `Acks = {a1}`, no failures | An ack between the chunk rows and the points publishes nothing. |
| `SearchableAfterAck` (`ReviewGate`) | `API/ack.py:13-15` | `VersionChunks <- OneVersion`, `Low <- LowOfOne`, `Reviewers = {r1}`, `Fragile = {}` | A chunk approved after the ack is upserted unpublished, and a second ack is refused. |
| `EveryChunkFound` (`GraphProvenance`) | README.md:71 | those of `GraphSafe`, with `PlainInputs`, `PlainMetadata`, `NoReplies` (twice), `PlainLinks`, `Builds = {b1}`, `MaxBuilds = 2` | The third chunk of a document is never recorded as a source of its entities. |
| `HyperedgesAreNary` (`Extraction`) | `hyperedge_extractor.py:3` | those of `GraphSafe` | Spellings are counted before they are normalised, and unknown names dropped afterwards. |

Other behaviour a reader may not expect, met while modelling:

* Direct ingest takes a file for unchanged by the hash of its body: a change of
  title or tags alone is skipped. A run that failed after `upsert_document` leaves
  the new hash without rows, and later scans skip the file; of two scans of one path
  the later INSERT is refused by the unique constraint on document and chunk index,
  and the rows that stay may be of another text than the hash; the document of a
  removed file stays. These are what the exceptions of `HashIsIndexed` stand for.
  The run of a process that died stays "running". A document that came this way has
  no workspace, so that only an admin finds it.
* A review's `modified_payload` goes with any action and is not checked against
  the item. It may name the id of another chunk, whose row and point are then
  written over, whether that chunk's own item is pending or rejected; say
  `published`, which makes a chunk searchable without an ack, or hide one that an ack
  has published; or fail validation once the decision is committed.
* A sync run whose audit write fails after it was finished COMPLETED is turned into a
  failed one, and its pages are discarded.
* Two uploads of one file that are queued together, or in one batch, both become
  documents; the duplicate test goes across workspaces, is skipped for a new
  version, and counts contents that a document had before. Only the newest
  indexed job of a content is looked at: `gone` in `HeldIsFound`. A duplicate is
  answered with 200 and a list of notices, where docs/knowledge-hub/plan.md:93 has 409.
* A chat of 501 to 2000 characters raises, since `SearchRequest` allows 500.
* A removed member searches a workspace until the token expires: access goes by
  the claims, and `workspace_members` is read by nothing but its listing.
* A build takes the oldest chunks up to its limit whether or not they are in the
  graph, so that beyond the limit newer ones are never built.
* `TextChunker` sets no confidence, so that no review item arises with it;
  `ReviewGate` stands for any chunker behind the same port.
* With `overlap_chars = max_chars - 1`, which the constructor accepts, windows advance
  by one character, and one that ends with a space has nothing beyond the window
  before: `Follows` asks for that of larger steps only. The default is 1050.
* The rate limiter's table is never pruned of idle clients, and the limiter is
  not installed.

## 6. Not modelled

* Format conversion, embedding, titles, tags and links, prompts, templates and
  the pattern of capitals: third-party code and text patterns. Their results
  are inputs of `DirectIngest`, `Extraction` and `Retrieval`.
* The graph's read queries other than `graph_for_chunk`, the graph context of a
  search result and the review queue: single reads that nothing is decided on.
* `/deliberate`, a proxy of a third-party service.
* `API/cache.py`, `query_optimizer.py` and `extraction.py`: nothing but their
  tests uses them.
* Users, workspaces and members: single inserts and deletes that no other part
  reads. Passwords and signatures: `Retrieval` begins at the claims.
* The audit log: append-only; `SyncRun` has the writes that change control.
* The in-memory repositories are test doubles, the web console a client. Of the
  MCP servers, which keep no state, `Retrieval` has the search and the question,
  `SyncRun` the Confluence calls; their listings are left out.
