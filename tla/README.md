# A verification project for semantic-search-api

TLA+ modules of the program under `src/`, TLC configurations that check them on
small instances, and TLAPS proofs of the results that matter most. Every
definition that models code is mapped to its source lines in `PROJECT.json`.

## 1. The system

| Part | Source | State it keeps | Operations | Talks to |
|---|---|---|---|---|
| Upload and status router | `app/routers/documents.py` | the handler's ORM object | `upload_document`, `get_document` | documents table, upload volume, broker |
| Ingestion task | `app/tasks.py` | pinned connection, session, advisory lock | `ingest_document`, `_remove_staged_file` | tables, upload volume, broker |
| Celery and its Redis broker | `app/celery_app.py` | ready list, unacked hash, visibility timeout | deliver, acknowledge, restore, retry | workers, router |
| Recovery script | `scripts/recover_ingestion.py` | its ORM object | `recover` | documents table, upload volume, broker |
| Tables | `app/models.py`, `app/db.py` | documents, chunks | commits of the above | - |
| Search router | `app/routers/search.py` | none of its own | `rate_limiter`, `search_endpoint` | limiter, tables, cache |
| Search cache | `app/cache.py` | Redis keys with a TTL | `get_cached`, `set_cached` | search router |
| Rate limiter | `app/ratelimit.py` | one Redis hash per client | `check_rate_limit` and its Lua script | search router |
| Search modes | `app/search.py`, `app/reranker.py` | none | four modes | chunks table, models |
| Chunking | `app/chunking.py` | none | `chunk_text`, `_hard_split` | ingestion, corpus loader |
| Parsing, embeddings | `app/parsing.py`, `app/embeddings.py` | loaded models | pure calls | ingestion, search |
| Browser page | `frontend/` | search state, upload panel | `runSearch`, `handleFile` | the two routers |
| Corpus loader | `eval/ingest_corpus.py` | one transaction | `--reset`, load | tables |
| Benchmark, metrics, gate | `eval/run_benchmark.py`, `eval/metrics.py`, `eval/check_regression.py` | `benchmark.json` and `benchmark.md` by directory | `run`, `_write_outputs`, the gate | tables, search modes |
| Chunk sweep | `eval/chunk_sweep.py` | files | offline comparison of chunk sizes | chunking, metrics |
| Operations | `scripts/`, `deploy/`, `monitoring/`, `main.py` | none | schema, probes, wiring | - |

What is hard about it:

* Several workers may hold deliveries of one document at once (at-least-once
  delivery, visibility timeout, requeue of a lost worker), while two other
  programs (handler and recovery script) write the document's status without
  the advisory lock that serialises the workers, and the loader deletes it.
* The outcome of an ingestion spans three stores (row and chunks in one
  transaction, the staged file, the broker's message) that no transaction
  joins; processes die between any two of them.
* The rate limiter's clock is read before the call that uses it.
* The cache key is read before the search and used after it, while documents
  become done in another order than their timestamps.
* The chunker must bound the tokens of joined and of cut texts, although
  neither joining nor cutting is additive in tokens.
* A benchmark reads its labels once and searches for minutes, while the index
  may be reset, reloaded or added to, and another benchmark may have been given
  the same directory.
* Redis may come back without the last second of its log.
* In the browser several asynchronous handlers write one state.

`PROJECT.json` lists these as hazards at their lines, with the properties that
would catch each, and says why where none does.

## 2. Modules

| Module | Models | Used by |
|---|---|---|
| `Ingestion` | handler, task, recovery script, reset, broker, tables, staged file | `MCIngestion`, proofs |
| `DocumentLifecycle` | the abstract specification: what a client sees of a document | `Ingestion` (refinement), `UploadPanel` (as its server) |
| `IngestionProofs`, `IngestionLockProofs` | theorems about `Ingestion` | |
| `TokenBucket`, `TokenBucketProofs` | the rate limiter | `MCTokenBucket` |
| `Ranking` | the four search modes as operators | `SearchCache`, `Benchmark` |
| `RankingProofs` | lemmas about the lists the modes return | the next two proof modules |
| `SearchCache`, `SearchCacheProofs` | `POST /search` over cache and changing corpus | `MCSearchCache` |
| `Chunker` | the packing loop of `chunk_text` | `ChunkText` |
| `HardSplit` | `_hard_split` | `ChunkText` |
| `ChunkText`, `ChunkTextProofs` | `chunk_text` as a whole, which composes the two; theorems about all three | `MCChunkText` |
| `Metrics` | the ranking metrics as operators | `Benchmark` |
| `Benchmark`, `BenchmarkProofs` | benchmark runs, their files and the gate over `Ranking` and `Metrics` | `MCBenchmark` |
| `SearchPage`, `UploadPanel` | the two handlers of the browser page | `Frontend`, which composes them |
| `FrontendProofs` | theorems about `Frontend` | |

### Ingestion

A step is one statement another process can see. `row`, `chunks`, `file` are the
committed stores; `queued` and `unacked` are the broker's list and hash as bags;
`holder` is the advisory lock by document; `run[s]` is the task in worker slot
`s`, its `pc` naming the next statement; `client[c][d]` is where the upload
handler or the recovery script is with document `d`. What the ORM does is
modelled, since it matters: `Commit` writes only the columns that differ from
the values the session loaded (`seen`), whatever the row holds by then.
`DeleteChunks` runs in the open transaction and remembers which rows it covers,
so that two deliveries without a lock would duplicate chunks.

| Code | Actions |
|---|---|
| `upload_document` 52-79 | `CreateRow`, `Stage`, `StageFails`, `Submit`, `SubmitFails`, `SubmitAmbiguous`, `Refresh`, `MarkRefused`, `ApiCrash` |
| `recover` 15-41 | `Inspect`, `MarkPending`, then the handler's `Submit...`, `Refresh`, `MarkRefused` |
| `ingest_document` 37-91 | `Lock`, `Load`, `MarkProcessing`, `ReadFile`, `CommitEmpty`, `DeleteChunks`, `CommitDone`, `RemoveStagedFile`; any failure: `WorkFails`, `LookupFails`, `ConnectFails` |
| `ingest_document` 93-113 | `LeaveForRetry`, `LoadToFail`, `CommitFailed`, `RecordingFails`, `Unlock` |
| Celery and Redis | `Deliver`, `PublishRetry`, `RetryLost`, `Acknowledge`, `Crash`, `Restore`, `VisibilityTimeout`; a Redis that restarts without the unsynced end of its log: `ForgetMessage`, `ForgetAcknowledgement` |
| PostgreSQL | `LoseConnection` |
| `eval.ingest_corpus --reset` | `ResetCorpus` |

`RemoveStagedFile` may fail (`unlink`): the task swallows the error, and the file
stays unless a later delivery of the document removes it.

Faults that the program is not meant to produce by itself are counted in
`spent` against `Budget`; an ordinary exception in the try block (`WorkFails`)
is free and may happen in every try.

### TokenBucket

Tokens are counted in the time that refills them. `Sample` is `time.time()`,
`Check` the atomic script and the answer, `FailOpen` a lost call or a lost
answer. `drift` is history: the time by which a late sample set the bucket
back, which the script credits twice.

### SearchCache and Ranking

One query in one mode (both are in the key, so different ones do not meet). The
version is the pair the endpoint reads (count and greatest `updated_at` of the
done documents). `Flush` stamps a document, `Commit` publishes it, so that
timestamps and commits may be in different orders; a commit covers one document
of a worker or several of the loader (`Loaded`). `Reset` waits for rows that a worker
has stamped, as its DELETE does, but not for those a loader has inserted and not
committed. Each retrieval statement is a step of its
own. `CacheMiss` is possible always: expiry, eviction and Redis errors. A
document has one chunk; the two retrievers' orders and the reranker's scores
are constants. `Ranking` sorts by counting: a hit's place in a `Listing` is the
number of hits ahead of it, a definition without recursion that both TLC and the
prover can use.

### Chunker, HardSplit and ChunkText

All lists of the packing loop are runs of consecutive units, so a chunk is a pair
of indices, and the tokenizer any function on runs. `HardSplit` works on
characters, over every count of tokens of every slice; only whether a slice
fits, and that blanks at its ends add nothing, matters. `ChunkText` is the call:
in stage `split` a long sentence is split, `Extend` hands its pieces over as the
first units, `Collected` chooses a text that opens with them, and in stage
`pack` the loop runs. A split that raises ends the call without chunks. The
locals of `_hard_split` are forgotten when it returns. Were a piece over the
budget, no text would open with it and the call would never end.

### Benchmark and Metrics

| Code | Actions |
|---|---|
| `main` 237-239, `run` 65-67 | `Begin`: the directory is looked at, k is checked |
| `run` 72-77, `_gold_sets` | `Label`: the ids of chunks with a marker are read once |
| `run` 84-98 | `AskFirst`, `AskLast`: the statements of each search, mode by mode and query by query, each over the index of its moment |
| `run` 100-147 | `Count`: the scores, and the chunks counted in a second session |
| `_write_outputs` | `OpenReport` truncates, `Dump` writes and closes, `WriteTable` writes `benchmark.md` |
| any exception, the end of the process | `Stop` |
| a worker's commit, `eval.ingest_corpus` | `Add`, `Reset` |
| `check_regression.main` | `Passes` |

A chunk is its content and its id, new with every insertion. Scores are fractions
of 10000, rounded down, as the report keeps four digits; `Discount`, one over the
logarithm of a rank, is a constant of which only `DiscountFalls` is assumed. `Results`
holds the mean of each metric by mode. Two processes with one
open file may leave a mixed text. The search that warms up the models and all but
the last of the repeated searches leave no trace; latencies and most of the
metadata are left out.

### Frontend

`SearchPage` has one `Search` per call of `runSearch`; the form's button is
disabled while loading, the example buttons are not, so searches overlap.
`UploadPanel` has one loop per file over the server `DocumentLifecycle`, with the
answer of a poll in flight between `Ask` and `Show`.

## 3. Runs

| Run | Bounds | Shows |
|---|---|---|
| `ingest_delivery` | 1 document of 2 chunks, 2 workers, 2 retries; 1 crash, 1 second delivery, 1 API crash, 1 failing removal, 1 loss of the end of the Redis log | safety, refinement of `DocumentLifecycle`, `EventuallySettled` under fairness |
| `ingest_lock` | 2 documents (2 chunks, none), 2 workers, 1 retry; one each of second delivery, late crash, lost session, failing lookup, outage, lost retry | the index is consistent under every such fault |
| `ingest_race` | 1 document, 2 workers, 1 retry; one each of second delivery, lost answer, requeue, reset, crash | counts, debts and files are right although others write the status without the lock |
| `bucket` | 3 threads, capacity 5, cost 2, 6 ticks | bounds of the limiter, Retry-After |
| `search` | 3 documents (1 done at first, 1 of the loader), 1 reset, 2 requests, 4 modes, k 1, pools 3 and 2 | the cache belongs to the corpus; fusion and union |
| `chunk_text` | a long sentence of 4 characters, one of them blank, where each slice has no token, as many as the budget or one more, then every text of 5 units with sizes 0, 1, 4 and joins of 0 or 1 tokens that opens with its pieces; budgets 4 and 2 | both budgets, order, coverage, facts, end of the call |
| `benchmark` | 3 labelled contents and one more, query files of 1 and 2 queries, k 1 or 2, 2 runs, 2 directories; queries of the runs begun and index changes are 4 together | earlier reports, exact scores, order of the metrics, the gate |
| `frontend` | 2 searches, 2 queries, 2 columns, 2 files, 2 polls | overlapping handlers |
| `ingest_lost_answer`, `ingest_lost_lock`, `bucket_maximum`, `search_reset` | the smallest instance that shows it | disagreements, section 6 |

Why these are enough: the hazards are between two deliveries of one document, or
one delivery and one other writer, so two slots and one document meet them all; a
third delivery can only repeat what a second may do, since the lock admits one and
each carries no state but its number of tries. One or two retries give a first, a
middle and a last try. The second document of `ingest_lock` is the empty text, whose commit is a
path of its own. Three threads let a sample overtake another and be overtaken;
capacity 5 and cost 2 leave a token that pays for no request; 6 ticks exceed
the key's life of 5. Three documents let two become done in the wrong order
beside one that is there; after the one reset the corpus is the empty one again, and with as many
resets as there can be `search` passes too, in 3.6 million states. Five units give an overlap that keeps, shrinks and
loses units; of a slice the split only
asks whether it fits, so three counts stand for all. Two directories let a benchmark begin beside the report of
an earlier one, and one directory lets two overlap; with four steps of effort
each of two runs can have a query while the index is emptied and loaded again.
The loss of the Redis log is in the budget of `ingest_delivery` alone: `ingest_race`
passes with it too, in 8.4 million states. So do `ingest_lock` and
`ingest_race` with a removal that fails, in 3.0 and 4.3 million. What is proved (section 5)
does not depend on these bounds: all of them are values of constants (`Budget`, `MaxRetries`,
`MaxResets`, `Horizon`, `Effort` and the sets), and no action has a bound besides.

`CHECK_DEADLOCK FALSE` is set where the modelled program comes to rest: all
uploads settled, the text chunked, all runs and handlers ended.

### Fairness

Only `ingest_delivery` (through `FairSpec`) and `chunk_text` (through weak fairness of
`TextNext`, a sequential call that runs until it ends) assume any.
`Fairness` of ingestion is weak fairness of each slot's `Deliver` and `Work` and of
`Restore`: a Celery worker consumes whenever a child is free, a running task goes
on, and the broker restores messages of lost consumers, at once
(`task_reject_on_worker_lost`) or at the visibility timeout. Clients have no
fairness (they may stop anywhere) and no fault has to happen. Weak fairness is
enough for the blocked `Lock`: once the holder unlocks, the lock stays free
until a waiting slot takes it, and only finitely many deliveries wait.

## 4. Properties

*Ingestion.* `WholeCopyOrNone`, `CountMatchesChunks`, `DoneIsSearchable`,
`OnlyDoneIsSearchable` relate status, count and index. `AcceptedIsOwed`: an
upload answered with 202 always has a delivery or an outcome. `DoneIsFinal`,
`IndexedIsKept`, `BytesOutliveDecision`, `ReadersKeepFile` say what a step may
never do. `EventuallySettled` is the liveness promise of the 202; like `AcceptedIsOwed` it is
asked of behaviours in which Redis lost nothing, since a message that is
lost leaves its document pending; and of the staged file it says that it is removed for
good unless a removal failed, since nothing tries that again. The others hold with the loss.
`ImplementsLifecycle` is refinement: with workers failing, crashing and
overlapping, a client sees a document published in one step, never taken back,
and nothing of an unfinished one. It holds while no client writes the status
behind the lock and no session is lost; section 6 shows what happens then.

*TokenBucket.* `AdmissionIsBounded`, `NoTokenIsLost`, `RetryAfterSuffices`.

*SearchCache.* `CurrentEntryIsExact` and `AnswersAreFresh` (results come from
states the corpus was in during the request) say that the cache is transparent;
`AgreementWins` and `SingleSignalSurvives` are the two claims of `search.py` on
fusion and on the candidate union, here over every list the statements return.

*Chunking.* `ChunksFit`, `OverlapFits`, `PiecesFit`: the budgets. `ChunksAdvance`,
`NothingIsLost`, `TextIsKept`: order and coverage. `FactsSurvive` is what the overlap
is for (`chunking.py:91-92`): whatever fits into it is whole in one chunk, for tokenizers by which
a part has no more tokens than the whole. `ChunkTextEnds`: the call ends.

*Benchmark.* `EarlierReportsAreKept`: a run never touches what another had reported
when it began, whichever directory each was given. `QuietScoresAreExact`: if the chunks counted at the end are the
labelled ones, the scores are those of the undisturbed index, whatever happened
between. `BetterRankingScoresHigher` relates the four metrics to the lists they
score. `PassedModesAreMeasured`: the gate does not pass a report of an index that was
replaced under it.

*Frontend.* `ColumnsShareQuery`, `QuietPageIsComplete`, `ShownDoneIsReal`,
`NothingLeftHanging`.

Every property of a passing run has a mutant in `PROJECT.json`: a plausible bug
in a mapped definition that makes the run fail. The mutated forms stand before
the definitions they change, marked `Mutant`.

## 5. Proofs

All theorems hold for every value of the constants, from the named assumption of
the module alone (`ConstantsAssumption`, `SearchAssumption`, `PageAssumption` and so
on: numbers are numbers, `None` is no slot and no message, a single unit fits the
budget, the retrievers rank finitely many documents). Where a promise needs more, the
theorem says so as a hypothesis on the budget of faults, each satisfied by a run.

*IngestionProofs*: `TypeCorrect` and `WholeCopy`, under every fault and any
budget. `WholeCopyOrNone` is not inductive: a commit replaces `removed` rows by
a new copy, so one must know that the open DELETE covers what is there
(`DeleteIsExact`), which holds because a live session past the lock call has the
lock (`LiveHasLock`; a lost session's statements raise), and since nobody can
have chunks or deliveries of a document before its upload (`FreshIsClean`). `IndexInv`
joins these; the step from it is proved one conjunct at a time over all actions.

*IngestionLockProofs*: what the lock gives, in four invariants that build on each
other, each under the weakest budget for which it holds.

| Hypotheses | Invariant | Theorems |
|---|---|---|
| `SessionsSurvive` (no `disconnect`) | `LockInv` | `CountIsExact`, `DoneMeansSearchable`, `FileIsKept` |
| and `NoRequeue` | `DecisionInv` | `BytesAreKept` |
| and `NoLostAnswer` | `StatusInv` | `SearchShowsOnlyDone` |
| and `LookupsSucceed` | `LifeInv` | `DoneStays`, `IndexStays`; with `NoReset` also `LifecycleIsImplemented` |
| `SessionsSurvive`, `NothingDropped` | `OwedInv` | `AcceptedIsNeverForgotten` |

`LockInv` adds to `IndexInv` that everything up to the unlock has the lock
(`Exclusive`), that what the next commit compares with is what is there
(`SeenIsCurrent`: the ORM writes changed columns only, so a stale `num` would be
kept), and that the handler is first to write the file. `DecisionInv` adds that a
run between its load and its commit works on a document that nobody else has
finished (`Undone`) and that what it decided stands until it has cleaned up
(`Decided`). `StatusInv` adds that nothing is under way before the submission
(`Unsubmitted`), so that after it the lock holder alone writes the status.
`LifeInv` adds that only unfinished documents fail, which a lookup that raises
before the done check would break. `LifecycleIsImplemented` is the refinement: each
action is a step of `DocumentLifecycle` or a stutter of it.

`OwedInv` says what an accepted, undecided document waits for: a message in the
list or the hash, a run that will decide or hand on, a retry to be published, or the
recovery script (`WaitsForSomething`). `NothingDropped` (no `publish`, `outage`,
`latecrash`) excludes exactly the documented limits of section 6, while crashes,
redeliveries, lost answers, requeues and resets may happen.

*TokenBucketProofs*: `BucketTypes`, `AdmissionBound`, `TokensAreKept` and `RetryAfterIsEnough`.
`AdmissionIsBounded` is strengthened to `Ledger`: what was admitted plus what is
left is at most capacity plus the time the script knows of plus the drift; and
a key's expiry is never earlier than the time at which its bucket would be full.
`RetryAfterSuffices` needs `Told`: while the last writer was denied, what the bucket
has and the announced wait cover the cost, counted from no earlier than `ts`.

*ChunkTextProofs*, of the packing loop: `ChunkBudget`, `OverlapBudget`, `ChunkOrder`, `ChunkCoverage`, from the
invariant that `cur` fits, that the last chunk shares with it what the overlap
budget allows, and that every unit taken is in a chunk or in `cur`. `FactsAreWhole`
adds (`FactInv`) that `cur` begins no later than any run that ends with the last
unit and fits into the overlap: the overlap takes it whole, and shrinking for the
next unit cannot cut into a run that still fits with that unit.

Of the hard split: `SplitBudget` and `SplitCoverage`, from `SplitInv`: the cut is the
farthest place that fits (`CutFits`), and once all tokens are consumed the cursor is
behind the last of them (`AllConsumed`, a counting argument), so that the remainder
has none. `ChunksOfText` carries the theorems of the packing loop over to the
call: before the stage `pack` nothing is packed, and the first state of that
stage is an initial state of `Chunker`.

*BenchmarkProofs*: `EarlierReports` from `KeptInv` (no report that a run found is in
the run's own directory, and who has reported does not report again), and `QuietScores` from `ExactInv`: ids are
fresh, so an index that has changed since the labels were read never equals the
labelled one again, and until it changes every answer is that of the labelled
index.

`BenchmarkIsTyped`, `BetterScoresHigher` and `PassedIsMeasured` are about the scores, and
follow from `ScoreInv`: what a run is asked has labels, its answers are lists of at
most k distinct chunks (`AnswerIsListed`, from what `RankingProofs` says of the
statements), and once it has counted, its results and the ranks it counted them from
are `Measured`. That a complete run is measured (`CompleteIsMeasured`) is proved metric
by metric and query by query (`ScoreType`, `BetterScore`) and carried to the
means (`MeanType`, `MeanGrows`). The metrics see an answer only through the ranks of its
labelled hits, of which no two are one chunk (`RanksAre`), so that recall
and precision count ranks. The gain is a sum by rank: if of one set of ranks as many
are in every beginning as of another, its gain is no less because the discount
falls (`EarlierIsWorthMore`: each partial sum is ahead by at least the surplus of ranks at the
present discount), and the list with its min(|labels|, k) hits first is ahead of every
other (`IdealIsBest`), so that nDCG is at most one. Without a hit nDCG is zero
(`TotalMisses`), from which the bound of the gate follows. The recursive sum of
`Total` is reached by the least counterexample (`Through`). The assumptions: the
discount falls and is positive up to the greatest k, the report counts some hits
(`Cutoff`), every query file has a query, and contents are finitely many.

*SearchCacheProofs*: `SearchIsTyped`, `HitsAreCurrent`, `SearchIsFresh`, `FusionAgrees`
and `RerankKeepsTheBest`. The cache is right because a version names one corpus.
That is no invariant of the corpus alone, since documents become done out of the
order of their timestamps and a reset takes the count back to zero; what is inductive is `Past`:
no document under way has the timestamp of a version that was left, and if a done one
has it, the version is behind the present one (`Earlier`), by its timestamp or, with the same
timestamp, by its count. A commit only moves the version on, and a reset takes the timestamps
of what was done out of the corpus for good, also when it passes over a load that is
not committed.
From `VersionsAreKnown` (every version that a request or a key holds is the present
one or past) follow `Seen` (requests with one version have seen the same
corpora) and `EntriesAreSeen` (an entry that a request may still find is an
answer over corpora it has seen), of which `CurrentEntryIsExact` is the case of this moment. `Stamping`
says that the stamps of documents under way are their own, and bounds the clock by the documents
that took a tick.
`FusionAgrees` and `RerankKeepsTheBest` hold of every list that the statements can return.

*RankingProofs* (no theorem of its own, used by the two before): a listing by a strict order has every
member once and in order (`ListingOrders`, by counting who is ahead), so that each
retriever returns distinct visible documents, each sort all it found, by score, and each
mode at most k of them, each once (`RetrieveReturns`, `SortReturns`, `CutOfSort`,
`DispatchReturns`). The common denominator of the fused
scores is a recursive function; that it is a number is proved from the least
counterexample (`Least`), as induction cannot be cited.

*FrontendProofs*: `PageIsTyped`, `OneQueryPerPage`, `QuietPageShows`, `DoneIsShownTruly` and
`PanelSpeaks`. `PageInv` adds that a running search has a query (`Asked`), that a panel
without a file shows nothing (`Named`), and that an answer in flight which says
done stays true (`AnswersHold`): the server `DocumentLifecycle` never takes a done
document back.

Every safety property of a passing run is stated by one of these theorems, and the
hypotheses on the budget are satisfied by the budgets of `ingest_delivery` and
`ingest_race`, where these check the property. Only model-checked are liveness (`EventuallySettled`,
`ChunkTextEnds`), which like ENABLED is beyond the prover, and what `ingest_lock` says with a lost
session: that a document is still searched as a whole then. `SessionsSurvive` cannot be
dropped from `DoneMeansSearchable`: with a budget of `requeue`, `disconnect` and `redeliver` together TLC
finds a done document without chunks. A delivery that has lost its session reads a failed
row to record its own failure, another delivery completes, and the commit of the first
deletes the chunks but leaves the status, which is what it had read.

## 6. Where the code and its documents disagree

* `ingest_lost_answer`: `docs/verification/REPORT.md:38-39`, "Completed
  deliveries are not overwritten as failed". The handler decides on the status it
  refreshed and commits later, without the lock (`documents.py:73-77`): if the broker stored
  the message but its answer was lost, a worker's done in between is overwritten.
  The recovery script has the same gap (`recover_ingestion.py:24-30`): with
  `OneRequeue` as the budget, `DoneIsFinal` and `IndexedIsKept` fail the same way.
* `ingest_lost_lock`: `tasks.py:34-36`. After its session is lost, a delivery's
  except block runs over a new connection without the lock, and deletes the
  chunks that another delivery has committed meanwhile.
* `bucket_maximum`: the bound of `tests/integration/test_rate_limit.py:50-57`. A sample that
  arrives late sets `ts` back (`ratelimit.py:54`), and the interval is credited again.
* `search_reset`: `README.md:78-79`. The version of the empty corpus recurs
  after a reset, and with it an entry stored by a request that read the version
  before the first document was done. Every other version is unique, which is
  what `CurrentEntryIsExact` checks.

`README.md:138` says that results never overwrite an existing benchmark JSON. The
directory is looked at when a run begins (`run_benchmark.py:238`) and written when it ends, so two
runs given one directory do overwrite each other; `EarlierReportsAreKept` is what holds.

Documented limits that the model confirms: an API crash between commit and
submission leaves the document pending (no outbox); a database outage during the
last try, or a retry that cannot be published, leaves it in processing until an
operator requeues it. A staged file whose removal fails stays (`tasks.py:119-120`).

## 7. Not modelled

Parsing, embeddings and the reranker's model are pure calls (their failures are
steps of the modules that call them). The upload's size and key checks, health,
metrics endpoints and schema creation keep no state; `scripts/loadtest.py` and
`scripts/verify_worker.py` drive the program from outside. How much of a staged file a
failed write leaves (`documents.py:66`) is not modelled, only that there is one.
A second publication of one submission by the Celery producer and retry delays are left out. Of the
benchmark the latencies, the chart and the fingerprints are left out, and
`eval/chunk_sweep.py` altogether: one process, no database, each of its parts
(`chunk_text`, the metrics) modelled elsewhere. The regular expressions
that find paragraphs and sentences are represented by their result. Documents of
`SearchCache` leave only by a reset: one that a status race takes back (section 6)
keeps its chunks, and the version that excludes it may recur. A commit there
that is rolled back after its timestamp was taken is not tried again under a later one.

## 8. Plan

Done, in this order: the core (`Ingestion` with its abstract specification and
proofs), the limiter, search and cache, chunking, the page; then the benchmark with
its metrics and gate, chunking as one call, the loss of the Redis log, and the
theorems about them and about Retry-After; then the refinement of
`DocumentLifecycle`, what the decision of an ingestion is worth, the cache and the
four modes, and the page; then the scores of the benchmark. Next:

1. Documents of `SearchCache` that are withdrawn by a status race and come back;
   the producer's second publication.
