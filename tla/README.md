# Verification of paperrag

paperrag collects papers as PDF files, lets people review what layout analysis
and OCR found in them, ingests them into PostgreSQL and answers keyword searches
with an Excel file.  This directory holds TLA+ models of its core: what the parts
do to the shared state, how requests, workers and failures interleave there, and
what stays true.  TLC checks the models on small instances, and TLAPS proves the
most important invariants for every value of the constants.

Paths are relative to the repository; `review/service.py` and the like stand for
`src/paperrag/review/service.py`.  `PROJECT.json` maps every definition to the
lines it models and lists the runs, the mutants and the hazards.

    tlc -config review_sequential.cfg MCReviewService   # likewise for the other runs
    tlapm ReviewProofs.tla                              # likewise the other ...Proofs

## 1. The system

    browser -- ui --> API process(es) --+--> review_documents   (PostgreSQL)
               |      review, search    |--> papers, keywords, processing_jobs,
           st.session_state  |          |    search_results, keyword_result_cache
                          Celery        |
                             |          |--> Redis: OCR and LLM slots
    collect --queue--> worker(s) -------+--> cache files of LLM answers
                      OCR, ingestion

Several API processes, each with a pool of threads, and several Celery workers run
the same services over the same database.  Nothing but the database and Redis
coordinates them.

| component | state | operations | what is hard | what makes it correct |
|---|---|---|---|---|
| review workflow (`review/service.py`, `models.py`, `store.py`) | one JSON document per uploaded PDF: phase, status, blocks, paper id | upload, add/delete/update block, approve all, deduplicate, OCR by hand or automatic, confirm, re-evaluate, return to layout, ingest | every operation reads and writes the whole document in two transactions; OCR takes minutes in between; ingestion calls the pipeline in between; processes die | OCR text belongs to the box; nothing skips the review; corrections survive; "ingested" names a finished paper |
| heavy-task semaphore (`concurrency.py`) | a marker and a list of tokens in Redis | seed, take (BLPOP with timeout), give back | concurrent seeding, death with a token, Redis away | never more holders than slots; a token comes back |
| ingestion pipeline (`ingest/pipeline.py`, `repository.py`) | nine tables; the stage of each run | STEP 1 to 9, each with job rows; compensating delete | each repository call is its own transaction; runs share keywords and relations; bookkeeping may fail too | a paper is complete or gone; keywords are found; every run ends |
| background jobs (`review/api.py`, `worker/app.py`) | Celery's queue and results | submit OCR or ingestion, run, poll | lost and repeated tasks, acknowledgement before the work, no "started" state | a job ends and says how; what is ready stays ready |
| search and its cache (`search/service.py`, `repository.py`) | `keyword_result_cache`, `search_results`, files | search, select, lazy fill, STEP 9 refresh, download | a lazy fill overlaps the refresh after ingestion | what is shown exists and can be downloaded; a cached result is the best one once its refresh is through |
| suggestion sessions (`search/sessions.py`) | a dictionary per API process | create, take, sweep | expiry races a selection, several processes | a selection is served once, and only before expiry |
| collection (`collect/`) | manifest file, PDF directory | search OpenAlex, download, record, enqueue | a crash between two of these, two collectors | a downloaded paper is ingested |
| LLM enrichment and its cache (`ingest/llm_enrich.py`) | a file per prompt, with a temporary file | look up, ask under a slot, store, judge, ask again otherwise | several processes with one prompt, death while writing, answers that are cached before they are judged | no reader sees half an answer; a slot comes back on every way out; requests end |
| layout extraction (`ingest/layout/paddle_backend.py`, `dedup.py`) | the blocks of a page, rewritten by a chain of corrections | detect, deduplicate, match with text lines, recover, split, name, order, recognise | thresholds, and corrections that undo each other | no printed line is lost; blocks are in reading order; a text belongs to its region; cells stay in place |
| content (`ingest/filterer.py`, `paragraphs.py`) | none | sort blocks, build tables and paragraphs | boundaries | no text lost, doubled or moved |
| user interface (`ui/app.py`, `ui/client.py`) | `st.session_state` of a browser session | upload, select, poll, press, search, select, rebuild | the script runs again on every event, so what was drawn and what a click acts on may differ | a click acts on what was shown; a running job is watched; what is shown answers the form |
| keywords, relations, embeddings | none | normalise, score, embed | numeric, external | a choice where other models need them |
| Excel, viewers, observability, logging, readiness, access key, evaluation | none that matters to the above | formatting, rendering, checks | little | out of scope |

### How the parts meet

* `ReviewService.ingest` saves "ingesting", calls `IngestPipeline.run`, and saves
  "ingested" with the paper id or "failed".  In `ReviewService.tla` the pipeline is
  one step with all outcomes it can have (`PipelineSucceeds`, `PipelineFails`);
  `IngestPipeline.tla` opens that step.  The outcomes in `Leftovers` are those that
  the second model shows: no paper, a half paper (the compensation failed), or a
  complete one (only the bookkeeping after STEP 8 failed).
* `run_reviewed_ocr` runs under a slot of the semaphore.  A slot that is not granted
  is one of the reasons for `OcrFails`.  The LLM callers run under slots of the same
  semaphore: `LlmEnrich` extends `HeavySlot` and takes and returns slots by its actions.
* `upload` calls `analyze_layout` and `run_reviewed_ocr` calls `recognize_layout`;
  `Extraction` opens both, and goes on through the first stages of ingestion.
* Between the review service and the person sits the session of the browser.
  `OcrJobs` is what the session can see of the service and of Celery: three phases, and the
  two reads and three saves of `run_automatic_ocr`.  `Screens` puts the session's two tabs on top.
* The search reads the tables that ingestion writes and stores rows of
  `search_results` that refer to papers.  These foreign keys meet the compensating
  delete (`Search`, `DeleteFails`).

## 2. Modules

| module | models | lines of code it stands for |
|---|---|---|
| `ReviewDocument` | a document value; guard and effect of each review operation on it | `review/models.py`, `review/service.py` |
| `ReviewService` | the stored document, the requests in progress, papers | `review/service.py`, `review/store.py` |
| `ReviewLifecycle` | abstract: phase, status and paper of a document | head of `review/service.py` |
| `ReviewProperties` | properties and the refinement mapping | |
| `HeavySlot` | semaphore, with its properties | `concurrency.py` |
| `IngestPipeline`, `IngestProperties` | concurrent runs over the tables | `ingest/pipeline.py`, `ingest/repository.py`, migrations |
| `Collect` | runs of the collector over the manifest and the PDFs, and the queue it fills, with its properties | `collect/service.py`, `collect/cli.py` |
| `SearchCache` | calls of `resolve` by users and by STEP 9, the result cache, the runs that refresh it, with its properties | `search/service.py`, `search/repository.py`, `search/sessions.py`, STEP 9 of `ingest/pipeline.py` |
| `LlmEnrich`, `LlmProperties` | callers of the language model, their cache, on top of `HeavySlot` | `ingest/llm_enrich.py` |
| `Boxes` | rectangles and stable sorting | geometry of `ingest/layout/` |
| `LayoutDedup` | `deduplicate_layout_blocks` | `ingest/layout/dedup.py` |
| `ReadingOrder` | `_order_detected_blocks` | `paddle_backend.py` |
| `LayoutRepair` | the other corrections of `analyze_layout` | `paddle_backend.py` |
| `TableText` | the HTML of a table onto its grid, the choice between two models | `paddle_backend.py` |
| `OnePass` | the route without review: blocks, and words outside of them | `analyze`, `_map_result` and its helpers in `paddle_backend.py` |
| `Content` | filter and paragraphs | `ingest/filterer.py`, `ingest/paragraphs.py` |
| `Extraction`, `ExtractionProperties` | from page images to paragraphs, composed of the seven above | `analyze_layout`, `recognize_layout`, `run_reviewed_ocr`, first stages of `ingest/pipeline.py` |
| `OcrJobs` | background OCR: API, queue, workers, results | `worker/app.py`, `review/api.py`, `review/service.py` |
| `ReviewScreen` | the review tab of a session, over `OcrJobs` | `ui/app.py` |
| `SearchScreen` | the search tab, with the API's suggestion session | `ui/app.py`, `search/sessions.py` |
| `Screens` | both tabs, with their properties | `ui/app.py` |
| `MC...` | instances: model values, symmetry, request bodies | |
| `...Proofs` | TLAPS proofs | |

An operator introduced by "Wrong on purpose" is not part of a model.  It is what a
definition would be with a plausible bug; each property is known to fail when its
definition is exchanged for such an operator (`mutants` in `PROJECT.json`), so each
property does depend on the code it is about.

### Review workflow

State: `doc` is the row of `review_documents` or `NoDoc`; `client[c]` is a request in
progress with the stage it has reached and its own copy of the document; `papers`
says which papers the pipeline has created from this document.

Every service method is `store.get`, checks, a computation, `store.save`.  `Begin...`
is everything up to the computation, with the checks as its guard (a request that
is refused changes nothing and is left out); `Save...` is the save.  What lies
between two store accesses belongs to one client, so it needs no step of its own,
except OCR and the pipeline, which can fail or die for themselves.

* `run_automatic_ocr` is get, approve, save / get and check again
  (`ReadForAutomaticOcr`) / OCR, save / judge, save: four requests' worth of steps in
  one, and anybody may come in between.
* `ingest` is get, mark, save / pipeline / save.  It keeps its copy over both saves.
* `Crash` drops a request at any stage; in the pipeline it may leave a half paper.

One document is enough, since requests on different documents share only the
papers table, where each has its own papers.

Abstractions: a box is a model value; a text is blank or not and remembers the box
it was read from; block ids stand for block order; the text comparisons of the
quality check are a free Boolean; deduplication removes any set it may remove.
Images, warnings, metrics and timestamps are left out.

### Semaphore

One step per Redis command.  `Break` is the death of a process or the loss of its
connection; the command under way may or may not have taken effect.  Loss of the
data of Redis itself is left out.

### Ingestion

One step per repository transaction.  `upsert_keyword` is a transaction at READ
COMMITTED, which does not keep two of them apart, so it is two steps: what its
SELECTs found (`FindKeyword`) and its write (`UseRow`, `InsertRow`, or
`InsertCollides` where the UNIQUE key raises).  The two SELECTs are taken together.
Every stage writes a job row before and after its action (`BeginStage`,
`FinishStage`, `Raise`).  A row names the paper once STEP 3 has stored it, and no paper
before (`PaperId`), so the rows of STEP 1 and 2 cannot be told apart.

What is similar to a row depends on the embedding the row has at that time.  `vector` tells whose
name's embedding that is: a new row has its own, and each later use of the row by its name or by an
alias overwrites it (`UseRow`; a merge does not).  The spellings of one normalized
keyword are taken to have one embedding.  Any row above the threshold may be
the nearest.  `IngestProperties` has one history variable: `overlapped`, once two papers have been under
way at one time.

`Faults` says what may go wrong: "action", an exception in a stage; "job_row", an
exception in `set_job_stage`; "delete", one in the compensating `delete_paper`; and
"crash", the death of the worker.  A run ingests one paper, which is named after it.

The content of stages 1, 2, 4, 5, 6 and 9 is left out (`Compute`).  Which of the
embedded papers become relations is a free choice.

### Collection

One collector runs at a time, since it is started by hand; it can be started again for
ever.  It works through any set of candidates (discovery is left out) with the records that
it has loaded in `memory`, and queues what it downloaded only after the last of them.
Replacing a PDF (`Fetch`) and replacing the manifest (`Record`) are each one step, because the
code renames a complete temporary file.  A checksum is the content it belongs to.

`RecordFails` deserves a look: `upsert` changes the records in memory before it writes
them, so the paper, reported as a failure, becomes a record with the next successful write.

`Troubles` are the sets of things that may go wrong; a behaviour has one of them
(`trouble`), so that a property can say under which troubles it is claimed.

### Search cache

`task[a]` is a call of `resolve`, by a request of a user or by STEP 9 of the run of a
paper (a run is named after its paper).  Its steps are its transactions: choose the
primary paper, read a relation, save the result row, save the cache entry; embedding and
LLM calls lie in between, so that papers come and go there.  `default` is the default view, the
only one that reads or fills the cache.  `TaskFails` is an exception at any of them: a
user sees an error, a run goes on with its next keyword (`EndTask`).

The runs are those of `IngestPipeline` at the grain that matters here: the paper's row,
each link to a keyword, the relations, then a task for each keyword, and compensation.
The composition of the two modules would have the same tables with more steps between
them than TLC could interleave with searches.  STEP 8 and its job row are one step here.

Ranking: a paper is a number, and the higher one is the better for every keyword.  The scores of
`_select_primary` depend on the paper, the keyword and the year only, so the order is
fixed, and one order of two papers is as good as another.  The related paper is any
peer.  The paper's score for a keyword, which the summary in the cache also holds, is left out.

Two history variables say when a stale entry is *expected*.  `lapsed` has the keywords
whose refresh failed, was never made (a dead worker, a failed compensation), or was
undone; `overtaken` has the tasks that chose before a paper with their keyword was linked,
which is how a refresh is undone: the slow task saves its entry after STEP 9 has saved a better one.
A later computation for the keyword takes it out of `lapsed`.

### Language model

A caller is one of the four functions that ask the model.  Its steps are those on which
callers meet: look for the cache file, wait for the slot (the steps of `HeavySlot`), POST,
and the three file operations that store an answer.  A prompt with its temperature is a
key.  What a reply says is reduced to what the code makes of it: good, refused for its
characters, too short, or JSON that is no object.  `handle` follows an open file through renames, because
POSIX does, and because a caller that still writes into a file that another has published
is what `CacheTornOnlyWhenShared` is about.  Two history variables, `shared` and
`answered`, are in `LlmProperties`.

### Extraction

What the models see on a page is a choice (`Scenes`: regions and text lines); every
correction of `analyze_layout` is one step and an operator of its own, in the code's
order.  Coordinates are integers and ratios are multiplied out, so that a threshold is hit
exactly and no rounding hides it.  Line scores are left out.  The reviewer confirms regions as they are, or hands
over one of the documents of `Reviewed`, which reach what layout analysis of a small page
does not: tables and longer bodies.  Characters are classes (`"a"` lower case, `"A"` other
letters, `"D"` the syllable before a Korean full stop, hyphen, stop, blanks), as the code's patterns tell
them apart.

A paper that nobody reviews goes through `analyze` instead (`OnePass`, the stage "batch"): one pipeline finds and
reads the regions and all words, and the code makes a table of words in a region without a
text, and blocks of words outside of all regions.  A word in a table is named by its box.

### Screens

The script of a Streamlit page runs from top to bottom on each event.  An action of
`ReviewScreen` is one such run: the document is chosen (`Current`), a poll of its job may end
it, buttons are drawn, and a button that was pressed acts *on the document of this run*.
`shown` is what the person sees, which is what the previous run drew.  `st.rerun` is part of the
action that calls it (`RunAgain`).  Uploads, and reviews in the viewer's window, are steps
of the user beside it.  `forgotten` has the jobs the session was made to lose sight of.

A worker's run of `run_automatic_ocr` is its two reads, each with a look at the phase, its three saves, and
the report to Celery.  Between them the reviewer may change the document, and the run then saves
what it read before (`HoldingStages`).
With `faulty`, messages are lost or delivered again, workers die, answers to the browser
are lost, and the page is reloaded.

`SearchScreen` has the question in the form, the question that the result or the suggestions
on the screen answer, and the one that the API's suggestion session holds.  It is
composed with the review tab because the script draws that first: while it polls, the
search tab is not reached.

## 3. What the runs check

| run | instance | properties |
|---|---|---|
| `review_sequential` | 1 client, every request, up to 2 blocks, 2 boxes, 2 papers, both kinds of backend, coverage threshold, fairness | `TypeOK`, `CorrectionsKept`, `ReadyGate`, `RejectedUntouched`, and `ImplementsLifecycle`: refinement of `ReviewLifecycle` |
| `review_overlap` | 2 clients with overlapping requests around OCR, layout edits and ingestion, failing pipelines, crashes | `OcrFollowsBox`, `PaperExists` |
| `ingest_faults` | 2 runs, 3 keywords of which two are similar, failures and crashes | `TypeOK`, `NoHalfPaper`, `KeywordsRepresented`, `FrequencyCoversLinks`, and for papers ingested one after the other `KeywordsFindPaper` |
| `ingest_progress` | 2 runs at once, searches, failing steps, job rows and deletes, fairness | `CompletePaper`, `JobsTell`, `RunsEnd` |
| `collect` | 2 works, 2 PDFs for each; no trouble, all but damage, or damage | `TypeOK`, `QueuedIsReady`, `QueuedOnce`, `RecordedIsQueued` |
| `search_cache` | 1 user, 2 papers with one keyword, failing calls and runs, crashes | `TypeOK`, `GivenIsDownloadable`, `GivenPapersExist`, `FreshUnlessLapsed` |
| `extraction` | two pages, up to 3 regions on the first, all its lines but one; a page in one pass with any of 6 regions and 0, 1, 2 or 9 words; tables of up to 3 rows; short bodies | `LinesStayCovered`, `ReadingOrderKept`, `TextFromOwnCrop`, `OnePassKept` (`WordsReadOnce` and `OnePassOrder`), `CellsInPlace`, `ParagraphsKeepText` |
| `llm` | 2 callers with one question and one slot, crashes, failing calls, fairness | `CacheTornOnlyWhenShared`, `NothingAskedTwice`, `TokensComeBack`, `SlotLimit`, `NoTokenLost`, `RequestEnds`, `SlotComesFree` (of these `TokensComeBack`, `NoTokenLost` and `SlotComesFree` without faults) |
| `screens` | a session with one document, 2 jobs, 2 workers, losses and redelivery; its search tab with 3 queries and 2 compositions; fairness | `NoRunBehindItsBack`, `AnswersTheForm`, `ReadyStays`, `SearchTabReturns` |

These pass.  The next ones fail, and each failure is a disagreement between the code
and what it says about itself:

| run | property | what happens |
|---|---|---|
| `review_stale_text` | `KeptTextMatchesBox` | A block is rejected in OCR review, the document returns to layout review (which clears all texts but those of rejected blocks), the block is moved, OCR skips it, and it is accepted again with the text of its old box. |
| `review_retry` | `OnePaper` | The job row of STEP 9 is written outside every `try` (`ingest/pipeline.py:525`).  If that raises, the paper is complete, `ingest` saves "failed" without its id, and the retry that "failed" allows makes a second complete paper.  One request after the other, no crash. |
| `screens_click` | `ConfirmedWasShown` | A document on the screen is finished in the viewer and leaves the scope of the list.  The next run of the script turns to another document, and since Streamlit knows a button by its label, the click on "confirm" confirms that other document, which nobody has seen. |

Other facts the models show:

* The compensating delete cascades to `processing_jobs` (`0001_init.sql:70`), so the rows that tell at which of STEP 4
  to 8 a run failed go with the paper, although `ingest/repository.py:414-416` says they are
  there to be queried later, as does `docs/guide/04-ingest-pipeline.md:195`.  `JobsTell` therefore
  speaks of papers that stay.
* A keyword that STEP 9 could not warm keeps the entry from before the new paper, and
  searches answer from it until some computation replaces it; `ingest/pipeline.py:252-254`
  says that a failed warm only slows down the next search.  A slow lazy fill has the
  same effect without any failure.
* `resolve` calls the LLM for its summaries (`_relevance_summary`), though a comment in
  `_precompute_search_cache` says that it never does, so a warm task can take long.
* The cache refers to papers and results by JSON and text only.  It stays right because each
  entry has a row of `search_results`, whose foreign keys have no cascade: with a cascade,
  the cache would show papers that are gone (the mutant of `GivenPapersExist`).
* Requests on one document that overlap lose updates: both read, both save, and the first edit is
  gone.  `PostgresReviewStore.save` (`review/store.py:133`) is an upsert of the whole document without
  a version, though the migration that makes the table is there to prevent that
  (`0004_review_documents.sql:2-3`).  Edits after the paper was stored never reach it.
* A token of the semaphore that died with its process stays lost over any restart: the marker
  outlives the processes, and only a new marker seeds (`concurrency.py:61`, against its lines 17-18 and
  120-121).  While Redis is away, tasks pass without a token and may exceed the limit together
  with those that hold one (`concurrency.py:95`).
* The job row that closes STEP 3 is written after the paper and before the `try` that
  compensates (`ingest/pipeline.py:139`): when it fails, half a paper stays (against 114-118).
* A collector that dies before it queues, cannot reach the broker, or wrote a record it had reported as
  failed leaves a paper that every later collector skips as one that was queued
  (`collect/cli.py:66`).  Two collectors at a time rewrite each other's manifest
  (`collect/service.py:226`; not modelled).
* OCR in a Celery worker runs inline and without a timeout (`review/service.py:554`).
* Two overlapping `ingest` requests, or a crash between the pipeline and the last
  save, can also give one document two complete papers (`review_retry` needs neither).
* Two runs with the same new keyword collide on the UNIQUE key, and the loser's
  paper is rolled back as a whole although nothing is wrong with it.
* A candidate of STEP 8 that is rolled back before `save_relations` takes the run
  that wanted to relate to it with it, by way of the foreign key.
* A search that has shown a paper before it is compensated makes the compensating
  delete fail (`search_results` has no cascade), and the half paper stays.
* Of two runs at once, one may make a name an alias of a row while the other inserts a row of
  that name, or they may make it an alias of two rows, of which the later wins.  The name then no longer
  leads to all papers that have it, which is why `KeywordsFindPaper` is claimed of papers
  ingested one after the other, and `KeywordsRepresented`, for overlapping runs, says only that the
  paper is linked to a row that a chain of similar keywords connects with the keyword.
* It says "chain" because the embeddings of rows drift.  When k2 has become an alias of the row of k1 and is
  used again, `upsert_keyword` overwrites the embedding of that row with that of k2 (`ingest/repository.py:263`);
  k3, similar to k2 only, is then merged into the row of k1, without faults and one paper after
  the other.  The comment at `ingest/repository.py:236-240` calls a merged keyword one that is "only spelled
  differently" and says that finding a row by its name changes its frequency only.
* Two runs at once that look for similar keywords before either has inserted its own both
  insert a row.  The two are never merged, although `ingest/repository.py:241-242` gives the avoidance of
  such duplicates as the purpose of the merge.
* Frequencies count the uses of rows by papers that were deleted later, as
  `ingest/pipeline.py:114-118` admits; `FrequencyCoversLinks` says that they never count too few.
* A recorded PDF that is damaged is downloaded and queued again, and its work becomes two
  papers, since ingestion does not look for an earlier one.
* A document of a diagnostic backend that is moved back to layout review cannot
  leave it again, since such a backend has no staged OCR.

Of the language model:

* An answer is stored before it is judged, so a refused one is served again.  With a base temperature
  of 0.2 or more the second attempt has the temperature of the first, and with the same prompt
  it reads the answer that was just refused.  The docstring of the retries (`llm_enrich.py:429-430`)
  says that too few keywords bring the stricter prompt; only an exception does.
* An answer at the raised temperature that is no object raises `TypeError`, which the code takes
  for a client without that parameter; it then asks at the base temperature and reads the
  first answer once more.
* Two callers that store the answer of one key share `<key>.json.part`.  One may publish what the
  other is still writing; nothing ever repairs the file.  The caller whose file was moved away
  fails with `FileNotFoundError` although it has its answer.

Of the extraction:

* `final_text_coverage`, a metric shown to the reviewer, is always 1: `RecoverUncovered` makes a
  block of each line that is left (`LinesStayCovered`).  It is computed before the splits, and these can take
  up to two fifths of a heading's line out of all blocks (a heading detected at 60 to 80 percent of
  it, in an abstract).  The coverage that the quality check of automatic OCR looks at is another one, of blocks
  with text among those that should have some (`review/service.py:645`, `Quality`).
* A page that is left with one block keeps the number of the detection.  When deduplication
  dropped an earlier one, the number occurs again on the next page, and `run_reviewed_ocr`
  (`review/service.py:327`) gives one of the two blocks the text of the other.  This is why `TextFromOwnCrop` excludes
  such pages; `review/service.py:283-284` takes the number for unique.
* Deduplication can leave two boxes of intersection over union 0.85 or more: a merged title grows
  after it was compared.  The merge drops the candidate's text, which matters in
  `split_blocks`, after a person has corrected it.
* Blocks across the page that overlap each other put a block between them into a wrong band
  (excluded from `ReadingOrderKept`, by `SpansApart`; the proof needs it in one lemma, `BandsFollow`).
* The split of a heading inside a line does not ask whether a heading is there already, as the
  split of merged headings does: two boxes for one heading result.
* In one pass, a word of up to 6 pixels, such as a "1", can be a cell of a table and a block of its own, for
  `_ocr_text_in_bbox` goes by its center and `_has_text_overlap` by 3 pixels of overlap
  (excluded from `WordsReadOnce`).  A word across the edge of a table made of words, with its center outside and
  more than 3 pixels inside, is neither a cell (`_ocr_text_in_bbox` goes by centers) nor a block (`_unassigned_ocr_blocks`, there "not to lose
  text that the layout missed", goes by overlap), so
  what `WordsReadOnce` says of a word that is left out is only that it overlaps a block.  A word across both columns that lies in no block goes to the
  end of the page when no other block is as wide, a title on top of it too.
* `run_reviewed_ocr` copies text and engine from the recognised blocks and drops the types that
  `_normalize_semantic_block_types` has given them.
* A wide cell beside one from above overwrites its column, and a row without cells is dropped
  (excluded from `CellsInPlace` by `PlainTable`).  `_table_structure_quality` may exceed 1
  (rows of 2, 2 and 5 filled cells: 1.2) though it promises [0, 1].
* `_split_initial_paragraphs` never finds a blank line, since `_normalize_text` removed them
  (`paragraphs.py:62-71`, against line 31).  `_best_boundary` does not see a sentence end
  before two blanks when the second is past the limit.

Of the user interface:

* Celery acknowledges early and does not record that a task has started, so a lost or an
  unknown job is "pending" for ever.  The page then polls for ever, hides the button
  that would start it again, and keeps the search tab from being drawn, though
  `review/api.py:282-283` promises that the poll ends.
* A poll that fails, or a reload, forgets a running job; a second OCR run can start beside it.
  The viewer (`review/viewer.py:320-338`) even answers a failed poll by a synchronous run.
* A confirmation between the two saves of an OCR run is undone by the second
  (`overlapped`, the exception in `ReadyStays`).
* Rebuilding the output of a result that came from a chosen suggestion searches for the
  original query, so the suggestions come back and the result is lost.  A search that fails
  leaves the previous result under the new query (`failed`, the exception in `AnswersTheForm`).

### Bounds, and why they are enough

* Blocks: operations treat each block by its own fields, except bulk approval,
  quality and deduplication, which look at all.  Two blocks meet every operation on one
  with another to be left alone, and coverage of 0, 50 and 100 percent against the
  threshold of 90 (a block type other than the title only adds cases in which the
  title is missing).  `review_overlap` has one block: its properties are about a block and
  its box, and the proofs cover any number.
* Boxes: a block has one of the boxes or none (`NoBox`), which tells "the box it was read from" from "the box it has".
* Clients: two; a stale copy needs one reader and one writer.  The proofs hold for
  any number.
* Papers: two, for a document to get a second one (`review_retry`).  The pipeline needs a free name in
  `PaperIds`, so a document is ingested at most that often.
* `SequentialUpdates`, `OverlapUpdates`, `StaleUpdates` are the bodies of update requests
  that a run allows: the fields that its properties tell apart.
* Runs: two, since the tables relate at most two papers (relation, shared keyword).
  Keywords: three, a pair of which is similar (`Pair`), for a row to be merged
  into and one to be left alone; one where completeness and ending matter, which is shared by both.
  `KeywordsRepresented` tells nothing of keywords a chain connects, hence the third.
  The proofs hold for any number and any similarity, chains included.
* Tasks and slots: two callers and one slot, for one to wait for the other; the limit and the
  return of tokens are proved for any number.
* Works: two, so that one can fail or be queued while the other is under way (a failed
  record needs a second successful one to become permanent).  PDFs: two, for a publisher to
  change what it serves.  The proofs hold for any number.
* Search: one keyword, since the cache has an entry per keyword and tasks touch no other; two
  papers, for the better one to come first or second; one user beside two runs, which makes three
  calls of `resolve` at a time.  The proofs hold for any number.
* Language model: two callers, the number it takes to share a file or a slot, one question, with its
  four keys (two prompts, two temperatures), and one slot, so that one waits.  With
  faults the model only replies well, otherwise it may reply with a list, the answer
  that takes the longest way through the retries.  The proofs hold for any number and reply.
* Extraction: three of eight regions, chosen so that each correction has something to do and something
  to leave alone; a line is missing or not, so that heights and widths reach both sides of
  their thresholds.  The second page has up to two blocks, for numbers to continue.  Tables: every table
  of two rows of up to two cells with spans of one or two, and a plain third row that
  spans reach into.  One pass: words inside, on the border of, outside and between the regions of
  either column, alone, in pairs and all together.  Bodies: every text of five or seven characters for cutting at four, and every pair of
  texts of up to two around a heading or a caption for merging at two.
* Screens: one document with two jobs and two workers, which gives two runs at a time, and of which the first is
  delivered as often as the queue likes (`MCNext`); two
  documents only where a click may hit the wrong one.  Tabs are worked with one at a time,
  since they share nothing but the polling.  The proofs hold for any number, and for both tabs.

### Fairness

* `ReviewService`: `WF(Proceed(c))`, a request that was accepted goes on.  Its steps
  are local computations and store calls; the Paddle process is joined with a
  timeout, and BLPOP has one.  The exception is OCR inside a Celery worker, which runs
  inline without a timeout (`review/service.py:554-565`): there the assumption is on
  the recognizer, not on the code.  No fairness on what users do.  It is needed for
  `ImplementsLifecycle`, whose abstract specification says that an ingestion that has
  started is settled.
* `IngestPipeline`: `WF(Work(r))`, the worker goes on with the run it has; LLM, OCR and
  embedding calls have timeouts.  The liveness run has no crashes: a dead worker's
  run does not end, and nothing in the code takes it up.
* `LlmEnrich`: `WF(CallerStep(c))`, for Redis commands are answered, and BLPOP and the POST
  have timeouts.  None on new calls or faults.  This includes the steps of `HeavySlot`: commands
  are answered and guarded blocks end, so `SlotComesFree` is checked under it.
* `Screens`: `WF(WorkerStep(w))`, a worker goes on with its job and takes the next one, and `WF(Polling
  /\ Rerun)`, since the polling script sleeps two seconds and runs itself again.  The first
  rests, for OCR inside a worker, on the recognizer (see `ReviewService`).  `SearchTabReturns`
  is claimed without faults only.
* `Collect`, `SearchCache` and `Extraction` assume none: they are about what never happens.

Deadlock checking is off for the runs of an ingestion and of an extraction, which end, and for
the screens, where jobs and documents are used up.

## 4. What is proved

A theorem states `Spec => []P` for an invariant, `Spec => P` for an action property, or
that every step of one specification is a step of another.  It holds for all values of the
constants that satisfy the named assumptions (finite sets, "nothing" outside its set, sets of
kinds within the known kinds), which TLC evaluates in every run.  Where properties need history
variables, it is the specification with these (`CheckedSpec`), whose steps are steps of `Spec`.  Where a property
is only claimed of some uses of the system, the theorem has the hypothesis of the run that
checks it: one client (`OneClient`), no crashes, some kinds of `Faults` only.

**ReviewProofs**: `TypeCorrect`, `OcrAlwaysFollowsBox`, `PaperAlwaysExists`, for any
number of blocks, overlapping requests, crashes and failures.  None of the three is
inductive for the stored document alone, because a request may save a copy it read
long ago.  The invariant `IInv` therefore says

* `Sound` of the stored document *and of every copy*: it is well formed, its texts
  belong to its boxes once it has left layout review, and the paper it names is
  finished;
* `Holding`: which stages hold a copy at all, and what that copy must look like for
  the next step (for instance, a copy in the pipeline has no paper yet, so marking it failed
  is right);
* nobody holds anything before the upload.

The lemmas fall in three layers: each operation of `ReviewDocument` takes a sound
document to a sound one (`AddBlockGood`, `ApplyOcrGood`, `JudgeGood`, ...); the two
halves of a request preserve `IInv` if what they store is sound (`HoldStep`,
`WriteStep`, `EndPipelineStep`); and one lemma per group of actions puts these
together.  This is where one sees why overlapping requests do no worse than lose
updates: every save writes *some* sound document, and a finished paper stays
finished.

What does depend on the order of requests is proved for one request at a time, with any
number of blocks and papers and a crash at any step.  `Fresh` says that what a request
holds was computed from the document that is still stored (`Computed`), so that every save
is an operation on the stored document (`Saved`), and `SmallEditsPermitted` and the lemmas after it
that each operation respects the gate, the corrections and a rejection (`Permitted`).  From it
follow `GateAlwaysRespected`, `CorrectionsAlwaysKept`, `RejectedStayUntouched` and
`FollowsLifecycle`, the initial states and steps of `ReviewLifecycle`.  The document that a crash leaves
"ingesting" may be ingested again without passing through another status; for the lifecycle that is a
stutter.  `AtMostOnePaper` says what idempotence of `ingest`
would take: no overlap, no crash, and no pipeline that raises with its paper complete.  `PapersNamed`, that every complete
paper is named by the document or by the request about to name it, is then an invariant.  The
code does not guarantee the third, as `review_retry` shows.

**LlmProofs** begins with the semaphore: `SlotLimitHolds`, for any number of tasks and slots and with
every fault.  The invariant adds what seeding means: at most one task is about to
push the tokens, the marker is there by then, and before the push there are neither
tokens nor holders.  `SlotTypeCorrect` is part of it.  `TokensAreKept` is `NoTokenLost`: without faults,
tokens and holders add up to the number of slots once the tokens are there.

Then come its callers, for any number of them, of questions and of slots:

* `CallersKeepLimit`: each step of a caller is a step of `HeavySlot` or leaves its variables alone
  (`StepUsesSlots`, and the lemma `CallersUseSlots`), so the limit follows from `SlotLimitHolds`.
* `TokensAlwaysComeBack`: a task of the semaphore runs only while its caller is waiting for the
  model (`SlotsForPosts`), so the holders that `TokensAreKept` counts are the callers in `Asking`, and
  all others have given their token back, on whichever way they left.
* `CacheStaysReadable`: `CacheInv` says whose file it is.  For a key that two callers never stored at one time, a
  temporary file that is there belongs to the one caller in the writing stages, or to one that died;
  its open handle is on that file and not on the published one; so
  what is published is complete.
* `NothingIsAskedTwice`: `AskInv` says that a question a caller has had an answer to is in the cache
  or in the temporary file, and stays in one of them (`FilesStay`), since a file is only moved or overwritten.

**ScreensProofs**, for any number of documents, jobs, workers and queries:

* `RunsAreWatched`: `WatchInv` adds that a job which is not forgotten is in one place only, as a
  message or in one worker (`InOnePlace`), and has no outcome while it is there; so a poll that
  sees an outcome may stop watching.  What a run of the script does to jobs and to
  the watch is one of three things (`NoJobConcerned`, `StopsWatching`, `Starts`).
* `ReadyAlwaysStays`: a document that became ready with no run at work stays ready.  `RestInv` adds
  that it stays without one (`Rests`): a worker that reads it later finds it out of layout
  review and does nothing, also if it is the second read of its run.  Documents that became ready under a run (`overlapped`) are left out, as in the property.
* `ScreenAnswersForm`: `FormInv` adds that the API's suggestion session holds the question of the
  suggestions on the screen, or nothing.

**IngestProofs**: `PaperStaysComplete`, that is `CompletePaper`, for any number of
runs, keywords, faults and searches.  The invariant has two parts.  `Sound(r)` says, for each
place a run can be in, which of its rows exist by then.  `Earlier` says that the candidates of
STEP 8 were embedded, so a stored relation has two ends.  The proof separates
what a run does to its own rows (`OwnStep`) from what the others leave alone
(`OthersKept`).  Five further invariants say what the rows of a run owe to its place:

* `TypedFacts`, for `IngestTypeCorrect`: the tables are within their types, and places go with stages.
* `JobFacts`, for `JobsAlwaysTell`: the stages from STEP 3 on and before the present one are recorded as done and
  none as failed, and rows name papers that are there, until a run
  that failed takes the rows away with its paper.
* `HalfFacts`, for `HalfPapersHaveCauses`: before STEP 3 there is no paper, and a failed run
  leaves none unless there is a cause (`HalfPaperCause`: a lost job row, a failed delete, a search
  that was shown it).  `NoHalfPaperStays` follows where there are no such causes, that is for the faults
  "action" and "crash" and without searches.
* `KeywordFacts`, for `KeywordsStayRepresented`: an alias stands for a row that a chain connects with it, a row has an
  embedding that one connects with it, and so has the row a run has found; a keyword is still to be
  stored, being stored, or represented.
* `NameFacts`, for `KeywordsAlwaysFind`: it holds as long as there was one run at a time: no name has both a row and an alias that leads
  elsewhere, and a keyword that was stored leads to the row the paper is linked to.
  What a crashed or half-deleted run leaves (`BrokenOff`) is a row or an alias without a link, which later runs use.
* `FrequencyFacts`, for `FrequenciesCoverLinks`: a keyword's frequency is at least its links plus the runs
  that have counted it and not linked it yet.  This is why the two statements in this
  order never undercount, though they are not one transaction.

**CollectProofs**: `CollectTypeCorrect`, `TasksAreReady` and `NothingQueuedTwice`, for any
number of works and PDFs and every trouble but damage.  The invariant says that what is queued
or downloaded is `Safe` (stored, recorded, and known to the running collector with the
same content), and that the candidate at hand is neither.  Its last conjunct in `Safe` is the reason why
a collector that rewrites the whole manifest from memory drops nothing.
`RecordedWorkIsQueued` adds `AccountedFor`: with nothing gone wrong so far, each recorded work was queued
or is among what the running collector downloaded, and that collector does not come back to it.

**SearchCacheProofs**: `SearchTypeCorrect`, `GivenCanBeDownloaded`, `GivenPapersStay` and
`CacheIsFresh`, for any number of papers, keywords and users and every fault.  `ResultsHold`
and `SavedFirst` say that a row of `search_results` keeps its papers and is there before
anything shows it; `RunsHold` that a run stores under its own paper's row.  For
freshness, `FreshCache` says that each better paper than the cached one is due to be
warmed, and `FreshTasks` that a task still in progress has chosen the best paper or is
known to be overtaken, which is what makes saving its entry safe.  Steps of tasks that end
(`EndTaskSafe`), that go on (`TaskGoesOn`) and that start or are dropped (`TaskReset`) are
treated once for all who make them.

**ExtractionProofs**: `ReadingOrderAlwaysKept`, `TextAlwaysFromOwnCrop` and `LinesAlwaysStayCovered`, for any number
of pages, regions and lines of any size and place.  The corrections fold over sequences and sort them, so this module starts
from what the others do not need:

* induction: a set of natural numbers has a least element (`Least`, from the library's fact that the subsets of a
  finite set are well-founded), so `Induction` holds for sets;
* a fold is a recursive function on sets of indices, which `FoldExists` constructs, and of which `Reached` proves
  facts by induction on the indices; `FlattenSeq` is treated likewise;
* `SortBySorts`: `SortBy` loses and doubles nothing, puts keys in order and is stable.

Then come the keys of `_order_detected_blocks`.  `KeysFollowReading` says that a block which a reader reads first
(`ReadBefore`, defined by places on the page) has the smaller key; it needs that
more blocks across the page end above the later one (`BandsFollow`).  Sorting permutes the blocks, and
`PermutedPage` says that neither columns nor blocks across the page depend on how they
are numbered.  So every correction makes blocks of the page from
blocks of the page, in reading order and numbered from where the last page ended (`OrderDetectedOrders`,
`ReconcileOrders`, ..., `AuthorsOrders`).  The invariant `ExtractionInv` adds to that the
document so far (`DocumentInv`): a block's number is its position unless it is alone on its page (`Alone`), which is the
case of section 3 in which numbers occur twice.

`LinesAlwaysStayCovered` needs a second invariant, `CoverInv`, because the property does not say enough of a
stage for the next one.  Recovery leaves each line inside some block: it was inside one, or the box of its group
encloses it, since joining a group only makes its box larger (`JoinedType`) and ordering moves no box
(`OrderKeepsPlaces`).  From then on `Mostly` holds, that some block has three fifths of the line: the
split of a merged heading makes a block of the line, or encloses it with the others in the block below (`HullFold`), or
leaves it to the heading that is there already (`SplitMergedBlockKeeps`).  A heading inside a line may instead
cut it into two blocks that adjoin (`Halved`), wherever the cut is.  `KeptCounts` turns either into
the number of covered cells.  (No run lists `CoverInv`; TLC found it to hold on the
instance of `extraction` before it was proved.)

Assumed is that boxes have integer coordinates and a height (of boxes without one, "above" says nothing),
that lines, as text detection finds them, have a width too, and that the documents a reviewer hands over
have distinct numbers, as `add_block` gives them; with a page of a single block, that may already be false before the
review, and the property excludes it.

**ParagraphProofs**: `ParagraphsAlwaysKeepText`, for any number of pages, blocks and characters.  `Letters` is what
a text says apart from its spaces, and `Spelled` the letters of a list of pieces, each with its section.  The proof
follows the text from the document to the paragraphs, one function of the code after the other:

* `SplitBlocksRises`: the body that `split_blocks` takes out of a document comes in order of the numbers, since
  deduplication leaves blocks of a document (`DeduplicateStays`), sorting puts them in order and
  every turn of the loop drops its block or puts it at the end (`SortTurn`);
* `ItemsSpell`: the pieces that `build_paragraphs` takes from it, each under the last heading with letters, spell
  `BodyText`; normalizing keeps the letters of a block (`NormalizeKeeps`);
* `MergedKeeps`: joining short neighbours of a section keeps what the list spells;
* `SplitKeeps`: a cut of a long text is behind its start and at most `MaxChars` from it (`CutFollows`), and only
  spaces lie between a cut and the next start (`ResumeFollows`); so the recursion ends (`ChunksExist`, by
  induction on the rest) and its chunks have the letters of the whole;
* `PiecesKeep`, `AllPiecesKeep`: leaving out empty chunks and flattening keep them too.

The invariant `TextInv` says that the document is typed all along, which every step of the extraction keeps
(`FileTyped`, `RecognizedTyped`, `ReadPageTyped`), and that the content is what the steps make of it.  (No run
lists it; TLC found it to hold on the instance of `extraction` before it was proved.)  Assumed is that
`MaxChars` is positive, as its default of 1500 is (with 0, `_split_long_text` would cut nothing off and go on for ever),
and that what models find and reviewers hand over has the fields that `LayoutBlock` declares, in whole pixels and
with texts that are sequences of characters.

`OnePassAlwaysKept` is in the same module: what one pass with PaddleOCR makes of a page, for any number of regions
and words.  `merge_in_reading_order` gives every region and every word left over a place (`Anchor`) and sorts by it.

* `AnchorPlace`: a word's place is before the first of the highest blocks that start below it in its column,
  or at the end of that column; so among blocks that come downwards it is after those above it and before
  the others (`WordBetween`), and of two words the one read first has no later place (`WordsInTurn`).
* `MergedInOrder`: the result is a permutation of regions and words, sorted by place and, at one place, in the order
  they were found; with the facts before, it comes downwards if both did (`MergedKept`).
* `CenterTouches`: a word that `_ocr_text_in_bbox` puts in the rows of a table has its center in it, so, if it is
  larger than 6 pixels either way, it overlaps the table by more than 3 and is not left over.
  `WordRowsHold` says that the rows have words of this kind and all of them: sorting drops none (`SortKeeps`), and each
  turn of the loop keeps the cells it has and adds its own (`RowsGrow`).  `MergedMixes` says that merging adds
  and drops nothing, and `MixedReadOnce` concludes `WordsReadOnce`.

The invariant `OnePassInv` says that the page in work is what one pass made of some print.  The theorem has the
hypothesis `RegionsAreNotWords`: no region has exactly the box of a word, and tables are wider and higher than 3 pixels.
The property tells a word's own block by its box, and a region with a box of that kind would be taken for one; a
table no larger than the overlap that counts may hold a word's center while the word is left over as well.
TLC evaluates the hypothesis on the instance (`InstanceIsApart`).  Assumed besides is that only `_ocr_text_in_bbox` lays
words out in rows (`PrintsAssumption`).

`CellsAlwaysInPlace`, again in this module, is about `_TableHtmlParser`, for tables of any size with any spans.  What a
parser computes by two nested folds has no closed form, so its invariant claims a placement `at`, which
gives each cell read so far its first column, and relates the parser's state to it:

* `BetweenRows`: the finished rows show each cell where `at` puts it and nothing else, and the
  pending columns are exactly those that cells cover in the next row, each with the rows that it still covers;
* `WithinRow`: the same for the row in work, whose cells come in turn.  Every tag keeps one of them or leads to the other
  (`OpensRow`, `EndsCell`, `ClosesRow`), a cell by adding one column to `at` (`PlaceOneMore`);
* `Full`: a row with wide cells has no hole as long as it is read, since `PlainTable` allows them only where
  no column is pending (the text of a cell is never the parser's "no cell").  Then the next free column is the end of
  the row, and `_set_cell` overwrites nothing.  In other rows cells are one column wide and fill holes;
* `FilledTo`: no hole lies left of a cell of the row, so the next one is right of it, and when `CloseRow`
  fills the holes, no blank comes before a cell (`ClosesRow`).

`CellsParsed`, `RowParsed` and `TableParsed` carry this through the folds, and `CellShown` reads off the
grid where a text shows, since texts tell the cells apart.  Assumed is that spans are at least 1, as `_parse_span`
makes them, and that a cell's text is not the parser's `None` (`IsTable`).  For a wide cell beside
one from above and for a row without cells the property is false (section 3), and of two cells with one text, or a blank
one, it could not say which is which; `PlainTable` leaves these out.

Only model-checked: liveness (`SlotComesFree`, `RunsEnd`, `RequestEnds`, `SearchTabReturns`, and the fairness part
of `ImplementsLifecycle`), since it rests on `ENABLED`.  Every safety invariant and every action property of the passing
runs is stated by a theorem.

## 5. Plan

Done: `ReviewDocument`, `ReviewService`, `ReviewLifecycle`; `HeavySlot`; `IngestPipeline`;
`Collect`; `SearchCache`; `LlmEnrich`; `Extraction` with its parts; `OcrJobs`, `ReviewScreen`,
`SearchScreen`, `Screens`; the proofs of section 4.

Next, in this order:

1. The block viewer (`review/viewer.py`): saves from a page that is older than the document.
2. Keyword normalisation and relation scores, as further parts of the extraction.
3. The sweep of a full store of suggestion sessions, with several API processes.

## 6. What is not modelled

See the components with status `not_modelled` in `PROJECT.json`.  In short: the layout, OCR, structure and
embedding models themselves, the wording of prompts and answers, the docling and simple
backends and triage, keyword normalisation and relation scores, formatting (Excel,
pages), logging, settings and readiness checks.  Files of the review
workflow (uploads, page images, training export) are left out, so the
clean-up of `upload` is not covered.
