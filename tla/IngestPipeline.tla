---------------------------- MODULE IngestPipeline ---------------------------
(***************************************************************************)
(* IngestPipeline.run (ingest/pipeline.py) over PostgresIngestRepository   *)
(* (ingest/repository.py): several papers ingested at the same time.       *)
(*                                                                         *)
(* Each repository method is one transaction, so each is one step here     *)
(* (the two UPDATEs of the papers row are one step, so are the tables).    *)
(* upsert_keyword is two: what it decides from its SELECTs, and its write. *)
(* A run ingests one paper, and the paper is named after the run.          *)
(*                                                                         *)
(* Abstractions.  Texts and scores are left out.  The embedding of a       *)
(* keyword is told by its name: the spellings of one normalized keyword    *)
(* are taken to have the same.  Any row that is similar enough may be the  *)
(* nearest.  A paper has any non-empty set of Keywords, stored in any      *)
(* order, and any embedded papers may be its best relations.  The two      *)
(* SELECTs of upsert_keyword are taken together.  What STEP 9 computes is  *)
(* left out, its job rows are not.                                         *)
(***************************************************************************)
EXTENDS Naturals, FiniteSets

CONSTANTS
    Runs,
    Keywords,   \* normalized keywords
    Similar,    \* pairs of keywords above keyword_alias_similarity_threshold
    NoKeyword, NoPaper,
    Faults,     \* what may go wrong: a subset of FaultKinds
    Searches    \* whether users search meanwhile

FaultKinds == {"action", "job_row", "delete", "crash"}

ASSUME RunsAssumption == IsFiniteSet(Runs)
ASSUME KeywordsAssumption == IsFiniteSet(Keywords) /\ Keywords # {}
ASSUME SimilarAssumption == Similar \subseteq Keywords \X Keywords
ASSUME NoKeywordAssumption == NoKeyword \notin Keywords
ASSUME NoPaperAssumption == NoPaper \notin Runs
ASSUME FaultsAssumption == Faults \subseteq FaultKinds
ASSUME SearchesAssumption == Searches \in BOOLEAN

VARIABLES
    run,         \* the control state of each run
    papers,      \* the papers table, and of each paper
    embedded,    \*   whether its embedding is stored
    paragraphs,  \*   whether its paragraphs are stored
    links,       \* paper_keywords: <<paper, keyword row>>
    relations,   \* paper_relations: <<source, related>>
    frequency,   \* keywords: the row's frequency, 0 if there is no such row
    vector,      \* keywords: the name whose embedding the row has, or NoKeyword
    alias,       \* keyword_aliases: the row an alias stands for, or NoKeyword
    jobs,        \* processing_jobs
    shown        \* papers that a row of search_results refers to
vars == <<run, papers, embedded, paragraphs, links, relations, frequency, vector, alias,
          jobs, shown>>
paperTables == <<papers, embedded, paragraphs, links, relations>>
keywordTables == <<frequency, vector, alias>>

Ended == {"complete", "failed", "crashed"}
Finding == {"same", "similar", "new"}   \* how upsert_keyword is going to end
Places == {"start", "body", "embedded", "keywords", "linking", "related",
           "finish", "cleanup"} \union Finding \union Ended

(***************************************************************************)
(* stage 1..9    at    where it is inside the stage                        *)
(* keywords      what STEP 6 selects                                       *)
(* left          keywords still to be stored                               *)
(* name, row     the keyword being stored and its row in keywords          *)
(* related       the candidates read in STEP 8                             *)
(***************************************************************************)
RunState == [stage: 1..9, at: Places, keywords: SUBSET Keywords, left: SUBSET Keywords,
             name: Keywords \union {NoKeyword}, row: Keywords \union {NoKeyword},
             related: SUBSET Runs]

\* a row names its paper once save_paper has returned, no paper (NULL) before
JobRow == [paper: Runs \union {NoPaper}, stage: 1..9, status: {"running", "done", "failed"}]

TypeOK == /\ run \in [Runs -> RunState]
          /\ papers \subseteq Runs /\ embedded \subseteq papers /\ paragraphs \subseteq papers
          /\ links \subseteq papers \X Keywords
          /\ relations \subseteq papers \X papers
          /\ frequency \in [Keywords -> Nat]
          /\ vector \in [Keywords -> Keywords \union {NoKeyword}]
          /\ alias \in [Keywords -> Keywords \union {NoKeyword}]
          /\ jobs \subseteq JobRow
          /\ shown \subseteq papers

Init == /\ \E chosen \in [Runs -> (SUBSET Keywords) \ {{}}] :
             run = [r \in Runs |-> [stage |-> 1, at |-> "start",
                                   keywords |-> chosen[r], left |-> chosen[r],
                                   name |-> NoKeyword, row |-> NoKeyword, related |-> {}]]
        /\ papers = {} /\ embedded = {} /\ paragraphs = {} /\ links = {} /\ relations = {}
        /\ frequency = [k \in Keywords |-> 0]
        /\ vector = [k \in Keywords |-> NoKeyword]
        /\ alias = [k \in Keywords |-> NoKeyword]
        /\ jobs = {} /\ shown = {}

-----------------------------------------------------------------------------
(* stage(): a row before, a row after, the action in between. *)

InStage(r, s, at) == run[r].stage = s /\ run[r].at = at
GoTo(r, at) == run' = [run EXCEPT ![r].at = at]

\* set_job_stage
PaperId(r) == IF r \in papers THEN r ELSE NoPaper
Record(r, status) ==
    jobs' = jobs \union {[paper |-> PaperId(r), stage |-> run[r].stage, status |-> status]}

BeginStage(r) ==
    /\ run[r].at = "start"
    /\ GoTo(r, "body") /\ Record(r, "running")
    /\ UNCHANGED <<paperTables, keywordTables, shown>>

\* (the row of STEP 9 says "failed" when some keyword could not be warmed)
FinishStage(r) ==
    /\ run[r].at = "finish"
    /\ IF run[r].stage = 9
       THEN GoTo(r, "complete")
       ELSE run' = [run EXCEPT ![r].stage = @ + 1, ![r].at = "start"]
    /\ Record(r, "done") \/ (run[r].stage = 9 /\ Record(r, "failed"))
    /\ UNCHANGED <<paperTables, keywordTables, shown>>

\* Wrong on purpose: STEP 9 is inside the try, too.
AfterErrorLate(r) == IF run[r].stage \in 4..9 THEN "cleanup" ELSE "failed"
\* Wrong on purpose: STEP 8 is outside of it.
AfterErrorEarly(r) == IF run[r].stage \in 4..7 THEN "cleanup" ELSE "failed"
\* Where an exception leads: STEP 4 to 8 are inside the try that compensates.
AfterError(r) == IF run[r].stage \in 4..8 THEN "cleanup" ELSE "failed"

\* stage() records the failure of its action, unless that fails as well.
Raise(r) ==
    /\ GoTo(r, AfterError(r))
    /\ Record(r, "failed") \/ ("job_row" \in Faults /\ UNCHANGED jobs)
    /\ UNCHANGED <<paperTables, keywordTables, shown>>

\* The action of any STEP may raise; in STEP 9 errors are swallowed.
ActionFails(r) ==
    /\ "action" \in Faults
    /\ run[r].at \notin {"start", "finish", "cleanup"} \union Ended
    /\ run[r].stage # 9
    /\ Raise(r)

\* set_job_stage raises before or after the action: no failure is recorded.
JobRowFails(r) ==
    /\ "job_row" \in Faults
    /\ run[r].at \in {"start", "finish"}
    /\ GoTo(r, AfterError(r))
    /\ UNCHANGED <<jobs, paperTables, keywordTables, shown>>

-----------------------------------------------------------------------------
(* The actions of the stages. *)

\* STEP 1, 2, 4, 5, 6 and 9 write none of these tables.
Compute(r) ==
    /\ run[r].at = "body" /\ run[r].stage \in {1, 2, 4, 5, 6, 9}
    /\ GoTo(r, "finish")
    /\ UNCHANGED <<paperTables, keywordTables, jobs, shown>>

SavePaper(r) ==
    /\ InStage(r, 3, "body") /\ GoTo(r, "finish")
    /\ papers' = papers \union {r}
    /\ UNCHANGED <<embedded, paragraphs, links, relations, keywordTables, jobs, shown>>

\* _embed_and_persist: update_paper_embedding and update_paper_enrichment, ...
SaveEmbedding(r) ==
    /\ InStage(r, 7, "body") /\ GoTo(r, "embedded")
    /\ embedded' = embedded \union {r}
    /\ UNCHANGED <<papers, paragraphs, links, relations, keywordTables, jobs, shown>>

\* ... save_paragraphs, ...
SaveParagraphs(r) ==
    /\ InStage(r, 7, "embedded") /\ GoTo(r, "keywords")
    /\ paragraphs' = paragraphs \union {r}
    /\ UNCHANGED <<papers, embedded, links, relations, keywordTables, jobs, shown>>

\* ... for each keyword upsert_keyword, first the SELECTs: the row or the alias of
\* that name, else a row similar enough, else nothing, ...
Rows == {k \in Keywords : frequency[k] > 0}
SameName(k) == {k, alias[k]} \cap Rows
SimilarRows(k) == {x \in Rows : vector[x] = k \/ <<k, vector[x]>> \in Similar}

Find(r, k, how, row) ==
    run' = [run EXCEPT ![r].at = how, ![r].name = k, ![r].row = row, ![r].left = @ \ {k}]

\* Wrong on purpose: the nearest row, however near it is.
FindNearest(r) ==
    /\ InStage(r, 7, "keywords")
    /\ \E k \in run[r].left :
        \/ \E x \in SameName(k) : Find(r, k, "same", x)
        \/ SameName(k) = {} /\ \E x \in Rows : Find(r, k, "similar", x)
        \/ Rows = {} /\ Find(r, k, "new", k)
    /\ UNCHANGED <<paperTables, keywordTables, jobs, shown>>
FindKeyword(r) ==
    /\ InStage(r, 7, "keywords")
    /\ \E k \in run[r].left :
        \/ \E x \in SameName(k) : Find(r, k, "same", x)
        \/ SameName(k) = {} /\ \E x \in SimilarRows(k) : Find(r, k, "similar", x)
        \/ SameName(k) \union SimilarRows(k) = {} /\ Find(r, k, "new", k)
    /\ UNCHANGED <<paperTables, keywordTables, jobs, shown>>

\* Wrong on purpose: the row is used, but the name does not become an alias of it.
UseRowOnly(r) ==
    /\ run[r].at \in {"same", "similar"}
    /\ GoTo(r, "linking")
    /\ frequency' = [frequency EXCEPT ![run[r].row] = @ + 1]
    /\ vector' = IF run[r].at = "same" THEN [vector EXCEPT ![run[r].row] = run[r].name]
                 ELSE vector
    /\ UNCHANGED <<paperTables, alias, jobs, shown>>
\* ... then the write: count one more use of the row; its embedding becomes that of the
\* name, its own or an alias, that was found, or a name only similar becomes an alias, ...
UseRow(r) ==
    /\ GoTo(r, "linking")
    /\ frequency' = [frequency EXCEPT ![run[r].row] = @ + 1]
    /\ \/ /\ run[r].at = "same"
          /\ vector' = [vector EXCEPT ![run[r].row] = run[r].name]
          /\ UNCHANGED alias
       \/ /\ run[r].at = "similar"
          /\ alias' = [alias EXCEPT ![run[r].name] = run[r].row]
          /\ UNCHANGED vector
    /\ UNCHANGED <<paperTables, jobs, shown>>

\* ... or insert a new row, ...
InsertRow(r) ==
    /\ run[r].at = "new" /\ run[r].name \notin Rows
    /\ GoTo(r, "linking")
    /\ frequency' = [frequency EXCEPT ![run[r].name] = 1]
    /\ vector' = [vector EXCEPT ![run[r].name] = run[r].name]
    /\ UNCHANGED <<paperTables, alias, jobs, shown>>

\* (somebody else inserted the keyword first: the UNIQUE constraint raises)
InsertCollides(r) ==
    /\ run[r].at = "new" /\ run[r].name \in Rows
    /\ Raise(r)

\* Wrong on purpose: the paper is linked to the keyword's own name.
LinkName(r) ==
    /\ InStage(r, 7, "linking") /\ GoTo(r, "keywords")
    /\ links' = links \union {<<r, run[r].name>>}
    /\ UNCHANGED <<papers, embedded, paragraphs, relations, keywordTables, jobs, shown>>
\* ... and link_paper_keyword, ...
LinkKeyword(r) ==
    /\ InStage(r, 7, "linking") /\ GoTo(r, "keywords")
    /\ links' = links \union {<<r, run[r].row>>}
    /\ UNCHANGED <<papers, embedded, paragraphs, relations, keywordTables, jobs, shown>>

\* ... and the tables.
SaveTables(r) ==
    /\ InStage(r, 7, "keywords") /\ run[r].left = {}
    /\ GoTo(r, "finish")
    /\ UNCHANGED <<paperTables, keywordTables, jobs, shown>>

\* _build_and_save_relations: the best of the candidates, and save_relations
FindRelated(r) ==
    /\ InStage(r, 8, "body")
    /\ \E best \in SUBSET (embedded \ {r}) :
        run' = [run EXCEPT ![r].at = "related", ![r].related = best]
    /\ UNCHANGED <<paperTables, keywordTables, jobs, shown>>

SaveRelations(r) ==
    /\ InStage(r, 8, "related") /\ run[r].related \subseteq papers
    /\ GoTo(r, "finish")
    /\ relations' = relations \union ({r} \X run[r].related)
    /\ UNCHANGED <<papers, embedded, paragraphs, links, keywordTables, jobs, shown>>

\* (a candidate has been deleted meanwhile: the foreign key raises)
RelatedIsGone(r) ==
    /\ InStage(r, 8, "related") /\ ~(run[r].related \subseteq papers)
    /\ Raise(r)

-----------------------------------------------------------------------------
(* Compensation: delete_paper and what the foreign keys make of it. *)

\* Wrong on purpose: the rows that refer to the paper are kept.
DeletePaperOnly(r) ==
    /\ run[r].at = "cleanup" /\ GoTo(r, "failed")
    /\ papers' = papers \ {r} /\ embedded' = embedded \ {r} /\ paragraphs' = paragraphs \ {r}
    /\ UNCHANGED <<links, relations, jobs, keywordTables, shown>>
DeletePaper(r) ==
    /\ run[r].at = "cleanup" /\ r \notin shown
    /\ GoTo(r, "failed")
    /\ papers' = papers \ {r}
    /\ embedded' = embedded \ {r}
    /\ paragraphs' = paragraphs \ {r}
    /\ links' = {l \in links : l[1] # r}
    /\ relations' = {e \in relations : r \notin {e[1], e[2]}}
    /\ jobs' = {j \in jobs : j.paper # r}
    /\ UNCHANGED <<keywordTables, shown>>

\* Wrong on purpose: the delete is repeated until it works.
RetryDelete(r) == run[r].at = "cleanup" /\ UNCHANGED vars
\* search_results refers to papers without a cascade; or the transaction fails.
DeleteFails(r) ==
    /\ run[r].at = "cleanup"
    /\ r \in shown \/ "delete" \in Faults
    /\ GoTo(r, "failed")
    /\ UNCHANGED <<paperTables, keywordTables, jobs, shown>>

Crash(r) ==
    /\ "crash" \in Faults /\ run[r].at \notin Ended
    /\ GoTo(r, "crashed")
    /\ UNCHANGED <<paperTables, keywordTables, jobs, shown>>

\* SearchService.search saves a result row for the paper it found by a keyword and
\* possibly a paper related to it.
Search == \E l \in links : \E other \in papers :
    /\ Searches
    /\ other = l[1] \/ <<l[1], other>> \in relations \/ <<other, l[1]>> \in relations
    /\ shown' = shown \union {l[1], other}
    /\ UNCHANGED <<run, paperTables, keywordTables, jobs>>

-----------------------------------------------------------------------------
Work(r) == \/ BeginStage(r) \/ FinishStage(r) \/ ActionFails(r) \/ JobRowFails(r)
           \/ Compute(r) \/ SavePaper(r) \/ SaveEmbedding(r) \/ SaveParagraphs(r)
           \/ FindKeyword(r) \/ UseRow(r) \/ InsertRow(r) \/ InsertCollides(r)
           \/ LinkKeyword(r) \/ SaveTables(r)
           \/ FindRelated(r) \/ SaveRelations(r) \/ RelatedIsGone(r)
           \/ DeletePaper(r) \/ DeleteFails(r)

Next == (\E r \in Runs : Work(r) \/ Crash(r)) \/ Search

Spec == Init /\ [][Next]_vars

\* The worker executes the run it has taken; LLM, OCR and embedding calls time out.
Fairness == \A r \in Runs : WF_vars(Work(r))
=============================================================================
