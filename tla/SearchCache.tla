----------------------------- MODULE SearchCache -----------------------------
(***************************************************************************)
(* SearchService.resolve (search/service.py): searches that compute a      *)
(* result or take it from keyword_result_cache, while papers are ingested  *)
(* and STEP 9 of their runs refreshes the cache (ingest/pipeline.py).      *)
(*                                                                         *)
(* A task is one call of resolve, by a user's request or by the run of a   *)
(* paper.  task[a].at is the transaction that comes next:                  *)
(*   choose   paper_keywords is read and the best paper is the primary     *)
(*   relate   paper_relations is read for a related paper                  *)
(*   result   the Excel file is written, and a row of search_results       *)
(*   cache    the default view is stored in keyword_result_cache           *)
(* Language model and embedding calls lie in between.                      *)
(*                                                                         *)
(* Abstractions.  A paper is a number, and the higher number is the better *)
(* one for each of its keywords.  Any peer may be the top relation.        *)
(* Matching a query is a free choice of a keyword; summaries and section   *)
(* filters are left out.  IngestPipeline has the runs in detail.           *)
(***************************************************************************)
EXTENDS Naturals, FiniteSets

CONSTANTS
    Papers,    \* the papers to be ingested, and their runs
    Keywords,
    Users,     \* requests that are answered at the same time
    Nothing,
    Faults     \* what may go wrong

FaultKinds == {"search",   \* a call that resolve makes fails
               "run",      \* STEP 4 to 8 of a run fails, or the job row that opens STEP 9
               "crash"}    \* a worker or an API process dies

ASSUME PapersAssumption == Papers \subseteq Nat /\ IsFiniteSet(Papers)
ASSUME UsersAssumption == Users \cap Papers = {}
ASSUME NothingAssumption == Nothing \notin Papers \union Keywords
ASSUME FaultsAssumption == Faults \subseteq FaultKinds

VARIABLES
    papers,     \* the papers table
    links,      \* paper_keywords: <<paper, keyword>>
    relations,  \* paper_relations: <<source, related>>
    results,    \* search_results, with their Excel files
    cache,      \* keyword_result_cache
    run,        \* IngestPipeline.run of each paper
    task,       \* the call of resolve in progress, of each user and run
    offered,    \* keywords that unexpired suggestion sessions offer
    answer,     \* what each user was last shown
    overtaken,  \* history: tasks that chose before a paper with their keyword came
    lapsed      \* history: keywords whose refresh failed or was undone
tables == <<papers, links, relations>>
history == <<overtaken, lapsed>>
vars == <<tables, results, cache, run, task, offered, answer, history>>

Actors == Users \union Papers
Entry == [keyword: Keywords, primary: Papers, related: Papers \union {Nothing}]

\* keywords: what the run has linked or will link; left: those still to be linked or warmed
Run == [at: {"waiting", "storing", "warming", "complete", "failed", "dead"},
        keywords: SUBSET Keywords, left: SUBSET Keywords]
Task == [at: {"idle", "choose", "relate", "result", "cache"},
         keyword: Keywords \union {Nothing}, default: BOOLEAN,
         primary: Papers \union {Nothing}, related: Papers \union {Nothing}]

TypeOK == /\ papers \subseteq Papers
          /\ links \subseteq papers \X Keywords
          /\ relations \subseteq papers \X papers
          /\ results \subseteq Entry
          /\ cache \in [Keywords -> Entry \union {Nothing}]
          /\ run \in [Papers -> Run]
          /\ task \in [Actors -> Task]
          /\ \A a \in Actors : (task[a].keyword = Nothing) <=> (task[a].at = "idle")
          /\ \A a \in Actors : (task[a].primary = Nothing) <=> (task[a].at \in {"idle", "choose"})
          /\ offered \subseteq Keywords
          /\ answer \in [Users -> Entry \union {Nothing}]
          /\ overtaken \subseteq Actors /\ lapsed \subseteq Keywords

NoTask == [at |-> "idle", keyword |-> Nothing, default |-> FALSE,
           primary |-> Nothing, related |-> Nothing]

Init == /\ papers = {} /\ links = {} /\ relations = {} /\ results = {}
        /\ cache = [k \in Keywords |-> Nothing]
        /\ run = [p \in Papers |-> [at |-> "waiting", keywords |-> {}, left |-> {}]]
        /\ task = [a \in Actors |-> NoTask]
        /\ offered = {}
        /\ answer = [u \in Users |-> Nothing]
        /\ overtaken = {} /\ lapsed = {}

PapersOf(k) == {p \in papers : <<p, k>> \in links}
Peers(p) == {q \in papers : <<p, q>> \in relations \/ <<q, p>> \in relations}
IsBest(p, k) == p \in PapersOf(k) /\ \A q \in PapersOf(k) : q <= p

-----------------------------------------------------------------------------
(* resolve *)

NewTask(k, default) == [NoTask EXCEPT !.at = "choose", !.keyword = k, !.default = default]
Continue(a, at) == task' = [task EXCEPT ![a].at = at]

\* A run turns to its next keyword whether or not this one was warmed.
EndTask(a) ==
    /\ task' = [task EXCEPT ![a] = NoTask]
    /\ run' = IF a \in Papers THEN [run EXCEPT ![a].left = @ \ {task[a].keyword}] ELSE run
    /\ overtaken' = overtaken \ {a}
Show(a, entry) == answer' = IF a \in Users THEN [answer EXCEPT ![a] = entry] ELSE answer
\* A user sees an error; a run goes on (except Exception: continue).
TaskFails(a) ==
    /\ EndTask(a)
    /\ lapsed' = IF a \in Papers THEN lapsed \union {task[a].keyword} ELSE lapsed
    /\ UNCHANGED <<tables, results, cache, offered, answer>>

\* _select_primary
Choose(a) ==
    /\ task[a].at = "choose"
    /\ \E p \in Papers :
        /\ IsBest(p, task[a].keyword)
        /\ task' = [task EXCEPT ![a] = [@ EXCEPT !.at = "relate", !.primary = p]]
    /\ UNCHANGED <<tables, results, cache, run, offered, answer, history>>
\* SearchNoPaperFound
NoPaperFound(a) ==
    task[a].at = "choose" /\ PapersOf(task[a].keyword) = {} /\ TaskFails(a)

\* top_relation and paper_meta, unless another view leaves the related paper out
Relate(a) ==
    /\ task[a].at = "relate"
    /\ LET peers == Peers(task[a].primary) IN
       \E q \in IF peers = {} THEN {Nothing}
                ELSE peers \union (IF task[a].default THEN {} ELSE {Nothing}) :
           task' = [task EXCEPT ![a] = [@ EXCEPT !.at = "result", !.related = q]]
    /\ UNCHANGED <<tables, results, cache, run, offered, answer, history>>

EntryOf(a) == [keyword |-> task[a].keyword, primary |-> task[a].primary,
               related |-> task[a].related]
PapersIn(entry) == {entry.primary, entry.related} \ {Nothing}

\* Wrong on purpose: no row for what goes to the cache.
CacheInstead(a) ==
    /\ task[a].at = "result" /\ task[a].default
    /\ Continue(a, "cache")
    /\ UNCHANGED <<tables, results, cache, run, offered, answer, history>>
\* save_result: the row refers to its papers, so they must exist.
SaveResult(a) ==
    /\ task[a].at = "result" /\ PapersIn(EntryOf(a)) \subseteq papers
    /\ results' = results \union {EntryOf(a)}
    /\ IF task[a].default
       THEN Continue(a, "cache") /\ UNCHANGED <<run, answer, overtaken>>
       ELSE EndTask(a) /\ Show(a, EntryOf(a))
    /\ UNCHANGED <<tables, cache, offered, lapsed>>
ResultRefused(a) ==
    task[a].at = "result" /\ ~(PapersIn(EntryOf(a)) \subseteq papers) /\ TaskFails(a)

\* save_cached_keyword_result
SaveCached(a) ==
    /\ task[a].at = "cache"
    /\ cache' = [cache EXCEPT ![task[a].keyword] = EntryOf(a)]
    /\ EndTask(a) /\ Show(a, EntryOf(a))
    /\ lapsed' = IF a \in overtaken THEN lapsed \union {task[a].keyword}
                 ELSE lapsed \ {task[a].keyword}
    /\ UNCHANGED <<tables, results, offered>>

CallFails(a) == "search" \in Faults /\ task[a].at # "idle" /\ TaskFails(a)

-----------------------------------------------------------------------------
(* Requests of users *)

\* No exact match: a session offers keywords that have papers.
Suggest(k) ==
    /\ PapersOf(k) # {}
    /\ offered' = offered \union {k}
    /\ UNCHANGED <<tables, results, cache, run, task, answer, history>>
\* The session expires, or its API process restarts.
Expire(k) ==
    /\ offered' = offered \ {k}
    /\ UNCHANGED <<tables, results, cache, run, task, answer, history>>

\* An exact match needs a paper now, a selection needed one when it was offered.
Asks(u, k) == task[u] = NoTask /\ (PapersOf(k) # {} \/ k \in offered)

AnswerFromCache(u, k) ==
    /\ Asks(u, k) /\ cache[k] # Nothing
    /\ Show(u, cache[k])
    /\ UNCHANGED <<tables, results, cache, run, task, offered, history>>
Compute(u, k, default) ==
    /\ Asks(u, k) /\ (default => cache[k] = Nothing)
    /\ task' = [task EXCEPT ![u] = NewTask(k, default)]
    /\ UNCHANGED <<tables, results, cache, run, offered, answer, history>>

ApiCrash(u) ==
    /\ "crash" \in Faults /\ task[u].at # "idle"
    /\ task' = [task EXCEPT ![u] = NoTask] /\ overtaken' = overtaken \ {u}
    /\ UNCHANGED <<tables, results, cache, run, offered, answer, lapsed>>

-----------------------------------------------------------------------------
(* Runs of IngestPipeline *)

\* STEP 1 to 7, up to the paper's embedding
Store(p) ==
    /\ run[p].at = "waiting"
    /\ \E ks \in (SUBSET Keywords) \ {{}} :
        run' = [run EXCEPT ![p] = [at |-> "storing", keywords |-> ks, left |-> ks]]
    /\ papers' = papers \union {p}
    /\ UNCHANGED <<links, relations, results, cache, task, offered, answer, history>>

HaveChosen(k) == {a \in Actors : task[a].keyword = k /\ task[a].at # "choose"}

\* link_paper_keyword.  From here on the cached result may be stale, until STEP 9 has
\* refreshed it; a task that chose without this paper may still undo the refresh.
Link(p, k) ==
    /\ run[p].at = "storing" /\ k \in run[p].left
    /\ links' = links \union {<<p, k>>}
    /\ run' = [run EXCEPT ![p].left = @ \ {k}]
    /\ overtaken' = overtaken \union HaveChosen(k)
    /\ UNCHANGED <<papers, relations, results, cache, task, offered, answer, lapsed>>

\* STEP 8 with its job row, after which the run is not compensated any more
SaveRelations(p) ==
    /\ run[p].at = "storing" /\ run[p].left = {}
    /\ \E peers \in SUBSET (papers \ {p}) : relations' = relations \union ({p} \X peers)
    /\ run' = [run EXCEPT ![p] = [@ EXCEPT !.at = "warming", !.left = run[p].keywords]]
    /\ UNCHANGED <<papers, links, results, cache, task, offered, answer, history>>

RunFails(p) == "run" \in Faults /\ run[p].at = "storing"
Shown(p) == \E entry \in results : p \in PapersIn(entry)
\* Links and relations are deleted in cascade.
DeleteRows(p) ==
    /\ papers' = papers \ {p}
    /\ links' = {l \in links : l[1] # p}
    /\ relations' = {r \in relations : p \notin {r[1], r[2]}}

\* Wrong on purpose: the rows that refer to the paper are left.
CompensateNoCascade(p) ==
    /\ RunFails(p) /\ ~Shown(p)
    /\ papers' = papers \ {p}
    /\ run' = [run EXCEPT ![p].at = "failed"]
    /\ UNCHANGED <<links, relations, results, cache, task, offered, answer, history>>
\* Wrong on purpose: search_results is deleted in cascade, too.
CompensateShown(p) ==
    /\ RunFails(p) /\ DeleteRows(p)
    /\ results' = {entry \in results : p \notin PapersIn(entry)}
    /\ run' = [run EXCEPT ![p].at = "failed"]
    /\ UNCHANGED <<cache, task, offered, answer, history>>
Compensate(p) ==
    /\ RunFails(p) /\ ~Shown(p) /\ DeleteRows(p)
    /\ run' = [run EXCEPT ![p].at = "failed"]
    /\ UNCHANGED <<results, cache, task, offered, answer, history>>

\* Keywords whose refresh by this run is still due
Due(p) == CASE run[p].at = "storing" -> run[p].keywords \ run[p].left
            [] run[p].at = "warming" -> run[p].left
            [] OTHER -> {}

\* search_results has no cascade: the paper stays.
CompensationFails(p) ==
    /\ RunFails(p) /\ Shown(p)
    /\ run' = [run EXCEPT ![p].at = "failed"]
    /\ lapsed' = lapsed \union Due(p)
    /\ UNCHANGED <<tables, results, cache, task, offered, answer, overtaken>>

\* Wrong on purpose: a cached result is not refreshed.
WarmIfMissing(p, k) ==
    /\ run[p].at = "warming" /\ k \in run[p].left /\ task[p] = NoTask
    /\ IF cache[k] = Nothing
       THEN task' = [task EXCEPT ![p] = NewTask(k, TRUE)] /\ UNCHANGED run
       ELSE run' = [run EXCEPT ![p].left = @ \ {k}] /\ UNCHANGED task
    /\ UNCHANGED <<tables, results, cache, offered, answer, history>>
\* precompute_keyword_cache (force_refresh)
Warm(p, k) ==
    /\ run[p].at = "warming" /\ k \in run[p].left /\ task[p] = NoTask
    /\ task' = [task EXCEPT ![p] = NewTask(k, TRUE)]
    /\ UNCHANGED <<tables, results, cache, run, offered, answer, history>>

\* The job row that opens STEP 9 fails, outside any try: no keyword is warmed.
WarmingFails(p) ==
    /\ "run" \in Faults /\ run[p].at = "warming"
    /\ run[p].left = run[p].keywords /\ task[p] = NoTask
    /\ run' = [run EXCEPT ![p].at = "failed"]
    /\ lapsed' = lapsed \union Due(p)
    /\ UNCHANGED <<tables, results, cache, task, offered, answer, overtaken>>

EndRun(p) ==
    /\ run[p].at = "warming" /\ run[p].left = {}
    /\ run' = [run EXCEPT ![p].at = "complete"]
    /\ UNCHANGED <<tables, results, cache, task, offered, answer, history>>

WorkerCrash(p) ==
    /\ "crash" \in Faults /\ run[p].at \in {"storing", "warming"}
    /\ run' = [run EXCEPT ![p].at = "dead"]
    /\ task' = [task EXCEPT ![p] = NoTask] /\ overtaken' = overtaken \ {p}
    /\ lapsed' = lapsed \union Due(p)
    /\ UNCHANGED <<tables, results, cache, offered, answer>>

-----------------------------------------------------------------------------
Resolve(a) == \/ Choose(a) \/ NoPaperFound(a) \/ Relate(a) \/ SaveResult(a)
              \/ ResultRefused(a) \/ SaveCached(a) \/ CallFails(a)
Request(u) == \/ ApiCrash(u)
              \/ \E k \in Keywords : AnswerFromCache(u, k)
              \/ \E k \in Keywords, default \in BOOLEAN : Compute(u, k, default)
RunStep(p) == \/ Store(p) \/ SaveRelations(p) \/ Compensate(p) \/ CompensationFails(p)
              \/ WarmingFails(p) \/ EndRun(p) \/ WorkerCrash(p)
              \/ \E k \in Keywords : Link(p, k) \/ Warm(p, k)

Next == \/ \E a \in Actors : Resolve(a)
        \/ \E k \in Keywords : Suggest(k) \/ Expire(k)
        \/ \E u \in Users : Request(u)
        \/ \E p \in Papers : RunStep(p)

Spec == Init /\ [][Next]_vars

-----------------------------------------------------------------------------
Given == {cache[k] : k \in Keywords} \union {answer[u] : u \in Users}

\* What users were shown, and what the cache will show them, can be downloaded: its row
\* of search_results exists, whichever step of a task failed (result_excel_path).
GivenIsDownloadable == Given \ {Nothing} \subseteq results

\* And it names papers that exist, although failed runs delete theirs while searches
\* are under way, and the JSON in the cache refers to no table (migration 0003).
GivenPapersExist == \A entry \in Given \ {Nothing} : PapersIn(entry) \subseteq papers

\* The cached result has the best paper of its keyword, except while a run that linked
\* the keyword has still to refresh it, or when that refresh failed or was undone by a
\* task that had chosen before; any later computation mends it (STEP 9).
FreshUnlessLapsed ==
    \A k \in Keywords \ lapsed :
        cache[k] # Nothing /\ (\A p \in Papers : k \notin Due(p)) =>
            IsBest(cache[k].primary, k)
=============================================================================
