-------------------------- MODULE SearchCacheProofs --------------------------
(***************************************************************************)
(* What users are shown can be downloaded, exists, and is fresh but for a  *)
(* lapse, for any number of papers, keywords and users and every fault.    *)
(***************************************************************************)
EXTENDS SearchCache, TLAPS

\* A row of search_results keeps its papers, and is there before anything shows it.
ResultsHold == \A entry \in results : PapersIn(entry) \subseteq papers
SavedFirst == \A a \in Actors : task[a].at = "cache" => EntryOf(a) \in results

\* A run has its row while it stores, makes it once, and asks for default views only.
RunsHold == /\ \A p \in Papers :
                  /\ run[p].left \subseteq run[p].keywords
                  /\ run[p].at = "storing" => p \in papers
                  /\ run[p].at = "waiting" =>
                        p \notin papers /\ \A a \in Actors : task[a].primary # p
            /\ \A p \in Papers : task[p].at = "idle" \/ task[p].default

\* The primary of a task has the keyword, and no better paper came unnoticed.
FreshTasks ==
    \A a \in Actors : task[a].primary \in papers =>
        /\ <<task[a].primary, task[a].keyword>> \in links
        /\ a \notin overtaken => \A q \in PapersOf(task[a].keyword) : q <= task[a].primary

\* A better paper than the cached one is due to be warmed.
FreshCache ==
    \A k \in Keywords : cache[k] # Nothing =>
        /\ <<cache[k].primary, k>> \in links
        /\ k \notin lapsed =>
              \A q \in PapersOf(k) : k \notin Due(q) => q <= cache[k].primary

IInv == /\ TypeOK /\ ResultsHold /\ SavedFirst /\ RunsHold
        /\ GivenIsDownloadable /\ FreshTasks /\ FreshCache

-----------------------------------------------------------------------------
\* A step of a task, or of a run, changes nobody else's.
LEMMA EndTaskType ==
    ASSUME TypeOK, NEW a \in Actors, EndTask(a)
    PROVE  /\ run' \in [Papers -> Run] /\ task' \in [Actors -> Task]
           /\ \A p \in Papers : run'[p].at = run[p].at /\ run'[p].keywords = run[p].keywords
           /\ \A p \in Papers : p # a => run'[p] = run[p]
           /\ a \in Papers => run'[a].left = run[a].left \ {task[a].keyword}
           /\ task'[a] = NoTask
           /\ \A b \in Actors : b # a => task'[b] = task[b]
           /\ overtaken' = overtaken \ {a}
<1>1. task' \in [Actors -> Task]
  <2>1. NoTask \in Task
    BY DEF NoTask, Task
  <2> QED BY <2>1 DEF EndTask, TypeOK
<1>2. run' \in [Papers -> Run]
  <2>1. CASE a \in Papers
    <3>1. [run[a] EXCEPT !.left = @ \ {task[a].keyword}] \in Run
      BY <2>1 DEF TypeOK, Run
    <3> QED BY <2>1, <3>1 DEF EndTask, TypeOK
  <2>2. CASE a \notin Papers
    BY <2>2 DEF EndTask, TypeOK
  <2> QED BY <2>1, <2>2
<1>3. \A p \in Papers : run'[p].at = run[p].at /\ run'[p].keywords = run[p].keywords
  BY DEF EndTask, TypeOK, Run
<1>4. /\ \A p \in Papers : p # a => run'[p] = run[p]
      /\ a \in Papers => run'[a].left = run[a].left \ {task[a].keyword}
  BY DEF EndTask, TypeOK, Run
<1>5. /\ task'[a] = NoTask
      /\ \A b \in Actors : b # a => task'[b] = task[b]
      /\ overtaken' = overtaken \ {a}
  BY DEF EndTask, TypeOK
<1> QED BY <1>1, <1>2, <1>3, <1>4, <1>5

LEMMA EntryType ==
    ASSUME TypeOK, NEW a \in Actors, task[a].at \in {"result", "cache"}
    PROVE  EntryOf(a) \in Entry
BY NothingAssumption DEF TypeOK, Task, EntryOf, Entry

LEMMA ShowType ==
    ASSUME TypeOK, NEW a \in Actors, NEW entry \in Entry \union {Nothing}, Show(a, entry)
    PROVE  /\ answer' \in [Users -> Entry \union {Nothing}]
           /\ \A u \in Users : answer'[u] \in {answer[u], entry}
BY DEF TypeOK, Show

-----------------------------------------------------------------------------
LEMMA TaskTypes == ASSUME TypeOK PROVE NoTask \in Task /\ NoTask.at = "idle"
                                       /\ NoTask.keyword = Nothing /\ NoTask.primary = Nothing
BY DEF NoTask, Task

LEMMA TaskUpdates ==
    ASSUME NEW t \in Task, NEW p \in Papers \union {Nothing}
    PROVE  /\ [t EXCEPT !.at = "relate", !.primary = p] \in Task
           /\ [t EXCEPT !.at = "result", !.related = p] \in Task
<1>1. [t EXCEPT !.at = "relate"] \in Task /\ [t EXCEPT !.at = "result"] \in Task
  BY DEF Task
<1>2. \A s \in Task : [s EXCEPT !.primary = p] \in Task
  BY DEF Task
<1>3. \A s \in Task : [s EXCEPT !.related = p] \in Task
  BY DEF Task
<1> QED BY <1>1, <1>2, <1>3

LEMMA ResolveType == ASSUME TypeOK, NEW a \in Actors, Resolve(a) PROVE TypeOK'
<1> USE NothingAssumption DEF TypeOK, tables, history
<1>1. CASE Choose(a)
  <2>1. PICK p \in Papers :
            task' = [task EXCEPT ![a] = [@ EXCEPT !.at = "relate", !.primary = p]]
    BY <1>1 DEF Choose
  <2>2. [task[a] EXCEPT !.at = "relate", !.primary = p] \in Task
    BY TaskUpdates
  <2>3. /\ task' \in [Actors -> Task]
        /\ \A b \in Actors : b # a => task'[b] = task[b]
    BY <2>1, <2>2
  <2>4. task'[a].at = "relate" /\ task'[a].primary = p /\ task'[a].keyword = task[a].keyword
    BY <2>1 DEF Task
  <2>5. task[a].at = "choose"
    BY <1>1 DEF Choose
  <2> QED BY <1>1, <2>3, <2>4, <2>5 DEF Choose
<1>2. CASE Relate(a)
  <2>1. PICK q \in Papers \union {Nothing} :
            task' = [task EXCEPT ![a] = [@ EXCEPT !.at = "result", !.related = q]]
    BY <1>2 DEF Relate, Peers
  <2>2. [task[a] EXCEPT !.at = "result", !.related = q] \in Task
    BY TaskUpdates
  <2>3. /\ task' \in [Actors -> Task]
        /\ \A b \in Actors : b # a => task'[b] = task[b]
    BY <2>1, <2>2
  <2>4. /\ task'[a].at = "result" /\ task'[a].primary = task[a].primary
        /\ task'[a].keyword = task[a].keyword
    BY <2>1 DEF Task
  <2>5. task[a].at = "relate"
    BY <1>2 DEF Relate
  <2> QED BY <1>2, <2>3, <2>4, <2>5 DEF Relate
<1>3. CASE SaveResult(a)
  <2>1. results' \subseteq Entry /\ EntryOf(a) \in Entry
    BY <1>3, EntryType DEF SaveResult
  <2>2. CASE task[a].default
    <3>1. /\ task' \in [Actors -> Task]
          /\ task'[a].at = "cache" /\ task'[a].primary = task[a].primary
          /\ task'[a].keyword = task[a].keyword
          /\ \A b \in Actors : b # a => task'[b] = task[b]
      BY <1>3, <2>2 DEF SaveResult, Continue, Task
    <3> QED BY <1>3, <2>1, <2>2, <3>1 DEF SaveResult
  <2>3. CASE ~task[a].default
    <3>1. EndTask(a) /\ Show(a, EntryOf(a)) /\ UNCHANGED <<tables, cache, offered, lapsed>>
      BY <1>3, <2>3 DEF SaveResult
    <3>2. answer' \in [Users -> Entry \union {Nothing}]
      BY <2>1, <3>1, ShowType
    <3> QED BY <2>1, <3>1, <3>2, EndTaskType, TaskTypes
  <2> QED BY <2>2, <2>3
<1>4. CASE SaveCached(a)
  <2>1. EntryOf(a) \in Entry /\ task[a].keyword \in Keywords
    BY <1>4, EntryType DEF SaveCached, Task
  <2>2. answer' \in [Users -> Entry \union {Nothing}]
    BY <1>4, <2>1, ShowType DEF SaveCached
  <2>3. cache' \in [Keywords -> Entry \union {Nothing}] /\ lapsed' \subseteq Keywords
    BY <1>4, <2>1 DEF SaveCached
  <2>4. EndTask(a) /\ UNCHANGED <<tables, results, offered>>
    BY <1>4 DEF SaveCached
  <2> QED BY <2>2, <2>3, <2>4, EndTaskType, TaskTypes
<1>5. CASE NoPaperFound(a) \/ ResultRefused(a) \/ CallFails(a)
  <2>1. TaskFails(a) /\ task[a].at # "idle"
    BY <1>5 DEF NoPaperFound, ResultRefused, CallFails
  <2>2. EndTask(a) /\ lapsed' \subseteq Keywords
        /\ UNCHANGED <<tables, results, cache, offered, answer>>
    BY <2>1 DEF TaskFails, Task
  <2> QED BY <2>2, EndTaskType, TaskTypes
<1> QED BY <1>1, <1>2, <1>3, <1>4, <1>5 DEF Resolve

LEMMA RequestType ==
    ASSUME TypeOK, NEW u \in Users, Request(u)
    PROVE  TypeOK'
<1> USE DEF TypeOK, tables, history
<1>0. u \in Actors
  BY DEF Actors
<1>1. CASE ApiCrash(u)
  BY <1>0, <1>1, TaskTypes DEF ApiCrash
<1>2. ASSUME NEW k \in Keywords, AnswerFromCache(u, k) PROVE TypeOK'
  <2>1. u \in Actors /\ cache[k] \in Entry \union {Nothing} /\ Show(u, cache[k])
    BY <1>0, <1>2 DEF AnswerFromCache
  <2>2. answer' \in [Users -> Entry \union {Nothing}]
    BY <2>1, ShowType
  <2> QED BY <1>2, <2>2 DEF AnswerFromCache
<1>3. ASSUME NEW k \in Keywords, NEW default \in BOOLEAN, Compute(u, k, default)
      PROVE  TypeOK'
  <2>1. NewTask(k, default) \in Task
    BY DEF NewTask, NoTask, Task
  <2>2. /\ NewTask(k, default).at = "choose" /\ NewTask(k, default).keyword = k
        /\ NewTask(k, default).primary = Nothing
    BY DEF NewTask, NoTask
  <2> QED BY <1>0, <1>3, <2>1, <2>2, NothingAssumption DEF Compute
<1> QED BY <1>1, <1>2, <1>3 DEF Request

LEMMA RunType ==
    ASSUME TypeOK, RunsHold, NEW p \in Papers, RunStep(p)
    PROVE  TypeOK'
<1> USE DEF TypeOK, tables, history
<1>0. p \in Actors /\ run[p] \in Run /\ Due(p) \subseteq Keywords
  BY DEF Actors, Due, Run
<1>1. CASE Store(p)
  <2>1. PICK ks \in (SUBSET Keywords) \ {{}} :
            run' = [run EXCEPT ![p] = [at |-> "storing", keywords |-> ks, left |-> ks]]
    BY <1>1 DEF Store
  <2>2. [at |-> "storing", keywords |-> ks, left |-> ks] \in Run
    BY DEF Run
  <2>3. run' \in [Papers -> Run]
    BY <2>1, <2>2
  <2> QED BY <1>1, <2>3 DEF Store
<1>2. ASSUME NEW k \in Keywords, Link(p, k) PROVE TypeOK'
  <2>1. run' \in [Papers -> Run]
    <3>1. [run[p] EXCEPT !.left = @ \ {k}] \in Run
      BY <1>0 DEF Run
    <3> QED BY <1>2, <3>1 DEF Link
  <2>2. p \in papers
    BY <1>2 DEF Link, RunsHold
  <2> QED BY <1>2, <2>1, <2>2 DEF Link, HaveChosen
<1>3. CASE SaveRelations(p)
  <2>1. run' \in [Papers -> Run]
    <3>1. [run[p] EXCEPT !.at = "warming", !.left = run[p].keywords] \in Run
      BY <1>0 DEF Run
    <3> QED BY <1>3, <3>1 DEF SaveRelations
  <2>2. p \in papers
    BY <1>3 DEF SaveRelations, RunsHold
  <2>3. relations' \subseteq papers \X papers
    BY <1>3, <2>2 DEF SaveRelations
  <2> QED BY <1>3, <2>1, <2>3 DEF SaveRelations
<1>4. CASE Compensate(p)
  <2>1. [run[p] EXCEPT !.at = "failed"] \in Run
    BY <1>0 DEF Run
  <2>2. run' \in [Papers -> Run]
    BY <1>4, <2>1 DEF Compensate
  <2>3. links' \subseteq papers' \X Keywords /\ relations' \subseteq papers' \X papers'
    BY <1>4 DEF Compensate, DeleteRows
  <2>4. papers' \subseteq Papers
    BY <1>4 DEF Compensate, DeleteRows
  <2> QED BY <1>4, <2>2, <2>3, <2>4 DEF Compensate
<1>5. CASE CompensationFails(p) \/ WarmingFails(p)
  <2>1. [run[p] EXCEPT !.at = "failed"] \in Run
    BY <1>0 DEF Run
  <2> QED BY <1>0, <1>5, <2>1 DEF CompensationFails, WarmingFails
<1>6. ASSUME NEW k \in Keywords, Warm(p, k) PROVE TypeOK'
  <2>1. /\ NewTask(k, TRUE) \in Task
        /\ NewTask(k, TRUE).at = "choose" /\ NewTask(k, TRUE).keyword = k
        /\ NewTask(k, TRUE).primary = Nothing
    BY DEF NewTask, NoTask, Task
  <2> QED BY <1>0, <1>6, <2>1, NothingAssumption DEF Warm
<1>7. CASE EndRun(p)
  <2>1. [run[p] EXCEPT !.at = "complete"] \in Run
    BY <1>0 DEF Run
  <2> QED BY <1>7, <2>1 DEF EndRun
<1>8. CASE WorkerCrash(p)
  <2>1. [run[p] EXCEPT !.at = "dead"] \in Run
    BY <1>0 DEF Run
  <2> QED BY <1>0, <1>8, <2>1, TaskTypes DEF WorkerCrash
<1> QED BY <1>1, <1>2, <1>3, <1>4, <1>5, <1>6, <1>7, <1>8 DEF RunStep

-----------------------------------------------------------------------------
\* Only the refresh that a task of a run was for is no longer due when the task ends.
LEMMA DueAfterEnd ==
    ASSUME TypeOK, NEW a \in Actors, EndTask(a), NEW p \in Papers
    PROVE  Due(p) \ {task[a].keyword} \subseteq Due(p)' /\ (p # a => Due(p)' = Due(p))
<1>1. /\ run'[p].at = run[p].at /\ run'[p].keywords = run[p].keywords
      /\ run'[p].left \subseteq run[p].left
      /\ run[p].left \ {task[a].keyword} \subseteq run'[p].left
      /\ p # a => run'[p].left = run[p].left
  <2>1. CASE p = a
    BY <2>1, EndTaskType
  <2>2. CASE p # a
    BY <2>2, EndTaskType
  <2> QED BY <2>1, <2>2
<1> QED BY <1>1 DEF Due

LEMMA EndTaskSafe ==
    ASSUME IInv, NEW a \in Actors, EndTask(a), UNCHANGED <<papers, links>>,
           results \subseteq results'
    PROVE  SavedFirst' /\ RunsHold' /\ FreshTasks'
<1> USE DEF IInv
<1>1. /\ task'[a] = NoTask /\ \A b \in Actors : b # a => task'[b] = task[b]
      /\ overtaken' = overtaken \ {a}
      /\ \A p \in Papers : run'[p].at = run[p].at /\ run'[p].keywords = run[p].keywords
      /\ \A p \in Papers : run'[p].left \subseteq run[p].left
  <2>1. \A p \in Papers : run'[p].left \subseteq run[p].left
    BY EndTaskType
  <2> QED BY <2>1, EndTaskType
<1>2. SavedFirst'
  <2> SUFFICES ASSUME NEW b \in Actors, (task[b].at = "cache")' PROVE EntryOf(b)' \in results'
    BY DEF SavedFirst
  <2>1. b # a
    BY <1>1, TaskTypes
  <2>2. task'[b] = task[b]
    BY <1>1, <2>1
  <2> QED BY <2>2 DEF SavedFirst, EntryOf
<1>3. RunsHold'
  <2>1. \A p \in Papers : (run[p].left)' \subseteq (run[p].keywords)'
    BY <1>1 DEF RunsHold
  <2>2. \A p \in Papers : (run[p].at = "waiting")' => \A b \in Actors : task'[b].primary # p
    <3>1. \A b \in Actors : task'[b].primary \in {task[b].primary, Nothing}
      BY <1>1, TaskTypes
    <3> QED BY <1>1, <3>1, NothingAssumption DEF RunsHold
  <2>3. \A p \in Papers : (task[p].at = "idle" \/ task[p].default)'
    BY <1>1, TaskTypes DEF RunsHold, Actors
  <2> QED BY <1>1, <2>1, <2>2, <2>3 DEF RunsHold
<1>4. FreshTasks'
  <2> SUFFICES ASSUME NEW b \in Actors, (task[b].primary \in papers)'
               PROVE  /\ <<task'[b].primary, task'[b].keyword>> \in links
                      /\ b \notin overtaken' =>
                            \A q \in PapersOf(task'[b].keyword) : q <= task'[b].primary
    BY DEF FreshTasks, PapersOf
  <2>1. Nothing \notin papers
    BY NothingAssumption DEF TypeOK
  <2>2. b # a
    BY <1>1, <2>1, TaskTypes
  <2>3. task'[b] = task[b]
    BY <1>1, <2>2
  <2> QED BY <1>1, <2>2, <2>3 DEF FreshTasks
<1> QED BY <1>2, <1>3, <1>4

\* A step of a task that chooses, relates or saves the row of the default view
LEMMA TaskGoesOn ==
    ASSUME IInv, NEW a \in Actors, UNCHANGED <<papers, links, cache, run, answer, history>>,
           results \subseteq results', task' \in [Actors -> Task],
           \A b \in Actors : b # a => task'[b] = task[b],
           task'[a].at = "cache" => EntryOf(a)' \in results',
           task[a].at # "idle", task'[a].default = task[a].default,
           task'[a].keyword = task[a].keyword,
           \/ task'[a].primary = task[a].primary
           \/ IsBest(task'[a].primary, task[a].keyword)
    PROVE  SavedFirst' /\ RunsHold' /\ GivenIsDownloadable' /\ FreshTasks' /\ FreshCache'
<1> USE DEF IInv, history
<1>1. SavedFirst'
  <2> SUFFICES ASSUME NEW b \in Actors, (task[b].at = "cache")' PROVE EntryOf(b)' \in results'
    BY DEF SavedFirst
  <2>1. CASE b = a
    BY <2>1
  <2>2. CASE b # a
    BY <2>2 DEF SavedFirst, EntryOf
  <2> QED BY <2>1, <2>2
<1>2. RunsHold'
  <2>1. IsBest(task'[a].primary, task[a].keyword) => task'[a].primary \in papers
    BY DEF IsBest, PapersOf
  <2>2. \A p \in Papers : run[p].at = "waiting" => \A b \in Actors : task'[b].primary # p
    BY <2>1 DEF RunsHold
  <2>3. \A p \in Papers : task'[p].at = "idle" \/ task'[p].default
    BY DEF RunsHold, Actors
  <2> QED BY <2>2, <2>3 DEF RunsHold
<1>3. GivenIsDownloadable'
  BY DEF GivenIsDownloadable, Given
<1>4. FreshTasks'
  <2> SUFFICES ASSUME NEW b \in Actors, (task[b].primary \in papers)'
               PROVE  /\ <<task'[b].primary, task'[b].keyword>> \in links
                      /\ b \notin overtaken =>
                            \A q \in PapersOf(task'[b].keyword) : q <= task'[b].primary
    BY DEF FreshTasks, PapersOf
  <2>1. CASE task'[b].primary = task[b].primary /\ task'[b].keyword = task[b].keyword
    BY <2>1 DEF FreshTasks
  <2>2. CASE b = a /\ IsBest(task'[a].primary, task[a].keyword)
    BY <2>2 DEF IsBest, PapersOf
  <2> QED BY <2>1, <2>2
<1>5. FreshCache'
  BY DEF FreshCache, PapersOf, Due
<1> QED BY <1>1, <1>2, <1>3, <1>4, <1>5

LEMMA ResolveSafe ==
    ASSUME IInv, NEW a \in Actors, Resolve(a)
    PROVE  /\ ResultsHold' /\ SavedFirst' /\ RunsHold'
           /\ GivenIsDownloadable' /\ FreshTasks' /\ FreshCache'
<1> USE DEF IInv, tables, history
<1>0. TypeOK' /\ task' \in [Actors -> Task]
  BY ResolveType DEF TypeOK
<1>1. CASE Choose(a)
  <2>1. PICK p \in Papers :
            /\ IsBest(p, task[a].keyword)
            /\ task' = [task EXCEPT ![a] = [@ EXCEPT !.at = "relate", !.primary = p]]
    BY <1>1 DEF Choose
  <2>2. \A b \in Actors : b # a => task'[b] = task[b]
    BY <2>1 DEF TypeOK
  <2>3. /\ task'[a].at = "relate" /\ task'[a].primary = p
        /\ task'[a].keyword = task[a].keyword /\ task'[a].default = task[a].default
    BY <2>1 DEF TypeOK, Task
  <2>4. task[a].at = "choose" /\ UNCHANGED <<tables, results, cache, run, offered, answer, history>>
    BY <1>1 DEF Choose
  <2>5. IsBest(task'[a].primary, task[a].keyword)
    BY <2>1, <2>3
  <2>6. SavedFirst' /\ RunsHold' /\ GivenIsDownloadable' /\ FreshTasks' /\ FreshCache'
    BY <1>0, <2>2, <2>3, <2>4, <2>5, TaskGoesOn
  <2> QED BY <2>4, <2>6 DEF ResultsHold
<1>2. CASE Relate(a)
  <2>1. PICK q \in Papers \union {Nothing} :
            task' = [task EXCEPT ![a] = [@ EXCEPT !.at = "result", !.related = q]]
    BY <1>2 DEF Relate, Peers, TypeOK
  <2>2. \A b \in Actors : b # a => task'[b] = task[b]
    BY <2>1 DEF TypeOK
  <2>3. /\ task'[a].at = "result" /\ task'[a].primary = task[a].primary
        /\ task'[a].keyword = task[a].keyword /\ task'[a].default = task[a].default
    BY <2>1 DEF TypeOK, Task
  <2>4. task[a].at = "relate" /\ UNCHANGED <<tables, results, cache, run, offered, answer, history>>
    BY <1>2 DEF Relate
  <2>5. SavedFirst' /\ RunsHold' /\ GivenIsDownloadable' /\ FreshTasks' /\ FreshCache'
    BY <1>0, <2>2, <2>3, <2>4, TaskGoesOn
  <2> QED BY <2>4, <2>5 DEF ResultsHold
<1>3. CASE SaveResult(a)
  <2>1. /\ results' = results \union {EntryOf(a)} /\ PapersIn(EntryOf(a)) \subseteq papers
        /\ task[a].at = "result" /\ UNCHANGED <<tables, cache, offered, lapsed>>
    BY <1>3 DEF SaveResult
  <2>2. ResultsHold'
    BY <2>1 DEF ResultsHold
  <2>3. CASE task[a].default
    <3>1. task' = [task EXCEPT ![a].at = "cache"] /\ UNCHANGED <<run, answer, overtaken>>
      BY <1>3, <2>3 DEF SaveResult, Continue
    <3>2. \A b \in Actors : b # a => task'[b] = task[b]
      BY <3>1 DEF TypeOK
    <3>3. /\ task'[a].at = "cache" /\ task'[a].primary = task[a].primary
          /\ task'[a].keyword = task[a].keyword /\ task'[a].default = task[a].default
          /\ task'[a].related = task[a].related
      BY <3>1 DEF TypeOK, Task
    <3>4. EntryOf(a)' \in results'
      BY <2>1, <3>3 DEF EntryOf
    <3>5. SavedFirst' /\ RunsHold' /\ GivenIsDownloadable' /\ FreshTasks' /\ FreshCache'
      BY <1>0, <2>1, <3>1, <3>2, <3>3, <3>4, TaskGoesOn
    <3> QED BY <2>2, <3>5
  <2>4. CASE ~task[a].default
    <3>1. EndTask(a) /\ Show(a, EntryOf(a))
      BY <1>3, <2>4 DEF SaveResult
    <3>2. SavedFirst' /\ RunsHold' /\ FreshTasks'
      BY <2>1, <3>1, EndTaskSafe
    <3>3. a \notin Papers
      BY <2>1, <2>4 DEF RunsHold
    <3>4. \A p \in Papers : Due(p)' = Due(p)
      BY <3>1, <3>3, DueAfterEnd
    <3>5. FreshCache'
      BY <2>1, <3>4 DEF FreshCache, PapersOf, TypeOK
    <3>6. GivenIsDownloadable'
      BY <2>1, <3>1 DEF GivenIsDownloadable, Given, Show, TypeOK
    <3> QED BY <2>2, <3>2, <3>5, <3>6
  <2> QED BY <2>3, <2>4
<1>4. CASE SaveCached(a)
  <2>1. /\ EndTask(a) /\ Show(a, EntryOf(a)) /\ UNCHANGED <<tables, results, offered>>
        /\ task[a].at = "cache" /\ task[a].keyword \in Keywords
        /\ cache' = [cache EXCEPT ![task[a].keyword] = EntryOf(a)]
        /\ lapsed' = IF a \in overtaken THEN lapsed \union {task[a].keyword}
                     ELSE lapsed \ {task[a].keyword}
    BY <1>4 DEF SaveCached, TypeOK, Task
  <2>2. SavedFirst' /\ RunsHold' /\ FreshTasks'
    BY <2>1, EndTaskSafe
  <2>3. EntryOf(a) \in results
    BY <2>1 DEF SavedFirst
  <2>4. GivenIsDownloadable'
    BY <2>1, <2>3 DEF GivenIsDownloadable, Given, Show, TypeOK
  <2>5. FreshCache'
    <3> SUFFICES ASSUME NEW k \in Keywords, cache'[k] # Nothing
                 PROVE  /\ <<cache'[k].primary, k>> \in links
                        /\ k \notin lapsed' => \A q \in PapersOf(k) :
                              k \notin Due(q)' => q <= cache'[k].primary
      BY <2>1 DEF FreshCache, PapersOf
    <3>1. CASE k = task[a].keyword
      <4>1. cache'[k] = EntryOf(a) /\ EntryOf(a).primary = task[a].primary
        BY <2>1, <3>1 DEF EntryOf, TypeOK
      <4>2. task[a].primary \in papers
        <5>1. task[a].primary # Nothing
          BY <2>1 DEF TypeOK
        <5> QED BY <2>3, <5>1 DEF ResultsHold, PapersIn, EntryOf
      <4>3. k \notin lapsed' => a \notin overtaken
        BY <2>1, <3>1
      <4> QED BY <3>1, <4>1, <4>2, <4>3 DEF FreshTasks
    <3>2. CASE k # task[a].keyword
      <4>1. cache'[k] = cache[k] /\ (k \in lapsed' <=> k \in lapsed)
        BY <2>1, <3>2 DEF TypeOK
      <4>2. \A q \in Papers : k \notin Due(q)' => k \notin Due(q)
        BY <2>1, <3>2, DueAfterEnd
      <4>3. PapersOf(k) \subseteq Papers
        BY DEF PapersOf, TypeOK
      <4> QED BY <4>1, <4>2, <4>3 DEF FreshCache
    <3> QED BY <3>1, <3>2
  <2> QED BY <2>1, <2>2, <2>4, <2>5 DEF ResultsHold
<1>5. CASE NoPaperFound(a) \/ ResultRefused(a) \/ CallFails(a)
  <2>1. TaskFails(a)
    BY <1>5 DEF NoPaperFound, ResultRefused, CallFails
  <2>2. EndTask(a) /\ UNCHANGED <<tables, results, cache, offered, answer>>
    BY <2>1 DEF TaskFails
  <2>3. SavedFirst' /\ RunsHold' /\ FreshTasks'
    BY <2>2, EndTaskSafe
  <2>4. FreshCache'
    <3> SUFFICES ASSUME NEW k \in Keywords, cache[k] # Nothing, k \notin lapsed',
                        NEW q \in PapersOf(k), k \notin Due(q)'
                 PROVE  k \notin lapsed /\ k \notin Due(q)
      BY <2>2 DEF FreshCache, PapersOf
    <3>1. q \in Papers
      BY DEF PapersOf, TypeOK
    <3>2. k \notin lapsed /\ (a \in Papers => k # task[a].keyword)
      BY <2>1 DEF TaskFails
    <3> QED BY <2>2, <3>1, <3>2, DueAfterEnd
  <2>5. GivenIsDownloadable' /\ ResultsHold'
    BY <2>2 DEF GivenIsDownloadable, Given, ResultsHold
  <2> QED BY <2>3, <2>4, <2>5
<1> QED BY <1>1, <1>2, <1>3, <1>4, <1>5 DEF Resolve

-----------------------------------------------------------------------------
\* A task that starts or is dropped has no primary and nothing to save.
LEMMA TaskReset ==
    ASSUME IInv, NEW a \in Actors, NEW t \in Task, t.primary = Nothing, t.at \in {"idle", "choose"},
           t.at = "idle" \/ t.default \/ a \notin Papers,
           task' = [task EXCEPT ![a] = t], UNCHANGED <<papers, links, results>>,
           overtaken \ {a} \subseteq overtaken',
           \A p \in Papers : run'[p].keywords = run[p].keywords /\ run'[p].left = run[p].left
                             /\ (run'[p].at = run[p].at \/ run'[p].at = "dead")
    PROVE  SavedFirst' /\ RunsHold' /\ FreshTasks'
<1> USE DEF IInv
<1>1. task'[a] = t /\ \A b \in Actors : b # a => task'[b] = task[b]
  BY DEF TypeOK
<1>2. SavedFirst'
  <2> SUFFICES ASSUME NEW b \in Actors, (task[b].at = "cache")' PROVE EntryOf(b)' \in results
    BY DEF SavedFirst
  <2>1. task'[b] = task[b]
    BY <1>1
  <2> QED BY <2>1 DEF SavedFirst, EntryOf
<1>3. RunsHold'
  <2>1. \A b \in Actors : task'[b].primary \in {task[b].primary, Nothing}
    BY <1>1
  <2>2. \A p \in Papers : run'[p].at = "waiting" => \A b \in Actors : task'[b].primary # p
    BY <2>1, NothingAssumption DEF RunsHold
  <2>3. \A p \in Papers : task'[p].at = "idle" \/ task'[p].default
    BY <1>1 DEF RunsHold, Actors
  <2> QED BY <2>2, <2>3 DEF RunsHold
<1>4. FreshTasks'
  <2> SUFFICES ASSUME NEW b \in Actors, (task[b].primary \in papers)'
               PROVE  /\ <<task'[b].primary, task'[b].keyword>> \in links
                      /\ b \notin overtaken' =>
                            \A q \in PapersOf(task'[b].keyword) : q <= task'[b].primary
    BY DEF FreshTasks, PapersOf
  <2>1. b # a
    BY <1>1, NothingAssumption DEF TypeOK
  <2>2. task'[b] = task[b]
    BY <1>1, <2>1
  <2> QED BY <2>1, <2>2 DEF FreshTasks
<1> QED BY <1>2, <1>3, <1>4

LEMMA OfferKept == ASSUME IInv, NEW k \in Keywords, Suggest(k) \/ Expire(k) PROVE IInv'
<1>1. /\ UNCHANGED <<papers, links, relations, results, cache, run, task, answer, overtaken, lapsed>>
      /\ offered' \in {offered \union {k}, offered \ {k}}
  BY DEF Suggest, Expire, tables, history
<1>2. TypeOK'
  BY <1>1 DEF IInv, TypeOK
<1>3. ResultsHold' /\ SavedFirst' /\ RunsHold' /\ GivenIsDownloadable'
  BY <1>1 DEF IInv, ResultsHold, SavedFirst, EntryOf, RunsHold, GivenIsDownloadable, Given
<1>4. FreshTasks' /\ FreshCache'
  BY <1>1 DEF IInv, FreshTasks, FreshCache, PapersOf, Due
<1> QED BY <1>2, <1>3, <1>4 DEF IInv

LEMMA RequestSafe ==
    ASSUME IInv, NEW u \in Users, Request(u)
    PROVE  /\ ResultsHold' /\ SavedFirst' /\ RunsHold'
           /\ GivenIsDownloadable' /\ FreshTasks' /\ FreshCache'
<1> USE DEF IInv, tables, history
<1>0. u \in Actors /\ u \notin Papers
  BY UsersAssumption DEF Actors
<1>1. /\ UNCHANGED <<papers, links, results, cache, run, lapsed>> /\ ResultsHold' /\ FreshCache'
  <2>1. UNCHANGED <<papers, links, results, cache, run, lapsed>>
    BY DEF Request, ApiCrash, AnswerFromCache, Compute
  <2> QED BY <2>1 DEF ResultsHold, FreshCache, PapersOf, Due
<1>2. GivenIsDownloadable'
  <2>1. \A v \in Users : answer'[v] \in {answer[v]} \union {cache[k] : k \in Keywords}
    BY DEF Request, ApiCrash, AnswerFromCache, Compute, Show, TypeOK
  <2> QED BY <1>1, <2>1 DEF GivenIsDownloadable, Given
<1>3. CASE UNCHANGED <<task, overtaken>>
  <2>1. SavedFirst'
    BY <1>1, <1>3 DEF SavedFirst, EntryOf
  <2> QED BY <1>1, <1>2, <1>3, <2>1 DEF RunsHold, FreshTasks, PapersOf
<1>4. CASE ApiCrash(u)
  <2>1. task' = [task EXCEPT ![u] = NoTask] /\ overtaken' = overtaken \ {u}
    BY <1>4 DEF ApiCrash
  <2>2. SavedFirst' /\ RunsHold' /\ FreshTasks'
    BY <1>0, <1>1, <2>1, TaskTypes, TaskReset
  <2> QED BY <1>1, <1>2, <2>2
<1>5. ASSUME NEW k \in Keywords, NEW default \in BOOLEAN, Compute(u, k, default)
      PROVE  SavedFirst' /\ RunsHold' /\ FreshTasks'
  <2>1. task' = [task EXCEPT ![u] = NewTask(k, default)] /\ UNCHANGED overtaken
    BY <1>5 DEF Compute
  <2>2. /\ NewTask(k, default) \in Task /\ NewTask(k, default).primary = Nothing
        /\ NewTask(k, default).at = "choose"
    BY DEF NewTask, NoTask, Task
  <2> QED BY <1>0, <1>1, <2>1, <2>2, TaskReset
<1> QED BY <1>1, <1>2, <1>3, <1>4, <1>5 DEF Request, AnswerFromCache

\* Steps of a run that leave the tables of papers and keywords alone
LEMMA RunGoesOn ==
    ASSUME IInv, NEW p \in Papers, run[p].at \in {"storing", "warming"},
           UNCHANGED <<papers, links, results, cache, answer>>,
           \A q \in Papers : q # p => run'[q] = run[q],
           run'[p].at \in {"warming", "complete", "failed", "dead"},
           run'[p].left \subseteq run'[p].keywords,
           \A k \in Keywords : k \in lapsed' \/ (k \notin lapsed /\ (k \in Due(p) => k \in Due(p)')),
           \/ UNCHANGED <<task, overtaken>>
           \/ task' = [task EXCEPT ![p] = NoTask] /\ overtaken' = overtaken \ {p}
    PROVE  /\ ResultsHold' /\ SavedFirst' /\ RunsHold'
           /\ GivenIsDownloadable' /\ FreshTasks' /\ FreshCache'
<1> USE DEF IInv
<1>0. p \in Actors
  BY DEF Actors
<1>1. ResultsHold' /\ GivenIsDownloadable'
  BY DEF ResultsHold, GivenIsDownloadable, Given
<1>2. \A b \in Actors : \/ task'[b] = task[b] /\ (b \notin overtaken' => b \notin overtaken)
                        \/ task'[b] = NoTask
  BY DEF TypeOK
<1>3. SavedFirst'
  <2> SUFFICES ASSUME NEW b \in Actors, (task[b].at = "cache")' PROVE EntryOf(b)' \in results
    BY DEF SavedFirst
  <2>1. task'[b] = task[b]
    BY <1>2, TaskTypes
  <2> QED BY <2>1 DEF SavedFirst, EntryOf
<1>4. RunsHold'
  <2>1. \A b \in Actors : task'[b].primary \in {task[b].primary, Nothing}
    BY <1>2, TaskTypes
  <2>2. \A q \in Papers : run'[q].at = "waiting" => \A b \in Actors : task'[b].primary # q
    BY <2>1, NothingAssumption DEF RunsHold
  <2>3. \A q \in Papers : task'[q].at = "idle" \/ task'[q].default
    BY <1>2, TaskTypes DEF RunsHold, Actors
  <2> QED BY <2>2, <2>3 DEF RunsHold
<1>5. FreshTasks'
  <2> SUFFICES ASSUME NEW b \in Actors, (task[b].primary \in papers)'
               PROVE  /\ <<task'[b].primary, task'[b].keyword>> \in links
                      /\ b \notin overtaken' =>
                            \A q \in PapersOf(task'[b].keyword) : q <= task'[b].primary
    BY DEF FreshTasks, PapersOf
  <2>1. task'[b] = task[b] /\ (b \notin overtaken' => b \notin overtaken)
    BY <1>2, TaskTypes, NothingAssumption DEF TypeOK
  <2> QED BY <2>1 DEF FreshTasks
<1>6. FreshCache'
  <2> SUFFICES ASSUME NEW k \in Keywords, cache[k] # Nothing, k \notin lapsed',
                      NEW q \in PapersOf(k), k \notin Due(q)'
               PROVE  k \notin lapsed /\ k \notin Due(q)
    BY DEF FreshCache, PapersOf
  <2>1. q \in Papers
    BY DEF PapersOf, TypeOK
  <2>2. q # p => Due(q)' = Due(q)
    BY <2>1 DEF Due
  <2> QED BY <2>2
<1> QED BY <1>1, <1>3, <1>4, <1>5, <1>6

LEMMA StoreSafe ==
    ASSUME IInv, NEW p \in Papers, Store(p)
    PROVE  /\ ResultsHold' /\ SavedFirst' /\ RunsHold'
           /\ GivenIsDownloadable' /\ FreshTasks' /\ FreshCache'
<1> USE DEF IInv
<1>1. /\ run[p].at = "waiting" /\ papers' = papers \union {p}
      /\ UNCHANGED <<links, relations, results, cache, task, offered, answer, overtaken, lapsed>>
  BY DEF Store, history
<1>2. PICK ks \in (SUBSET Keywords) \ {{}} :
          run' = [run EXCEPT ![p] = [at |-> "storing", keywords |-> ks, left |-> ks]]
  BY DEF Store
<1>3. /\ run'[p].at = "storing" /\ run'[p].keywords = ks /\ run'[p].left = ks
      /\ \A q \in Papers : q # p => run'[q] = run[q]
  BY <1>2 DEF TypeOK
<1>4. p \notin papers /\ \A a \in Actors : task[a].primary # p
  BY <1>1 DEF RunsHold
<1>5. \A k \in Keywords : PapersOf(k)' = PapersOf(k)
  BY <1>1, <1>4 DEF PapersOf, TypeOK
<1>6. \A q \in Papers : Due(q)' = Due(q)
  BY <1>1, <1>3 DEF Due
<1>7. ResultsHold' /\ GivenIsDownloadable' /\ SavedFirst'
  BY <1>1 DEF ResultsHold, GivenIsDownloadable, Given, SavedFirst, EntryOf
<1>8. RunsHold'
  BY <1>1, <1>3 DEF RunsHold
<1>9. FreshTasks'
  <2> SUFFICES ASSUME NEW a \in Actors, (task[a].primary \in papers)'
               PROVE  /\ <<task[a].primary, task[a].keyword>> \in links
                      /\ a \notin overtaken =>
                            \A q \in PapersOf(task[a].keyword)' : q <= task[a].primary
    BY <1>1 DEF FreshTasks
  <2>1. task[a].primary \in papers
    BY <1>1, <1>4
  <2>2. task[a].keyword \in Keywords
    <3>1. task[a].primary # Nothing
      BY <2>1, NothingAssumption DEF TypeOK
    <3> QED BY <3>1 DEF TypeOK, Task
  <2> QED BY <1>1, <1>5, <2>1, <2>2 DEF FreshTasks
<1>10. FreshCache'
  <2>1. \A k \in Keywords : PapersOf(k) \subseteq Papers
    BY DEF PapersOf, TypeOK
  <2> QED BY <1>1, <1>5, <1>6, <2>1 DEF FreshCache
<1> QED BY <1>7, <1>8, <1>9, <1>10

LEMMA LinkSafe ==
    ASSUME IInv, NEW p \in Papers, NEW k \in Keywords, Link(p, k)
    PROVE  /\ ResultsHold' /\ SavedFirst' /\ RunsHold'
           /\ GivenIsDownloadable' /\ FreshTasks' /\ FreshCache'
<1> USE DEF IInv
<1>1. /\ run[p].at = "storing" /\ k \in run[p].left
      /\ links' = links \union {<<p, k>>} /\ overtaken' = overtaken \union HaveChosen(k)
      /\ UNCHANGED <<papers, relations, results, cache, task, offered, answer, lapsed>>
  BY DEF Link
<1>2. /\ run'[p].at = "storing" /\ run'[p].keywords = run[p].keywords
      /\ run'[p].left = run[p].left \ {k}
      /\ \A q \in Papers : q # p => run'[q] = run[q]
  <2>1. run' = [run EXCEPT ![p].left = @ \ {k}] /\ run[p] \in Run
    BY DEF Link, TypeOK
  <2> QED BY <1>1, <2>1 DEF TypeOK, Run
<1>3. ResultsHold' /\ GivenIsDownloadable' /\ SavedFirst'
  BY <1>1 DEF ResultsHold, GivenIsDownloadable, Given, SavedFirst, EntryOf
<1>4. RunsHold'
  BY <1>1, <1>2 DEF RunsHold
<1>5. \A j \in Keywords : j # k => PapersOf(j)' = PapersOf(j)
  BY <1>1 DEF PapersOf
<1>6. FreshTasks'
  <2> SUFFICES ASSUME NEW a \in Actors, (task[a].primary \in papers)'
               PROVE  /\ <<task[a].primary, task[a].keyword>> \in links'
                      /\ a \notin overtaken' =>
                            \A q \in PapersOf(task[a].keyword)' : q <= task[a].primary
    BY <1>1 DEF FreshTasks
  <2>1. task[a].primary \in papers /\ task[a].primary # Nothing
    BY <1>1, NothingAssumption DEF TypeOK
  <2>2. task[a].keyword \in Keywords /\ task[a].at # "choose"
    BY <2>1 DEF TypeOK, Task
  <2>3. <<task[a].primary, task[a].keyword>> \in links'
    BY <1>1, <2>1 DEF FreshTasks
  <2>4. ASSUME a \notin overtaken'
        PROVE  \A q \in PapersOf(task[a].keyword)' : q <= task[a].primary
    <3>1. a \notin overtaken /\ task[a].keyword # k
      BY <1>1, <2>2, <2>4 DEF HaveChosen
    <3>2. PapersOf(task[a].keyword)' = PapersOf(task[a].keyword)
      BY <1>1, <1>5, <2>2, <3>1
    <3> QED BY <2>1, <3>1, <3>2 DEF FreshTasks
  <2> QED BY <2>3, <2>4
<1>7. FreshCache'
  <2> SUFFICES ASSUME NEW j \in Keywords, cache[j] # Nothing
               PROVE  /\ <<cache[j].primary, j>> \in links'
                      /\ j \notin lapsed =>
                            \A q \in PapersOf(j)' : j \notin Due(q)' => q <= cache[j].primary
    BY <1>1 DEF FreshCache
  <2>1. <<cache[j].primary, j>> \in links'
    BY <1>1 DEF FreshCache
  <2>2. k \in Due(p)'
    BY <1>1, <1>2 DEF Due, RunsHold
  <2>3. \A q \in Papers : Due(q) \subseteq Due(q)'
    BY <1>1, <1>2 DEF Due
  <2>4. ASSUME NEW q \in PapersOf(j)', j \notin Due(q)'
        PROVE  q \in PapersOf(j) /\ j \notin Due(q)
    <3>1. q \in Papers /\ (q \in PapersOf(j) \/ (q = p /\ j = k))
      BY <1>1 DEF PapersOf, TypeOK
    <3> QED BY <2>2, <2>3, <2>4, <3>1
  <2> QED BY <2>1, <2>4 DEF FreshCache
<1> QED BY <1>3, <1>4, <1>6, <1>7

LEMMA CompensateSafe ==
    ASSUME IInv, NEW p \in Papers, Compensate(p)
    PROVE  /\ ResultsHold' /\ SavedFirst' /\ RunsHold'
           /\ GivenIsDownloadable' /\ FreshTasks' /\ FreshCache'
<1> USE DEF IInv
<1>1. /\ ~Shown(p) /\ papers' = papers \ {p} /\ links' = {l \in links : l[1] # p}
      /\ run' = [run EXCEPT ![p].at = "failed"]
      /\ UNCHANGED <<results, cache, task, offered, answer, overtaken, lapsed>>
  BY DEF Compensate, DeleteRows, history
<1>2. /\ run'[p].at = "failed" /\ run'[p].keywords = run[p].keywords
      /\ run'[p].left = run[p].left
      /\ \A q \in Papers : q # p => run'[q] = run[q]
  BY <1>1 DEF TypeOK, Run
<1>3. ResultsHold'
  BY <1>1 DEF ResultsHold, Shown
<1>4. GivenIsDownloadable' /\ SavedFirst'
  BY <1>1 DEF GivenIsDownloadable, Given, SavedFirst, EntryOf
<1>5. RunsHold'
  BY <1>1, <1>2 DEF RunsHold
<1>6. /\ \A q, k : <<q, k>> \in links /\ q # p => <<q, k>> \in links'
      /\ \A k : PapersOf(k)' \subseteq PapersOf(k) \ {p}
  <2>1. \A q, k : <<q, k>> \in links /\ q # p => <<q, k>> \in links'
    BY <1>1
  <2>2. papers' = papers \ {p} /\ links' \subseteq links
    BY <1>1
  <2> QED BY <2>1, <2>2 DEF PapersOf
<1>7. FreshTasks'
  <2> SUFFICES ASSUME NEW a \in Actors, (task[a].primary \in papers)'
               PROVE  /\ <<task[a].primary, task[a].keyword>> \in links'
                      /\ a \notin overtaken =>
                            \A q \in PapersOf(task[a].keyword)' : q <= task[a].primary
    BY <1>1 DEF FreshTasks
  <2>1. task[a].primary \in papers /\ task[a].primary # p
    BY <1>1
  <2>2. PapersOf(task[a].keyword)' \subseteq PapersOf(task[a].keyword)
    BY <1>1, <1>6 DEF PapersOf
  <2> QED BY <1>6, <2>1, <2>2 DEF FreshTasks
<1>8. FreshCache'
  <2> SUFFICES ASSUME NEW k \in Keywords, cache[k] # Nothing
               PROVE  /\ <<cache[k].primary, k>> \in links'
                      /\ k \notin lapsed =>
                            \A q \in PapersOf(k)' : k \notin Due(q)' => q <= cache[k].primary
    BY <1>1 DEF FreshCache
  <2>1. cache[k].primary # p
    <3>1. cache[k] \in results /\ cache[k].primary \in Papers
      BY DEF GivenIsDownloadable, Given, TypeOK, Entry
    <3> QED BY <1>1, <3>1, NothingAssumption DEF Shown, PapersIn
  <2>2. <<cache[k].primary, k>> \in links'
    BY <1>6, <2>1 DEF FreshCache
  <2>3. \A q \in PapersOf(k)' : q \in PapersOf(k) /\ Due(q)' = Due(q)
    <3>1. \A q \in Papers : q # p => Due(q)' = Due(q)
      BY <1>2 DEF Due
    <3>2. \A q \in PapersOf(k)' : q \in PapersOf(k) /\ q # p /\ q \in Papers
      BY <1>6 DEF PapersOf, TypeOK
    <3> QED BY <3>1, <3>2
  <2> QED BY <2>2, <2>3 DEF FreshCache
<1> QED BY <1>3, <1>4, <1>5, <1>7, <1>8

LEMMA RunSafe ==
    ASSUME IInv, NEW p \in Papers, RunStep(p)
    PROVE  /\ ResultsHold' /\ SavedFirst' /\ RunsHold'
           /\ GivenIsDownloadable' /\ FreshTasks' /\ FreshCache'
<1> USE DEF tables, history
<1>0. /\ TypeOK /\ RunsHold /\ p \in Actors /\ p \notin Users
      /\ run[p] \in Run /\ run[p].left \subseteq run[p].keywords
  BY UsersAssumption DEF IInv, TypeOK, RunsHold, Actors
<1>1. CASE SaveRelations(p)
  <2>1. /\ run[p].at = "storing" /\ run[p].left = {}
        /\ UNCHANGED <<papers, links, results, cache, task, answer, overtaken, lapsed>>
        /\ run' = [run EXCEPT ![p] = [@ EXCEPT !.at = "warming", !.left = run[p].keywords]]
    BY <1>1 DEF SaveRelations
  <2>2. /\ run'[p].at = "warming" /\ run'[p].left = run[p].keywords
        /\ run'[p].keywords = run[p].keywords
        /\ \A q \in Papers : q # p => run'[q] = run[q]
    BY <1>0, <2>1 DEF TypeOK, Run
  <2>3. Due(p)' = Due(p)
    BY <2>1, <2>2 DEF Due
  <2> QED BY <2>1, <2>2, <2>3, RunGoesOn
<1>2. CASE CompensationFails(p) \/ WarmingFails(p) \/ EndRun(p) \/ WorkerCrash(p)
  <2>1. /\ run[p].at \in {"storing", "warming"}
        /\ UNCHANGED <<papers, links, results, cache, answer>>
        /\ \/ UNCHANGED <<task, overtaken>>
           \/ task' = [task EXCEPT ![p] = NoTask] /\ overtaken' = overtaken \ {p}
    BY <1>2 DEF CompensationFails, RunFails, WarmingFails, EndRun, WorkerCrash
  <2>2. /\ run'[p].at \in {"complete", "failed", "dead"}
        /\ run'[p].left = run[p].left /\ run'[p].keywords = run[p].keywords
        /\ \A q \in Papers : q # p => run'[q] = run[q]
    BY <1>0, <1>2 DEF CompensationFails, WarmingFails, EndRun, WorkerCrash, TypeOK, Run
  <2>3. Due(p) \subseteq lapsed' /\ lapsed \subseteq lapsed'
    BY <1>2 DEF CompensationFails, WarmingFails, EndRun, WorkerCrash, Due
  <2>4. \A k \in Keywords : k \in lapsed' \/ (k \notin lapsed /\ (k \in Due(p) => k \in Due(p)'))
    BY <2>3
  <2> QED BY <1>0, <2>1, <2>2, <2>4, RunGoesOn
<1>3. ASSUME NEW k \in Keywords, Warm(p, k)
      PROVE  /\ ResultsHold' /\ SavedFirst' /\ RunsHold'
             /\ GivenIsDownloadable' /\ FreshTasks' /\ FreshCache'
  <2>1. /\ UNCHANGED <<papers, links, results, cache, run, answer, overtaken, lapsed>>
        /\ task' = [task EXCEPT ![p] = NewTask(k, TRUE)]
    BY <1>3 DEF Warm
  <2>2. /\ NewTask(k, TRUE) \in Task /\ NewTask(k, TRUE).primary = Nothing
        /\ NewTask(k, TRUE).at = "choose" /\ NewTask(k, TRUE).default
    BY DEF NewTask, NoTask, Task
  <2>3. SavedFirst' /\ RunsHold' /\ FreshTasks'
    BY <1>0, <2>1, <2>2, TaskReset
  <2>4. ResultsHold' /\ GivenIsDownloadable' /\ FreshCache'
    BY <2>1 DEF IInv, ResultsHold, GivenIsDownloadable, Given, FreshCache, PapersOf, Due
  <2> QED BY <2>3, <2>4
<1> QED BY <1>1, <1>2, <1>3, StoreSafe, LinkSafe, CompensateSafe DEF RunStep

-----------------------------------------------------------------------------
LEMMA Initial == Init => IInv
<1> SUFFICES ASSUME Init PROVE IInv
  OBVIOUS
<1>1. TypeOK
  <2>1. [at |-> "waiting", keywords |-> {}, left |-> {}] \in Run
    BY DEF Run
  <2> QED BY <2>1, TaskTypes DEF Init, TypeOK, NoTask, Task
<1>2. GivenIsDownloadable /\ ResultsHold /\ SavedFirst /\ FreshCache
  BY DEF Init, GivenIsDownloadable, Given, ResultsHold, SavedFirst, FreshCache, NoTask
<1>3. RunsHold /\ FreshTasks
  BY NothingAssumption DEF Init, RunsHold, FreshTasks, NoTask, Actors
<1> QED BY <1>1, <1>2, <1>3 DEF IInv

LEMMA Preserved == IInv /\ [Next]_vars => IInv'
<1> SUFFICES ASSUME IInv, [Next]_vars PROVE IInv'
  OBVIOUS
<1> USE DEF IInv
<1>1. ASSUME NEW a \in Actors, Resolve(a) PROVE IInv'
  BY <1>1, ResolveType, ResolveSafe
<1>2. ASSUME NEW u \in Users, Request(u) PROVE IInv'
  BY <1>2, RequestType, RequestSafe
<1>3. ASSUME NEW p \in Papers, RunStep(p) PROVE IInv'
  BY <1>3, RunType, RunSafe
<1>4. CASE UNCHANGED vars
  <2>1. UNCHANGED <<papers, links, relations, results, cache, run, task, offered, answer,
                    overtaken, lapsed>>
    BY <1>4 DEF vars, tables, history
  <2>2. TypeOK' /\ ResultsHold' /\ SavedFirst' /\ RunsHold' /\ GivenIsDownloadable'
    BY <2>1 DEF TypeOK, ResultsHold, SavedFirst, EntryOf, RunsHold, GivenIsDownloadable, Given
  <2>3. FreshTasks' /\ FreshCache'
    BY <2>1 DEF FreshTasks, FreshCache, PapersOf, Due
  <2> QED BY <2>2, <2>3
<1>5. ASSUME NEW k \in Keywords, Suggest(k) \/ Expire(k) PROVE IInv'
  BY <1>5, OfferKept
<1> QED BY <1>1, <1>2, <1>3, <1>4, <1>5 DEF Next

LEMMA Inductive == Spec => []IInv
BY Initial, Preserved, PTL DEF Spec

\* Every step of searches and runs keeps the state well-formed.
THEOREM SearchTypeCorrect == Spec => []TypeOK
BY Inductive, PTL DEF IInv

\* What was shown, or is cached to be shown, has its row of search_results and its file,
\* whatever call of resolve failed.
THEOREM GivenCanBeDownloaded == Spec => []GivenIsDownloadable
BY Inductive, PTL DEF IInv

\* No compensation deletes a paper that was shown or is cached.
THEOREM GivenPapersStay == Spec => []GivenPapersExist
<1>1. IInv => GivenPapersExist
  BY DEF IInv, GivenPapersExist, GivenIsDownloadable, ResultsHold
<1> QED BY <1>1, Inductive, PTL

\* A cached result that is not the best one awaits its refresh, or has lost it.
THEOREM CacheIsFresh == Spec => []FreshUnlessLapsed
<1>1. IInv => FreshUnlessLapsed
  <2> SUFFICES ASSUME IInv, NEW k \in Keywords \ lapsed, cache[k] # Nothing,
                      \A p \in Papers : k \notin Due(p)
               PROVE  IsBest(cache[k].primary, k)
    BY DEF FreshUnlessLapsed
  <2>1. <<cache[k].primary, k>> \in links /\ \A q \in PapersOf(k) : k \notin Due(q)
    BY DEF IInv, FreshCache, PapersOf, TypeOK
  <2>2. cache[k].primary \in PapersOf(k)
    BY <2>1 DEF IInv, TypeOK, PapersOf
  <2> QED BY <2>1, <2>2 DEF IInv, FreshCache, IsBest
<1> QED BY <1>1, Inductive, PTL
=============================================================================
