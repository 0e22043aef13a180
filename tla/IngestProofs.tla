---------------------------- MODULE IngestProofs -----------------------------
(***************************************************************************)
(* What a run of the ingestion leaves behind, for any number of runs,      *)
(* keywords and faults.                                                    *)
(*                                                                         *)
(* CompletePaper speaks of STEP 9; what each earlier stage guarantees to   *)
(* the next is Sound.  That other runs do not undo it rests on Earlier: a  *)
(* related paper has been embedded, so it was saved long ago and cannot    *)
(* come (back) into papers without a relation.                             *)
(*                                                                         *)
(* The other results each add what the rows of a run owe to its place:     *)
(* TypedFacts its types, JobFacts what its job row tells, HalfFacts which  *)
(* half-stored papers have a cause, KeywordFacts that what it has found of *)
(* a keyword is its kin, NameFacts that it has the keyword's name if no    *)
(* other run writes meanwhile, FrequencyFacts that a count is ahead of its *)
(* links by the runs about to link.                                        *)
(***************************************************************************)
EXTENDS IngestProperties, FiniteSetTheorems, TLAPS

Related(r) == {r} \X (run[r].related \cap papers) \subseteq relations

\* what the stage and place of a run say about its rows
Sound(r) ==
    /\ run[r].at = "cleanup" => run[r].stage \in 4..8
    /\ run[r].stage = 3 /\ run[r].at = "finish" => r \in papers
    /\ run[r].stage \in 4..8 /\ run[r].at # "failed" => r \in papers
    /\ run[r].stage = 7 /\ run[r].at = "embedded" => r \in embedded
    /\ run[r].stage = 7 /\ run[r].at \in {"keywords", "linking", "finish"} \union Finding
         => r \in embedded /\ r \in paragraphs
    /\ run[r].stage = 8 /\ run[r].at # "failed" => r \in embedded /\ r \in paragraphs
    /\ run[r].stage = 9 => r \in papers /\ r \in embedded /\ r \in paragraphs
    /\ (run[r].stage = 8 /\ run[r].at = "finish") \/ run[r].stage = 9 => Related(r)

Earlier == /\ embedded \subseteq {q \in Runs : run[q].stage >= 7}
           /\ \A r \in Runs : run[r].related \subseteq {q \in Runs : run[q].stage >= 7}

TypeRun == run \in [Runs -> RunState]
IInv == TypeRun /\ Earlier /\ \A r \in Runs : Sound(r)

\* A step of one run keeps the types, and only ever moves that run forward.
LEMMA OwnStep ==
    ASSUME TypeRun, Earlier, NEW q \in Runs, Work(q) \/ Crash(q)
    PROVE  /\ TypeRun'
           /\ run'[q].stage >= run[q].stage
           /\ \A r \in Runs \ {q} : run'[r] = run[r]
           /\ run'[q].related \subseteq run[q].related \union embedded
           /\ embedded' \subseteq embedded \union {q}
           /\ q \in embedded' \ embedded => run[q].stage = 7
<1> USE DEF TypeRun, RunState, Places, Ended, Finding, GoTo, paperTables, keywordTables
<1>0. run[q] \in RunState
  OBVIOUS
<1>1. CASE BeginStage(q)
  BY <1>0, <1>1 DEF BeginStage
<1>2. CASE FinishStage(q)
  <2>1. CASE run[q].stage = 9
    BY <1>0, <1>2, <2>1 DEF FinishStage
  <2>2. CASE run[q].stage # 9
    BY <1>0, <1>2, <2>2 DEF FinishStage
  <2> QED BY <2>1, <2>2
<1>3. CASE ActionFails(q) \/ InsertCollides(q) \/ RelatedIsGone(q) \/ JobRowFails(q)
  BY <1>0, <1>3 DEF ActionFails, InsertCollides, RelatedIsGone, JobRowFails, Raise, AfterError
<1>4. CASE Compute(q) \/ SavePaper(q) \/ SaveEmbedding(q) \/ SaveParagraphs(q)
  BY <1>0, <1>4 DEF Compute, SavePaper, SaveEmbedding, SaveParagraphs, InStage
<1>5. CASE FindKeyword(q)
  <2>1. PICK k \in run[q].left, how \in Finding, x \in Keywords : Find(q, k, how, x)
    BY <1>0, <1>5 DEF FindKeyword, SameName, SimilarRows, Rows
  <2>2. embedded' = embedded
    BY <1>5 DEF FindKeyword
  <2> DEFINE s == [run[q] EXCEPT !.at = how, !.name = k, !.row = x, !.left = run[q].left \ {k}]
  <2>3. run' = [run EXCEPT ![q] = s]
    BY <1>0, <2>1 DEF Find
  <2>4. s \in RunState /\ s.stage = run[q].stage /\ s.related = run[q].related
    BY <1>0
  <2> HIDE DEF s
  <2> QED BY <1>0, <2>2, <2>3, <2>4
<1>6. CASE UseRow(q) \/ InsertRow(q) \/ LinkKeyword(q) \/ SaveTables(q)
  BY <1>0, <1>6 DEF UseRow, InsertRow, LinkKeyword, SaveTables
<1>7. CASE FindRelated(q)
  <2>1. PICK best \in SUBSET (embedded \ {q}) :
          run' = [run EXCEPT ![q].at = "related", ![q].related = best]
    BY <1>7 DEF FindRelated
  <2> DEFINE s == [run[q] EXCEPT !.at = "related", !.related = best]
  <2>2. run' = [run EXCEPT ![q] = s] /\ embedded' = embedded
    BY <1>0, <1>7, <2>1 DEF FindRelated
  <2>3. s \in RunState /\ s.stage = run[q].stage /\ s.related = best
    BY <1>0, <2>1 DEF Earlier
  <2>4. best \subseteq embedded
    BY <2>1
  <2> HIDE DEF s
  <2>5. run' \in [Runs -> RunState] /\ run'[q] = s /\ \A r \in Runs \ {q} : run'[r] = run[r]
    BY <2>2, <2>3
  <2>6. run[q].stage \in 1..9
    BY <1>0
  <2> QED BY <2>2, <2>3, <2>4, <2>5, <2>6
<1>8. CASE SaveRelations(q)
  BY <1>0, <1>8 DEF SaveRelations
<1>9. CASE DeletePaper(q) \/ DeleteFails(q) \/ Crash(q)
  BY <1>0, <1>9 DEF DeletePaper, DeleteFails, Crash
<1> QED BY <1>1, <1>2, <1>3, <1>4, <1>5, <1>6, <1>7, <1>8, <1>9 DEF Work

\* A step of one run leaves the rows of another paper alone.
LEMMA OthersKept ==
    ASSUME Earlier, NEW q \in Runs, NEW r \in Runs \ {q}, Work(q) \/ Crash(q)
    PROVE  /\ r \in papers' <=> r \in papers
           /\ r \in embedded' <=> r \in embedded
           /\ r \in paragraphs' <=> r \in paragraphs
           /\ {r} \X (run[r].related \cap papers) \subseteq relations
                => {r} \X (run[r].related \cap papers') \subseteq relations'
<1> USE DEF paperTables, Raise
<1>1. CASE SavePaper(q)
  <2>1. q \notin run[r].related
    BY <1>1 DEF SavePaper, InStage, Earlier
  <2> QED BY <1>1, <2>1 DEF SavePaper
<1>2. CASE SaveEmbedding(q) \/ SaveParagraphs(q) \/ LinkKeyword(q) \/ SaveRelations(q)
  BY <1>2 DEF SaveEmbedding, SaveParagraphs, LinkKeyword, SaveRelations
<1>3. CASE DeletePaper(q)
  BY <1>3 DEF DeletePaper
<1>4. CASE \/ BeginStage(q) \/ FinishStage(q) \/ ActionFails(q) \/ JobRowFails(q)
           \/ Compute(q) \/ FindKeyword(q) \/ UseRow(q) \/ InsertRow(q)
           \/ InsertCollides(q) \/ SaveTables(q) \/ FindRelated(q)
           \/ RelatedIsGone(q) \/ DeleteFails(q) \/ Crash(q)
  <2>1. UNCHANGED <<papers, embedded, paragraphs, relations>>
    BY <1>4 DEF BeginStage, FinishStage, ActionFails, JobRowFails, Compute, FindKeyword,
                UseRow, InsertRow, InsertCollides, SaveTables, FindRelated, RelatedIsGone,
                DeleteFails, Crash
  <2> QED BY <2>1
<1> QED BY <1>1, <1>2, <1>3, <1>4 DEF Work

\* A step of a run establishes what its new stage and place say.
LEMMA OwnSound ==
    ASSUME TypeRun, Earlier, NEW q \in Runs, Sound(q), Work(q) \/ Crash(q)
    PROVE  Sound(q)'
<1> USE DEF Sound, TypeRun, RunState, Places, Ended, Finding, GoTo, InStage, paperTables
<1>0. run[q] \in RunState
  OBVIOUS
<1>1. CASE BeginStage(q)
  BY <1>0, <1>1 DEF BeginStage, Related
<1>2. CASE FinishStage(q)
  <2>1. CASE run[q].stage = 9
    BY <1>0, <1>2, <2>1 DEF FinishStage, Related
  <2>2. CASE run[q].stage # 9
    BY <1>0, <1>2, <2>2 DEF FinishStage, Related
  <2> QED BY <2>1, <2>2
<1>3. CASE ActionFails(q) \/ InsertCollides(q) \/ RelatedIsGone(q) \/ JobRowFails(q)
  BY <1>0, <1>3
     DEF ActionFails, InsertCollides, RelatedIsGone, JobRowFails, Raise, AfterError, Related
<1>4. CASE Compute(q) \/ SavePaper(q) \/ SaveEmbedding(q) \/ SaveParagraphs(q)
  BY <1>0, <1>4 DEF Compute, SavePaper, SaveEmbedding, SaveParagraphs, Related
<1>5. CASE FindKeyword(q)
  <2>1. PICK k \in run[q].left, how \in Finding, x \in Keywords : Find(q, k, how, x)
    BY <1>0, <1>5 DEF FindKeyword, SameName, SimilarRows, Rows
  <2>2. run[q].stage = 7 /\ run'[q].stage = 7 /\ run'[q].at = how /\ run[q].at = "keywords"
    BY <1>0, <1>5, <2>1 DEF Find, FindKeyword
  <2>3. UNCHANGED <<papers, embedded, paragraphs>>
    BY <1>5 DEF FindKeyword
  <2> QED BY <2>2, <2>3
<1>6. CASE UseRow(q) \/ InsertRow(q) \/ LinkKeyword(q) \/ SaveTables(q)
  BY <1>0, <1>6 DEF UseRow, InsertRow, LinkKeyword, SaveTables, Related
<1>7. CASE FindRelated(q)
  <2>1. run[q].stage = 8 /\ run'[q].stage = 8 /\ run[q].at = "body" /\ run'[q].at = "related"
    BY <1>0, <1>7 DEF FindRelated
  <2>2. UNCHANGED <<papers, embedded, paragraphs>>
    BY <1>7 DEF FindRelated
  <2> QED BY <2>1, <2>2
<1>8. CASE SaveRelations(q)
  BY <1>0, <1>8 DEF SaveRelations, Related
<1>9. CASE DeletePaper(q) \/ DeleteFails(q) \/ Crash(q)
  BY <1>0, <1>9 DEF DeletePaper, DeleteFails, Crash, Related
<1> QED BY <1>1, <1>2, <1>3, <1>4, <1>5, <1>6, <1>7, <1>8, <1>9 DEF Work

LEMMA IInvInit == Init => IInv
<1> SUFFICES ASSUME Init PROVE IInv
  OBVIOUS
<1>1. PICK chosen \in [Runs -> (SUBSET Keywords) \ {{}}] :
        run = [r \in Runs |-> [stage |-> 1, at |-> "start",
                              keywords |-> chosen[r], left |-> chosen[r],
                              name |-> NoKeyword, row |-> NoKeyword, related |-> {}]]
  BY DEF Init
<1>2. TypeRun
  BY <1>1 DEF TypeRun, RunState, Places
<1>3. embedded = {} /\ \A r \in Runs : run[r].stage = 1 /\ run[r].at = "start" /\ run[r].related = {}
  BY <1>1 DEF Init
<1> QED BY <1>2, <1>3 DEF IInv, Earlier, Sound

LEMMA IInvNext == IInv /\ [Next]_vars => IInv'
<1> SUFFICES ASSUME IInv, [Next]_vars PROVE IInv'
  OBVIOUS
<1>1. ASSUME NEW q \in Runs, Work(q) \/ Crash(q) PROVE IInv'
  <2>1. /\ TypeRun' /\ run'[q].stage >= run[q].stage
        /\ \A r \in Runs \ {q} : run'[r] = run[r]
        /\ run'[q].related \subseteq run[q].related \union embedded
        /\ embedded' \subseteq embedded \union {q}
        /\ q \in embedded' \ embedded => run[q].stage = 7
    BY <1>1, OwnStep DEF IInv
  <2>2. \A r \in Runs : run[r].stage \in Nat /\ run'[r].stage \in Nat
                        /\ run'[r].stage >= run[r].stage
    BY <2>1 DEF IInv, TypeRun, RunState
  <2>3. Earlier'
    BY <2>1, <2>2 DEF IInv, Earlier
  <2>4. ASSUME NEW r \in Runs PROVE Sound(r)'
    <3>1. CASE r = q
      BY <1>1, <3>1, OwnSound DEF IInv
    <3>2. CASE r # q
      BY <1>1, <2>1, <3>2, OthersKept DEF IInv, Sound, Related
    <3> QED BY <3>1, <3>2
  <2> QED BY <2>1, <2>3, <2>4 DEF IInv
<1>2. CASE Search \/ UNCHANGED vars
  BY <1>2 DEF Search, vars, paperTables, IInv, TypeRun, Earlier, Sound, Related
<1> QED BY <1>1, <1>2 DEF Next

\* A paper whose run has come through STEP 8 is stored completely and stays so, whatever
\* happens in STEP 9 and to other papers, however many there are
\* (IngestPipeline.run keeps STEP 9 outside the try that compensates).
THEOREM PaperStaysComplete == Spec => []CompletePaper
<1>1. IInv => CompletePaper
  BY DEF IInv, Sound, Related, CompletePaper
<1> QED BY <1>1, IInvInit, IInvNext, PTL DEF Spec

-----------------------------------------------------------------------------
(* Types, and what the tables say of each run. *)

\* A run that is storing a keyword is in STEP 7, and knows the keyword; from the moment it
\* has found the row it knows the row.
Storing == Finding \union {"linking"}
Naming(r) == /\ run[r].at \in Storing => /\ run[r].stage = 7
                                         /\ run[r].name \in Keywords
                                         /\ run[r].row \in Keywords
             /\ run[r].at = "related" => run[r].stage = 8

\* Tables refer to papers that are there.
Tables == /\ papers \subseteq Runs /\ embedded \subseteq papers /\ paragraphs \subseteq papers
          /\ links \subseteq papers \X Keywords
          /\ relations \subseteq papers \X papers
          /\ shown \subseteq papers
KeywordTables == /\ frequency \in [Keywords -> Nat]
                 /\ vector \in [Keywords -> Keywords \union {NoKeyword}]
                 /\ alias \in [Keywords -> Keywords \union {NoKeyword}]
JobTable == /\ jobs \subseteq JobRow
            /\ \A j \in jobs : j.paper \in papers \union {NoPaper}

Typed == Tables /\ KeywordTables /\ JobTable /\ \A r \in Runs : Naming(r)

LEMMA NamingStep ==
    ASSUME TypeRun, TypeRun', NEW q \in Runs, Naming(q), Work(q) \/ Crash(q)
    PROVE  Naming(q)'
<1> USE DEF Naming, Storing, TypeRun, RunState, Finding, Ended, GoTo, InStage
<1>0. run[q] \in RunState
  OBVIOUS
<1>1. CASE BeginStage(q) \/ Compute(q) \/ SavePaper(q) \/ SaveEmbedding(q) \/ SaveParagraphs(q)
  BY <1>0, <1>1 DEF BeginStage, Compute, SavePaper, SaveEmbedding, SaveParagraphs
<1>2. CASE FinishStage(q)
  BY <1>0, <1>2 DEF FinishStage
<1>3. CASE ActionFails(q) \/ InsertCollides(q) \/ RelatedIsGone(q) \/ JobRowFails(q)
  BY <1>0, <1>3 DEF ActionFails, InsertCollides, RelatedIsGone, JobRowFails, Raise, AfterError
<1>4. CASE FindKeyword(q)
  <2>1. PICK k \in run[q].left, how \in Finding, x \in Keywords : Find(q, k, how, x)
    BY <1>0, <1>4 DEF FindKeyword, SameName, SimilarRows, Rows
  <2>2. /\ run'[q].stage = run[q].stage /\ run'[q].at = how
        /\ run'[q].name = k /\ run'[q].row = x
    BY <1>0, <2>1 DEF Find
  <2> QED BY <1>0, <1>4, <2>2 DEF FindKeyword
<1>5. CASE UseRow(q) \/ InsertRow(q) \/ LinkKeyword(q) \/ SaveTables(q)
  BY <1>0, <1>5 DEF UseRow, InsertRow, LinkKeyword, SaveTables
<1>6. CASE FindRelated(q)
  <2>1. run'[q].stage = run[q].stage /\ run'[q].at = "related" /\ run[q].stage = 8
    BY <1>0, <1>6 DEF FindRelated
  <2> QED BY <2>1
<1>7. CASE SaveRelations(q) \/ DeletePaper(q) \/ DeleteFails(q) \/ Crash(q)
  BY <1>0, <1>7 DEF SaveRelations, DeletePaper, DeleteFails, Crash
<1> QED BY <1>1, <1>2, <1>3, <1>4, <1>5, <1>6, <1>7 DEF Work

\* No step refers to a paper that is not there, and no delete leaves such a reference.
LEMMA TablesStep ==
    ASSUME TypeRun, Tables, NEW q \in Runs, Sound(q), Naming(q), Work(q) \/ Crash(q)
    PROVE  Tables'
<1> USE DEF Tables, InStage, paperTables
<1>1. CASE SavePaper(q)
  BY <1>1 DEF SavePaper
<1>2. CASE SaveEmbedding(q) \/ SaveParagraphs(q)
  BY <1>2 DEF SaveEmbedding, SaveParagraphs, Sound
<1>3. CASE LinkKeyword(q)
  BY <1>3 DEF LinkKeyword, Sound, Naming, Storing
<1>4. CASE SaveRelations(q)
  BY <1>4 DEF SaveRelations, Sound
<1>5. CASE DeletePaper(q)
  <2>1. /\ papers' = papers \ {q} /\ q \notin shown
        /\ embedded' = embedded \ {q} /\ paragraphs' = paragraphs \ {q}
        /\ links' = {l \in links : l[1] # q}
        /\ relations' = {e \in relations : q \notin {e[1], e[2]}}
        /\ shown' = shown
    BY <1>5 DEF DeletePaper
  <2> QED BY <2>1
<1>6. CASE \/ BeginStage(q) \/ FinishStage(q) \/ ActionFails(q) \/ JobRowFails(q)
           \/ Compute(q) \/ FindKeyword(q) \/ UseRow(q) \/ InsertRow(q)
           \/ InsertCollides(q) \/ SaveTables(q) \/ FindRelated(q)
           \/ RelatedIsGone(q) \/ DeleteFails(q) \/ Crash(q)
  <2>1. UNCHANGED <<papers, embedded, paragraphs, links, relations, shown>>
    BY <1>6 DEF BeginStage, FinishStage, ActionFails, JobRowFails, Compute, FindKeyword,
                UseRow, InsertRow, InsertCollides, SaveTables, FindRelated, RelatedIsGone,
                DeleteFails, Crash, Raise
  <2> QED BY <2>1
<1> QED BY <1>1, <1>2, <1>3, <1>4, <1>5, <1>6 DEF Work

LEMMA KeywordTablesStep ==
    ASSUME TypeRun, KeywordTables, NEW q \in Runs, Naming(q), Work(q) \/ Crash(q)
    PROVE  KeywordTables'
<1> USE DEF KeywordTables, keywordTables
<1>1. CASE UseRow(q)
  BY <1>1 DEF UseRow, Naming, Storing, Finding
<1>2. CASE InsertRow(q)
  BY <1>2 DEF InsertRow
<1>3. CASE ~UseRow(q) /\ ~InsertRow(q)
  <2>1. UNCHANGED <<frequency, vector, alias>>
    BY <1>3 DEF Work, BeginStage, FinishStage, ActionFails, JobRowFails, Compute, SavePaper,
                SaveEmbedding, SaveParagraphs, FindKeyword, InsertCollides, LinkKeyword,
                SaveTables, FindRelated, SaveRelations, RelatedIsGone, DeletePaper,
                DeleteFails, Crash, Raise
  <2> QED BY <2>1
<1> QED BY <1>1, <1>2, <1>3

-----------------------------------------------------------------------------
(* The rows of processing_jobs. *)

\* A step of q adds at most a row about its stage, and takes away the rows of its paper
\* only together with the paper.
LEMMA JobsOfStep ==
    ASSUME TypeRun, NEW q \in Runs, Work(q) \/ Crash(q)
    PROVE  \/ /\ jobs' = {j \in jobs : j.paper # q}
              /\ papers' = papers \ {q} /\ DeletePaper(q)
           \/ /\ papers \subseteq papers'
              /\ \/ jobs' = jobs
                 \/ \E status \in {"running", "done", "failed"} : Record(q, status)
<1> USE DEF paperTables
<1>1. CASE BeginStage(q) \/ FinishStage(q)
  BY <1>1 DEF BeginStage, FinishStage
<1>2. CASE ActionFails(q) \/ InsertCollides(q) \/ RelatedIsGone(q)
  BY <1>2 DEF ActionFails, InsertCollides, RelatedIsGone, Raise
<1>3. CASE DeletePaper(q)
  BY <1>3 DEF DeletePaper
<1>4. CASE \/ JobRowFails(q) \/ Compute(q) \/ SavePaper(q) \/ SaveEmbedding(q)
           \/ SaveParagraphs(q) \/ FindKeyword(q) \/ UseRow(q) \/ InsertRow(q)
           \/ LinkKeyword(q) \/ SaveTables(q) \/ FindRelated(q) \/ SaveRelations(q)
           \/ DeleteFails(q) \/ Crash(q)
  BY <1>4 DEF JobRowFails, Compute, SavePaper, SaveEmbedding, SaveParagraphs, FindKeyword,
              UseRow, InsertRow, LinkKeyword, SaveTables, FindRelated, SaveRelations,
              DeleteFails, Crash
<1> QED BY <1>1, <1>2, <1>3, <1>4 DEF Work

LEMMA JobTableStep ==
    ASSUME TypeRun, JobTable, NEW q \in Runs, Work(q) \/ Crash(q)
    PROVE  JobTable'
<1> USE DEF JobTable
<1>1. CASE jobs' = {j \in jobs : j.paper # q} /\ papers' = papers \ {q}
  BY <1>1
<1>2. CASE papers \subseteq papers' /\ jobs' = jobs
  BY <1>2
<1>3. ASSUME papers \subseteq papers', NEW status \in {"running", "done", "failed"},
             Record(q, status)
      PROVE  JobTable'
  <2> DEFINE row == [paper |-> PaperId(q), stage |-> run[q].stage, status |-> status]
  <2>1. PaperId(q) \in papers \union {NoPaper} /\ PaperId(q) \in Runs \union {NoPaper}
    BY DEF PaperId
  <2>2. run[q].stage \in 1..9
    BY DEF TypeRun, RunState
  <2>3. row \in JobRow /\ row.paper \in papers \union {NoPaper}
    BY <2>1, <2>2 DEF JobRow
  <2>4. jobs' = jobs \union {row}
    BY <1>3 DEF Record
  <2> QED BY <1>3, <2>3, <2>4
<1> QED BY <1>1, <1>2, <1>3, JobsOfStep

TypedFacts == IInv /\ Typed

LEMMA TypedInit == Init => Typed
<1> SUFFICES ASSUME Init PROVE Typed
  OBVIOUS
<1>1. \A r \in Runs : run[r].at = "start"
  BY DEF Init
<1> QED BY <1>1 DEF Init, Typed, Tables, KeywordTables, JobTable, Naming, Storing, Finding

LEMMA TypedNext == TypedFacts /\ [Next]_vars => Typed'
<1> SUFFICES ASSUME IInv, Typed, [Next]_vars PROVE Typed'
  BY DEF TypedFacts
<1>1. IInv'
  BY IInvNext
<1>2. ASSUME NEW q \in Runs, Work(q) \/ Crash(q) PROVE Typed'
  <2>1. \A r \in Runs \ {q} : run'[r] = run[r]
    BY <1>2, OwnStep DEF IInv
  <2>2. ASSUME NEW r \in Runs PROVE Naming(r)'
    <3>1. CASE r = q
      BY <1>1, <1>2, <3>1, NamingStep DEF IInv, Typed
    <3>2. CASE r # q
      BY <2>1, <3>2 DEF Typed, Naming
    <3> QED BY <3>1, <3>2
  <2>3. Tables' /\ KeywordTables' /\ JobTable'
    BY <1>2, TablesStep, KeywordTablesStep, JobTableStep DEF IInv, Typed
  <2> QED BY <2>2, <2>3 DEF Typed
<1>3. CASE Search
  BY <1>3 DEF Search, Typed, Tables, KeywordTables, JobTable, Naming, paperTables, keywordTables
<1>4. CASE UNCHANGED vars
  BY <1>4 DEF vars, Typed, Tables, KeywordTables, JobTable, Naming
<1> QED BY <1>2, <1>3, <1>4 DEF Next

LEMMA TypedAlways == Spec => []TypedFacts
BY IInvInit, IInvNext, TypedInit, TypedNext, PTL DEF Spec, TypedFacts

\* Whatever fails, dies or is deleted, every row refers to a paper that is there, and runs,
\* keywords and job rows are well formed (the foreign keys of 0001_init.sql).
THEOREM IngestTypeCorrect == Spec => []TypeOK
<1>1. TypedFacts => TypeOK
  BY DEF TypedFacts, IInv, TypeRun, Typed, Tables, KeywordTables, JobTable, TypeOK
<1> QED BY <1>1, TypedAlways, PTL

-----------------------------------------------------------------------------
(* What processing_jobs tells of the earlier stages. *)

Done(r, s) == \E j \in jobs : j.paper = r /\ j.stage = s /\ j.status = "done"

\* The rows go only with the paper, and then the run has failed before STEP 9.
StagesDone(r) ==
    run[r].at # "failed" \/ run[r].stage = 9 => \A s \in 3..(run[r].stage - 1) : Done(r, s)

\* A run with a row "failed" does not go on; in STEP 9 there is nowhere to go on to.
NoneFailed(r) ==
    run[r].at \notin {"cleanup", "failed", "crashed"} \/ run[r].stage = 9 =>
        \A j \in jobs : j.paper = r /\ j.status = "failed" => j.stage = 9

AllStagesDone == \A r \in Runs : StagesDone(r) /\ NoneFailed(r)
JobFacts == TypedFacts /\ AllStagesDone

\* A step finishes the stage with its row, or stays in the stage; a run that has failed
\* stays where it is, and one that is being compensated does not go on.
LEMMA StageMoves ==
    ASSUME TypeRun, NEW q \in Runs, Sound(q), Work(q) \/ Crash(q)
    PROVE  /\ run[q].at # "failed"
           /\ \/ run'[q].stage = run[q].stage
              \/ /\ run'[q].stage = run[q].stage + 1 /\ Record(q, "done")
                 /\ run[q].at = "finish"
           /\ run'[q].at \notin {"cleanup", "failed", "crashed"} \/ run'[q].stage = 9 =>
                  run[q].at \notin {"cleanup", "failed", "crashed"} \/ run[q].stage = 9
<1> USE DEF TypeRun, RunState, GoTo, InStage, Ended, Finding, Sound
<1>0. run[q] \in RunState
  OBVIOUS
<1>1. CASE FinishStage(q)
  BY <1>0, <1>1 DEF FinishStage
<1>2. CASE FindKeyword(q)
  <2>1. PICK k \in run[q].left, how \in Finding, x \in Keywords : Find(q, k, how, x)
    BY <1>0, <1>2 DEF FindKeyword, SameName, SimilarRows, Rows
  <2>2. run'[q].stage = run[q].stage
    BY <1>0, <2>1 DEF Find
  <2> QED BY <1>2, <2>2 DEF FindKeyword
<1>3. CASE FindRelated(q)
  <2>1. run'[q].stage = run[q].stage
    BY <1>0, <1>3 DEF FindRelated
  <2> QED BY <1>3, <2>1 DEF FindRelated
<1>4. CASE \/ BeginStage(q) \/ ActionFails(q) \/ JobRowFails(q) \/ Compute(q) \/ SavePaper(q)
           \/ SaveEmbedding(q) \/ SaveParagraphs(q) \/ UseRow(q) \/ InsertRow(q)
           \/ InsertCollides(q) \/ LinkKeyword(q) \/ SaveTables(q) \/ SaveRelations(q)
           \/ RelatedIsGone(q) \/ DeletePaper(q) \/ DeleteFails(q) \/ Crash(q)
  BY <1>0, <1>4 DEF BeginStage, ActionFails, JobRowFails, Compute, SavePaper, SaveEmbedding,
       SaveParagraphs, UseRow, InsertRow, InsertCollides, LinkKeyword, SaveTables,
       SaveRelations, RelatedIsGone, DeletePaper, DeleteFails, Crash, Raise
<1> QED BY <1>1, <1>2, <1>3, <1>4 DEF Work

\* A row "failed" is written where the run breaks off, or in STEP 9.
LEMMA FailedRowStep ==
    ASSUME TypeRun, TypeRun', NEW q \in Runs, Sound(q), Naming(q), Work(q) \/ Crash(q)
    PROVE  \A j \in jobs' \ jobs :
               /\ j.paper \in {q, NoPaper}
               /\ j.status = "failed" =>
                     \/ j.stage = 9
                     \/ run'[q].at \in {"cleanup", "failed", "crashed"} /\ run'[q].stage # 9
<1> USE DEF TypeRun, RunState, GoTo, InStage, Ended, Finding, PaperId
<1>0. run[q] \in RunState
  OBVIOUS
<1>1. CASE BeginStage(q)
  BY <1>0, <1>1 DEF BeginStage, Record
<1>2. CASE FinishStage(q)
  BY <1>0, <1>2 DEF FinishStage, Record
<1>3. CASE ActionFails(q) \/ InsertCollides(q) \/ RelatedIsGone(q)
  <2>1. run[q].stage # 9
    BY <1>3 DEF ActionFails, InsertCollides, RelatedIsGone, Naming, Storing
  <2>2. run'[q].at \in {"cleanup", "failed"} /\ run'[q].stage = run[q].stage
    BY <1>0, <1>3 DEF ActionFails, InsertCollides, RelatedIsGone, Raise, AfterError
  <2>3. jobs' = jobs \/ Record(q, "failed")
    BY <1>3 DEF ActionFails, InsertCollides, RelatedIsGone, Raise
  <2> QED BY <1>0, <2>1, <2>2, <2>3 DEF Record
<1>4. CASE \/ JobRowFails(q) \/ Compute(q) \/ SavePaper(q) \/ SaveEmbedding(q)
           \/ SaveParagraphs(q) \/ FindKeyword(q) \/ UseRow(q) \/ InsertRow(q)
           \/ LinkKeyword(q) \/ SaveTables(q) \/ FindRelated(q) \/ SaveRelations(q)
           \/ DeletePaper(q) \/ DeleteFails(q) \/ Crash(q)
  <2>1. jobs' \subseteq jobs
    BY <1>4 DEF JobRowFails, Compute, SavePaper, SaveEmbedding, SaveParagraphs, FindKeyword,
              UseRow, InsertRow, LinkKeyword, SaveTables, FindRelated, SaveRelations,
              DeletePaper, DeleteFails, Crash
  <2> QED BY <2>1
<1> QED BY <1>1, <1>2, <1>3, <1>4 DEF Work

LEMMA NoneFailedStep ==
    ASSUME IInv, Typed, NEW q \in Runs, NEW r \in Runs, NoneFailed(r), Work(q) \/ Crash(q)
    PROVE  NoneFailed(r)'
<1>1. TypeRun /\ TypeRun' /\ \A x \in Runs \ {q} : run'[x] = run[x]
  BY OwnStep DEF IInv
<1>2. Sound(q) /\ Naming(q)
  BY DEF IInv, Typed
<1>3. CASE r = q
  BY <1>1, <1>2, <1>3, FailedRowStep, StageMoves DEF NoneFailed
<1>4. CASE r # q
  <2>1. \A j \in jobs' : j.paper = r => j \in jobs
    BY <1>1, <1>2, <1>4, FailedRowStep, NoPaperAssumption
  <2> QED BY <1>1, <1>4, <2>1 DEF NoneFailed
<1> QED BY <1>3, <1>4

LEMMA StagesDoneStep ==
    ASSUME IInv, NEW q \in Runs, NEW r \in Runs, StagesDone(r), Work(q) \/ Crash(q)
    PROVE  StagesDone(r)'
<1>1. TypeRun /\ TypeRun' /\ Sound(q) /\ \A x \in Runs \ {q} : run'[x] = run[x]
  BY OwnStep DEF IInv
<1>2. run[r].stage \in 1..9 /\ run'[r].stage \in 1..9
  BY <1>1 DEF TypeRun, RunState
<1>3. CASE DeletePaper(q)
  <2>1. CASE r = q
    <3>1. run'[q].at = "failed" /\ run'[q].stage = run[q].stage /\ run[q].stage \in 4..8
      BY <1>1, <1>3 DEF DeletePaper, GoTo, TypeRun, RunState, Sound
    <3> QED BY <2>1, <3>1 DEF StagesDone
  <2>2. CASE r # q
    <3>1. \A s : Done(r, s) => Done(r, s)'
      BY <1>3, <2>2 DEF DeletePaper, Done
    <3> QED BY <1>1, <2>2, <3>1 DEF StagesDone
  <2> QED BY <2>1, <2>2
<1>4. CASE ~DeletePaper(q)
  <2>1. jobs \subseteq jobs'
    BY <1>1, <1>4, JobsOfStep DEF Record
  <2>2. \A s : Done(r, s) => Done(r, s)'
    BY <2>1 DEF Done
  <2>3. CASE r # q
    BY <1>1, <2>2, <2>3 DEF StagesDone
  <2>4. CASE r = q
    <3>1. \A s \in 3..(run[q].stage - 1) : Done(q, s)'
      BY <1>1, <2>2, <2>4, StageMoves DEF StagesDone
    <3>2. CASE run'[q].stage = run[q].stage
      BY <2>4, <3>1, <3>2 DEF StagesDone
    <3>3. CASE run'[q].stage = run[q].stage + 1 /\ Record(q, "done") /\ run[q].at = "finish"
      <4>1. PICK ended \in 1..9 : ended = run[q].stage
        BY <1>2, <2>4
      <4>2. ended \in 3..8 => Done(q, ended)'
        <5> HAVE ended \in 3..8
        <5>1. PaperId(q) = q
          BY <1>1, <3>3, <4>1 DEF Sound, PaperId
        <5> DEFINE row == [paper |-> PaperId(q), stage |-> run[q].stage, status |-> "done"]
        <5>2. row.paper = q /\ row.stage = ended /\ row.status = "done"
          BY <4>1, <5>1
        <5>3. row \in jobs'
          BY <3>3 DEF Record
        <5> HIDE DEF row
        <5> QED BY <5>2, <5>3 DEF Done
      <4>3. \A s \in 3..(run'[q].stage - 1) :
                s \in 3..(run[q].stage - 1) \/ (s = ended /\ ended \in 3..8)
        BY <1>2, <2>4, <3>3, <4>1
      <4> QED BY <2>4, <3>1, <4>2, <4>3 DEF StagesDone
    <3> QED BY <1>1, <3>2, <3>3, StageMoves
  <2> QED BY <2>3, <2>4
<1> QED BY <1>3, <1>4

LEMMA JobFactsAlways == Spec => []JobFacts
<1>1. Init => AllStagesDone
  <2> SUFFICES ASSUME Init PROVE AllStagesDone
    OBVIOUS
  <2>1. jobs = {} /\ \A r \in Runs : run[r].stage = 1
    BY DEF Init
  <2> QED BY <2>1 DEF AllStagesDone, StagesDone, NoneFailed
<1>2. JobFacts /\ [Next]_vars => AllStagesDone'
  <2> SUFFICES ASSUME JobFacts, [Next]_vars PROVE AllStagesDone'
    OBVIOUS
  <2>1. CASE \E q \in Runs : Work(q) \/ Crash(q)
    BY <2>1, StagesDoneStep, NoneFailedStep DEF JobFacts, TypedFacts, AllStagesDone
  <2>2. CASE Search \/ UNCHANGED vars
    <3>1. UNCHANGED <<run, jobs>>
      BY <2>2 DEF Search, vars
    <3> QED BY <3>1 DEF JobFacts, AllStagesDone, StagesDone, NoneFailed, Done
  <2> QED BY <2>1, <2>2 DEF Next
<1> QED BY <1>1, <1>2, TypedAlways, PTL DEF Spec, JobFacts

\* Of a paper that has come through STEP 8, processing_jobs says that every stage since it
\* has a name was done and none failed, and it names no paper that is gone, for any number
\* of runs and every fault (set_job_stage, and the cascade of delete_paper).
THEOREM JobsAlwaysTell == Spec => []JobsTell
<1>1. JobFacts => JobsTell
  <2> SUFFICES ASSUME JobFacts PROVE JobsTell
    OBVIOUS
  <2>1. ASSUME NEW r \in Runs, run[r].stage = 9
        PROVE  /\ \A s \in 3..8 : Done(r, s)
               /\ \A j \in jobs : j.paper = r /\ j.status = "failed" => j.stage = 9
    BY <2>1 DEF JobFacts, AllStagesDone, StagesDone, NoneFailed
  <2>2. \A j \in jobs : j.paper \in papers \union {NoPaper}
    BY DEF JobFacts, TypedFacts, Typed, JobTable
  <2> QED BY <2>1, <2>2 DEF JobsTell, Done
<1> QED BY <1>1, JobFactsAlways, PTL

-----------------------------------------------------------------------------
(* What a failed run leaves. *)

\* The ways to leave half a paper: a row of processing_jobs could not be written after
\* STEP 3, the delete failed, or somebody was shown the paper before it was complete.
HalfPaperCause(r) == "job_row" \in Faults \/ "delete" \in Faults \/ r \in shown

\* Before save_paper there is no paper, and what fails later takes the paper with it.
Leaves(r) ==
    /\ run[r].stage \in 1..2 \/ (run[r].stage = 3 /\ run[r].at \notin {"finish", "crashed"}) =>
           r \notin papers \/ "job_row" \in Faults
    /\ run[r].at = "failed" /\ r \in papers => run[r].stage = 9 \/ HalfPaperCause(r)
AllLeave == \A r \in Runs : Leaves(r)
HalfFacts == TypedFacts /\ AllLeave

LEMMA LeavesOwn ==
    ASSUME TypeRun, NEW q \in Runs, Sound(q), Leaves(q), Work(q) \/ Crash(q)
    PROVE  Leaves(q)'
<1> USE DEF Leaves, HalfPaperCause, TypeRun, RunState, GoTo, InStage, Ended, Finding, paperTables
<1>0. run[q] \in RunState
  OBVIOUS
<1>1. CASE BeginStage(q) \/ Compute(q) \/ SavePaper(q) \/ SaveEmbedding(q) \/ SaveParagraphs(q)
  BY <1>0, <1>1 DEF BeginStage, Compute, SavePaper, SaveEmbedding, SaveParagraphs
<1>2. CASE FinishStage(q)
  BY <1>0, <1>2 DEF FinishStage
<1>3. CASE ActionFails(q) \/ JobRowFails(q)
  BY <1>0, <1>3 DEF ActionFails, JobRowFails, Raise, AfterError
<1>4. CASE FindKeyword(q)
  <2>1. PICK k \in run[q].left, how \in Finding, x \in Keywords : Find(q, k, how, x)
    BY <1>0, <1>4 DEF FindKeyword, SameName, SimilarRows, Rows
  <2>2. run'[q].stage = 7 /\ run'[q].at = how /\ how # "failed"
    BY <1>0, <1>4, <2>1 DEF Find, FindKeyword
  <2> QED BY <2>2
<1>5. CASE \/ UseRow(q) \/ InsertRow(q) \/ LinkKeyword(q) \/ SaveTables(q) \/ SaveRelations(q)
  BY <1>0, <1>5 DEF UseRow, InsertRow, LinkKeyword, SaveTables, SaveRelations
<1>6. CASE FindRelated(q)
  <2>1. run'[q].stage = 8 /\ run'[q].at = "related"
    BY <1>0, <1>6 DEF FindRelated
  <2> QED BY <2>1
<1>7. CASE DeletePaper(q) \/ DeleteFails(q) \/ Crash(q)
  BY <1>0, <1>7 DEF DeletePaper, DeleteFails, Crash
<1>8. CASE InsertCollides(q) \/ RelatedIsGone(q)
  BY <1>0, <1>8 DEF InsertCollides, RelatedIsGone, Raise, AfterError
<1> QED BY <1>1, <1>2, <1>3, <1>4, <1>5, <1>6, <1>7, <1>8 DEF Work

LEMMA LeavesStep ==
    ASSUME IInv, AllLeave, NEW q \in Runs, Work(q) \/ Crash(q)
    PROVE  AllLeave'
<1> SUFFICES ASSUME NEW r \in Runs PROVE Leaves(r)'
  BY DEF AllLeave
<1>1. CASE r = q
  BY <1>1, LeavesOwn DEF IInv, AllLeave
<1>2. CASE r # q
  <2>1. run'[r] = run[r] /\ (r \in papers' <=> r \in papers)
    BY <1>2, OwnStep, OthersKept DEF IInv
  <2>2. shown' = shown
    BY DEF Work, BeginStage, FinishStage, ActionFails, JobRowFails, Compute, SavePaper,
           SaveEmbedding, SaveParagraphs, FindKeyword, UseRow, InsertRow, InsertCollides,
           LinkKeyword, SaveTables, FindRelated, SaveRelations, RelatedIsGone, DeletePaper,
           DeleteFails, Crash, Raise
  <2> QED BY <2>1, <2>2 DEF AllLeave, Leaves, HalfPaperCause
<1> QED BY <1>1, <1>2

LEMMA HalfFactsAlways == Spec => []HalfFacts
<1>1. Init => AllLeave
  <2> SUFFICES ASSUME Init PROVE AllLeave
    OBVIOUS
  <2>1. papers = {}
    BY DEF Init
  <2> QED BY <2>1 DEF AllLeave, Leaves
<1>2. HalfFacts /\ [Next]_vars => AllLeave'
  <2> SUFFICES ASSUME HalfFacts, [Next]_vars PROVE AllLeave'
    OBVIOUS
  <2>1. CASE \E q \in Runs : Work(q) \/ Crash(q)
    BY <2>1, LeavesStep DEF HalfFacts, TypedFacts
  <2>2. CASE Search \/ UNCHANGED vars
    <3>1. UNCHANGED <<run, papers>> /\ shown \subseteq shown'
      BY <2>2 DEF Search, vars, paperTables
    <3> QED BY <3>1 DEF HalfFacts, AllLeave, Leaves, HalfPaperCause
  <2> QED BY <2>1, <2>2 DEF Next
<1> QED BY <1>1, <1>2, TypedAlways, PTL DEF Spec, HalfFacts

\* Nobody searches: then nothing is shown.
LEMMA NothingShown ==
    ASSUME ~Searches
    PROVE  Spec => [](shown = {})
<1>1. Init => shown = {}
  BY DEF Init
<1>2. shown = {} /\ [Next]_vars => (shown = {})'
  BY DEF Next, Work, BeginStage, FinishStage, ActionFails, JobRowFails, Compute, SavePaper,
         SaveEmbedding, SaveParagraphs, FindKeyword, UseRow, InsertRow, InsertCollides,
         LinkKeyword, SaveTables, FindRelated, SaveRelations, RelatedIsGone, DeletePaper,
         DeleteFails, Crash, Raise, Search, vars
<1> QED BY <1>1, <1>2, PTL DEF Spec

\* A failed run leaves half a paper only for one of the three causes, whatever else
\* fails, dies or interleaves (the compensation of IngestPipeline.run).
HalfPaperHasCause == \A r \in Runs :
    run[r].at = "failed" /\ r \in papers => run[r].stage = 9 \/ HalfPaperCause(r)
THEOREM HalfPapersHaveCauses == Spec => []HalfPaperHasCause
<1>1. HalfFacts => HalfPaperHasCause
  BY DEF HalfFacts, AllLeave, Leaves, HalfPaperHasCause
<1> QED BY <1>1, HalfFactsAlways, PTL

\* Without them, no failed run leaves half a paper (pipeline.py:6-9 and 114-118): any
\* action may fail, any process may die, and any number of papers be ingested meanwhile.
THEOREM NoHalfPaperStays ==
    ASSUME Faults \subseteq {"action", "crash"}, ~Searches
    PROVE  Spec => []NoHalfPaper
<1>1. HalfPaperHasCause /\ shown = {} => NoHalfPaper
  BY DEF HalfPaperHasCause, HalfPaperCause, NoHalfPaper
<1> QED BY <1>1, HalfPapersHaveCauses, NothingShown, PTL

-----------------------------------------------------------------------------
(* Keywords and the rows that stand for them. *)

\* A keyword is its own kin, and a similar one's kin are its kin.
LEMMA KinChain ==
    ASSUME NEW k \in Keywords
    PROVE  /\ Kin(k, k)
           /\ \A v, x : <<k, v>> \in Similar /\ Kin(v, x) => Kin(k, x)
           /\ \A v, x : Kin(k, v) /\ Kin(v, x) => Kin(k, x)
<1>1. ASSUME NEW v, NEW x, <<k, v>> \in Similar, Kin(v, x) PROVE Kin(k, x)
  <2>1. \A S \in SUBSET Keywords : k \in S /\ Apart(S) => v \in S
    BY <1>1 DEF Apart
  <2> QED BY <1>1, <2>1 DEF Kin
<1>2. Kin(k, k) /\ \A v, x : Kin(k, v) /\ Kin(v, x) => Kin(k, x)
  BY DEF Kin
<1> QED BY <1>1, <1>2

Represented(r, k) == \E x \in Keywords : <<r, x>> \in links /\ Kin(k, x)

\* An alias stands for a row of its kin, and a row has an embedding of its kin.
AliasesKin == \A k \in Keywords : alias[k] # NoKeyword => Kin(k, alias[k])
VectorsKin == \A x \in Keywords : vector[x] # NoKeyword => Kin(vector[x], x)

\* The row a run has found stands for its keyword.
FoundStands(r) ==
    run[r].at \in Storing => /\ Kin(run[r].name, run[r].row)
                             /\ run[r].at = "new" => run[r].row = run[r].name

\* A keyword that the run has still to store or is storing; and a run that was broken off.
Pending(r, k) == k \in run[r].left \/ (run[r].at \in Storing /\ k = run[r].name)
BrokenOff(r) == run[r].at \in {"cleanup", "failed", "crashed"} /\ run[r].stage # 9

\* STEP 7 ends with no keyword to be stored.
NoneLeft(r) == (run[r].stage = 7 /\ run[r].at = "finish") \/ run[r].stage \in 8..9 =>
                   run[r].left = {}
\* A keyword is pending or represented.
NoneForgotten(r) ==
    ~BrokenOff(r) => \A k \in run[r].keywords : Pending(r, k) \/ Represented(r, k)

AllFound == \A r \in Runs : FoundStands(r)
AllKept == \A r \in Runs : NoneLeft(r) /\ NoneForgotten(r)
KeywordFacts == TypedFacts /\ AliasesKin /\ VectorsKin /\ AllFound /\ AllKept

LEMMA KinStep ==
    ASSUME KeywordTables, NEW q \in Runs, Naming(q), FoundStands(q), AliasesKin, VectorsKin,
           Work(q) \/ Crash(q)
    PROVE  AliasesKin' /\ VectorsKin'
<1> USE DEF KeywordTables, Naming, Storing, Finding, FoundStands
<1>1. CASE UseRow(q)
  <2>1. run[q].name \in Keywords /\ run[q].row \in Keywords /\ Kin(run[q].name, run[q].row)
    BY <1>1 DEF UseRow
  <2>2. CASE run[q].at = "same"
    <3>1. alias' = alias /\ vector' = [vector EXCEPT ![run[q].row] = run[q].name]
      BY <1>1, <2>2 DEF UseRow
    <3> QED BY <2>1, <3>1 DEF AliasesKin, VectorsKin, Kin, Apart
  <2>3. CASE run[q].at # "same"
    <3>1. vector' = vector /\ alias' = [alias EXCEPT ![run[q].name] = run[q].row]
      BY <1>1, <2>3 DEF UseRow
    <3> QED BY <2>1, <3>1 DEF AliasesKin, VectorsKin, Kin, Apart
  <2> QED BY <2>2, <2>3
<1>2. CASE InsertRow(q)
  <2>1. run[q].name \in Keywords /\ Kin(run[q].name, run[q].name)
    BY <1>2, KinChain DEF InsertRow
  <2>2. alias' = alias /\ vector' = [vector EXCEPT ![run[q].name] = run[q].name]
    BY <1>2 DEF InsertRow
  <2> QED BY <2>1, <2>2 DEF AliasesKin, VectorsKin, Kin, Apart
<1>3. CASE ~UseRow(q) /\ ~InsertRow(q)
  <2>1. alias' = alias /\ vector' = vector
    BY <1>3 DEF Work, BeginStage, FinishStage, ActionFails, JobRowFails, Compute, SavePaper,
                SaveEmbedding, SaveParagraphs, FindKeyword, InsertCollides,
                LinkKeyword, SaveTables, FindRelated, SaveRelations, RelatedIsGone,
                DeletePaper, DeleteFails, Crash, Raise, keywordTables
  <2> QED BY <2>1 DEF AliasesKin, VectorsKin, Kin, Apart
<1> QED BY <1>1, <1>2, <1>3

\* What a run finds for a keyword stands for it.
LEMMA FoundIsRight ==
    ASSUME TypeRun, KeywordTables, AliasesKin, VectorsKin, NEW q \in Runs, FindKeyword(q)
    PROVE  \E k \in run[q].left, how \in Finding, x \in Keywords :
              Find(q, k, how, x) /\ Kin(k, x) /\ (how = "new" => x = k)
<1>1. run[q].left \subseteq Keywords
  BY DEF TypeRun, RunState
<1>2. PICK k \in run[q].left :
        \/ \E x \in SameName(k) : Find(q, k, "same", x)
        \/ SameName(k) = {} /\ \E x \in SimilarRows(k) : Find(q, k, "similar", x)
        \/ SameName(k) \union SimilarRows(k) = {} /\ Find(q, k, "new", k)
  BY DEF FindKeyword
<1>3. k \in Keywords /\ Kin(k, k)
  BY <1>1, KinChain
<1>4. \A x \in SameName(k) : x \in Keywords /\ Kin(k, x)
  BY <1>3, NoKeywordAssumption DEF SameName, Rows, AliasesKin
<1>5. ASSUME NEW x \in SimilarRows(k) PROVE x \in Keywords /\ Kin(k, x)
  <2>1. x \in Keywords /\ (vector[x] = k \/ <<k, vector[x]>> \in Similar)
    BY DEF SimilarRows, Rows
  <2>2. vector[x] \in Keywords /\ Kin(vector[x], x)
    BY <1>3, <2>1, SimilarAssumption, NoKeywordAssumption DEF VectorsKin
  <2> QED BY <1>3, <2>1, <2>2, KinChain
<1> QED BY <1>2, <1>3, <1>4, <1>5 DEF Finding

LEMMA FoundStandsStep ==
    ASSUME TypeRun, TypeRun', KeywordTables, AliasesKin, VectorsKin, NEW q \in Runs,
           FoundStands(q), Work(q) \/ Crash(q)
    PROVE  FoundStands(q)'
<1> USE DEF TypeRun, RunState, GoTo, InStage, Finding, Storing, Ended
<1>0. run[q] \in RunState
  OBVIOUS
<1>1. CASE FindKeyword(q)
  <2>1. PICK k \in run[q].left, how \in Finding, x \in Keywords :
              Find(q, k, how, x) /\ Kin(k, x) /\ (how = "new" => x = k)
    BY <1>1, FoundIsRight
  <2>2. run'[q].at = how /\ run'[q].name = k /\ run'[q].row = x
    BY <1>0, <2>1 DEF Find
  <2> QED BY <2>1, <2>2 DEF FoundStands, Kin, Apart
<1>2. CASE UseRow(q) \/ InsertRow(q)
  <2>1. run'[q].at = "linking" /\ run'[q].name = run[q].name /\ run'[q].row = run[q].row
    BY <1>0, <1>2 DEF UseRow, InsertRow
  <2>2. run[q].at \in Storing
    BY <1>2 DEF UseRow, InsertRow
  <2> QED BY <2>1, <2>2 DEF FoundStands, Kin, Apart
<1>3. CASE FinishStage(q)
  <2>1. run'[q].at \in {"start", "complete"}
    BY <1>0, <1>3 DEF FinishStage
  <2> QED BY <2>1 DEF FoundStands
<1>4. CASE FindRelated(q)
  <2>1. run'[q].at = "related"
    BY <1>0, <1>4 DEF FindRelated
  <2> QED BY <2>1 DEF FoundStands
<1>5. CASE \/ BeginStage(q) \/ ActionFails(q) \/ JobRowFails(q) \/ Compute(q) \/ SavePaper(q)
           \/ SaveEmbedding(q) \/ SaveParagraphs(q) \/ InsertCollides(q) \/ LinkKeyword(q)
           \/ SaveTables(q) \/ SaveRelations(q) \/ RelatedIsGone(q) \/ DeletePaper(q)
           \/ DeleteFails(q) \/ Crash(q)
  <2>1. run'[q].at \notin Storing
    BY <1>0, <1>5 DEF BeginStage, ActionFails, JobRowFails, Compute, SavePaper, SaveEmbedding,
       SaveParagraphs, InsertCollides, LinkKeyword, SaveTables, SaveRelations, RelatedIsGone,
       DeletePaper, DeleteFails, Crash, Raise, AfterError
  <2> QED BY <2>1 DEF FoundStands
<1> QED BY <1>1, <1>2, <1>3, <1>4, <1>5 DEF Work

\* Only the delete of its own paper takes away the links of a run.
LEMMA LinksOfStep ==
    ASSUME NEW q \in Runs, Work(q) \/ Crash(q)
    PROVE  /\ \A r \in Runs \ {q}, x \in Keywords : <<r, x>> \in links' <=> <<r, x>> \in links
           /\ DeletePaper(q) \/ links \subseteq links'
<1>1. CASE LinkKeyword(q)
  BY <1>1 DEF LinkKeyword
<1>2. CASE DeletePaper(q)
  BY <1>2 DEF DeletePaper
<1>3. CASE ~LinkKeyword(q) /\ ~DeletePaper(q)
  <2>1. links' = links
    BY <1>3 DEF Work, BeginStage, FinishStage, ActionFails, JobRowFails, Compute, SavePaper,
                SaveEmbedding, SaveParagraphs, FindKeyword, UseRow, InsertRow, InsertCollides,
                SaveTables, FindRelated, SaveRelations, RelatedIsGone, DeleteFails, Crash,
                Raise, paperTables
  <2> QED BY <2>1
<1> QED BY <1>1, <1>2, <1>3

\* FindKeyword changes nothing else of the run.
LEMMA FindChanges ==
    ASSUME TypeRun, NEW q \in Runs, NEW k \in Keywords, NEW how, NEW x, Find(q, k, how, x)
    PROVE  /\ run'[q].at = how /\ run'[q].name = k /\ run'[q].row = x
           /\ run'[q].left = run[q].left \ {k}
           /\ run'[q].stage = run[q].stage /\ run'[q].keywords = run[q].keywords
<1> DEFINE s == [run[q] EXCEPT !.at = how, !.name = k, !.row = x, !.left = run[q].left \ {k}]
<1>1. run' = [run EXCEPT ![q] = s]
  BY DEF Find, TypeRun, RunState
<1>2. /\ s.at = how /\ s.name = k /\ s.row = x /\ s.left = run[q].left \ {k}
      /\ s.stage = run[q].stage /\ s.keywords = run[q].keywords
  BY DEF TypeRun, RunState
<1> HIDE DEF s
<1> QED BY <1>1, <1>2 DEF TypeRun

\* A keyword stays pending until the paper is linked to its row, unless the run is broken
\* off; and a run that is broken off stays so.
LEMMA PendingStep ==
    ASSUME TypeRun, TypeRun', NEW q \in Runs, Sound(q), Naming(q), NoneLeft(q),
           Work(q) \/ Crash(q)
    PROVE  /\ NoneLeft(q)'
           /\ run'[q].keywords = run[q].keywords
           /\ ~BrokenOff(q)' => /\ ~BrokenOff(q) /\ ~DeletePaper(q)
                                /\ \A k \in Keywords :
                                      \/ Pending(q, k) => Pending(q, k)'
                                      \/ LinkKeyword(q) /\ k = run[q].name
<1> USE DEF TypeRun, RunState, GoTo, InStage, Finding, Storing, Ended
<1>0. run[q] \in RunState
  OBVIOUS
<1>1. CASE FindKeyword(q)
  <2>1. PICK k \in run[q].left, how \in Finding, x \in Keywords : Find(q, k, how, x)
    BY <1>0, <1>1 DEF FindKeyword, SameName, SimilarRows, Rows
  <2>2. run[q].at = "keywords" /\ run[q].stage = 7 /\ k \in Keywords
    BY <1>0, <1>1 DEF FindKeyword
  <2>3. /\ run'[q].at = how /\ run'[q].name = k /\ run'[q].stage = 7
        /\ run'[q].left = run[q].left \ {k} /\ run'[q].keywords = run[q].keywords
    BY <2>1, <2>2, FindChanges
  <2>4. ~DeletePaper(q)
    BY <2>2 DEF DeletePaper
  <2> QED BY <1>0, <2>2, <2>3, <2>4 DEF NoneLeft, Pending, BrokenOff
<1>2. CASE LinkKeyword(q)
  <2>1. /\ run[q].at = "linking" /\ run'[q].at = "keywords" /\ run[q].stage = 7
        /\ run'[q].stage = 7 /\ run'[q].left = run[q].left
        /\ run'[q].keywords = run[q].keywords
    BY <1>0, <1>2 DEF LinkKeyword
  <2>2. ~DeletePaper(q)
    BY <2>1 DEF DeletePaper
  <2> QED BY <1>0, <1>2, <2>1, <2>2 DEF NoneLeft, Pending, BrokenOff
<1>3. CASE UseRow(q) \/ InsertRow(q)
  <2>1. /\ run[q].at \in Finding /\ run'[q].at = "linking"
        /\ run'[q].name = run[q].name /\ run'[q].stage = run[q].stage
        /\ run'[q].left = run[q].left /\ run'[q].keywords = run[q].keywords
    BY <1>0, <1>3 DEF UseRow, InsertRow
  <2>2. run[q].stage = 7 /\ ~DeletePaper(q)
    BY <2>1 DEF Naming, DeletePaper
  <2> QED BY <1>0, <2>1, <2>2 DEF NoneLeft, Pending, BrokenOff
<1>4. CASE SaveTables(q)
  <2>1. /\ run[q].at = "keywords" /\ run'[q].at = "finish" /\ run[q].left = {}
        /\ run'[q].stage = 7 /\ run'[q].left = run[q].left
        /\ run'[q].keywords = run[q].keywords /\ run[q].stage = 7 
    BY <1>0, <1>4 DEF SaveTables
  <2>2. ~DeletePaper(q)
    BY <2>1 DEF DeletePaper
  <2> QED BY <1>0, <2>1, <2>2 DEF NoneLeft, Pending, BrokenOff
<1>5. CASE FindRelated(q)
  <2>1. /\ run[q].at = "body" /\ run'[q].at = "related"
        /\ run[q].stage = 8 /\ run'[q].stage = 8 /\ run'[q].left = run[q].left
        /\ run'[q].keywords = run[q].keywords
    BY <1>0, <1>5 DEF FindRelated
  <2>2. ~DeletePaper(q)
    BY <2>1 DEF DeletePaper
  <2> QED BY <1>0, <2>1, <2>2 DEF NoneLeft, Pending, BrokenOff
<1>6. CASE FinishStage(q)
  <2>1. /\ run[q].at = "finish" /\ run'[q].at \in {"start", "complete"}
        /\ run'[q].left = run[q].left /\ run'[q].keywords = run[q].keywords
        /\ \/ run[q].stage = 9 /\ run'[q].stage = 9
           \/ run[q].stage \in 1..8 /\ run'[q].stage = run[q].stage + 1
    BY <1>0, <1>6 DEF FinishStage
  <2>2. ~DeletePaper(q)
    BY <2>1 DEF DeletePaper
  <2> QED BY <1>0, <2>1, <2>2 DEF NoneLeft, Pending, BrokenOff
<1>7. CASE BeginStage(q) \/ Compute(q) \/ SavePaper(q) \/ SaveEmbedding(q) \/ SaveParagraphs(q)
           \/ SaveRelations(q)
  <2>1. /\ run[q].at \in {"start", "body", "embedded", "related"}
        /\ run'[q].at \in {"body", "finish", "embedded", "keywords"}
        /\ run'[q].stage = run[q].stage /\ run'[q].left = run[q].left
        /\ run'[q].keywords = run[q].keywords
        /\ run[q].stage = 7 => run'[q].at # "finish"
    BY <1>0, <1>7 DEF BeginStage, Compute, SavePaper, SaveEmbedding, SaveParagraphs, SaveRelations
  <2>2. ~DeletePaper(q)
    BY <2>1 DEF DeletePaper
  <2> QED BY <1>0, <2>1, <2>2 DEF NoneLeft, Pending, BrokenOff
<1>8. CASE \/ ActionFails(q) \/ JobRowFails(q) \/ InsertCollides(q) \/ RelatedIsGone(q)
           \/ DeletePaper(q) \/ DeleteFails(q) \/ Crash(q)
  <2>1. /\ run'[q].at \in {"cleanup", "failed", "crashed"}
        /\ run'[q].stage = run[q].stage /\ run'[q].left = run[q].left
        /\ run'[q].keywords = run[q].keywords
    BY <1>0, <1>8 DEF ActionFails, JobRowFails, InsertCollides, RelatedIsGone, DeletePaper,
                      DeleteFails, Crash, Raise, AfterError
  <2>2. run[q].stage = 9 => ~DeletePaper(q) /\ run[q].at \notin Storing
    BY DEF Sound, DeletePaper, Naming
  <2> QED BY <1>0, <2>1, <2>2 DEF NoneLeft, Pending, BrokenOff
<1> QED BY <1>1, <1>2, <1>3, <1>4, <1>5, <1>6, <1>7, <1>8 DEF Work

LEMMA NoneForgottenOwn ==
    ASSUME TypeRun, TypeRun', NEW q \in Runs, Sound(q), Naming(q), FoundStands(q),
           NoneLeft(q), NoneForgotten(q), Work(q) \/ Crash(q)
    PROVE  NoneLeft(q)' /\ NoneForgotten(q)'
<1>1. NoneLeft(q)'
  BY PendingStep
<1>2. SUFFICES ASSUME ~BrokenOff(q)', NEW k \in run'[q].keywords
               PROVE  Pending(q, k)' \/ Represented(q, k)'
  BY <1>1 DEF NoneForgotten
<1>3. k \in run[q].keywords /\ k \in Keywords /\ ~BrokenOff(q) /\ ~DeletePaper(q)
  BY <1>2, PendingStep DEF TypeRun, RunState
<1>4. links \subseteq links'
  BY <1>3, LinksOfStep
<1>5. CASE Represented(q, k)
  BY <1>4, <1>5 DEF Represented, Kin, Apart
<1>6. CASE LinkKeyword(q) /\ k = run[q].name
  <2>1. run[q].at \in Storing /\ <<q, run[q].row>> \in links'
    BY <1>6 DEF LinkKeyword, InStage, Storing
  <2>2. run[q].row \in Keywords /\ Kin(k, run[q].row)
    BY <1>6, <2>1 DEF Naming, FoundStands
  <2> QED BY <2>1, <2>2 DEF Represented, Kin, Apart
<1> QED BY <1>2, <1>3, <1>5, <1>6, PendingStep DEF NoneForgotten

LEMMA KeywordFactsStep ==
    ASSUME KeywordFacts, TypeRun', NEW q \in Runs, Work(q) \/ Crash(q)
    PROVE  AliasesKin' /\ VectorsKin' /\ AllFound' /\ AllKept'
<1> USE DEF KeywordFacts, TypedFacts, IInv, Typed, AllFound, AllKept
<1>1. AliasesKin' /\ VectorsKin'
  BY KinStep
<1>2. ASSUME NEW r \in Runs PROVE FoundStands(r)' /\ NoneLeft(r)' /\ NoneForgotten(r)'
  <2>1. CASE r = q
    BY <2>1, FoundStandsStep, NoneForgottenOwn
  <2>2. CASE r # q
    <3>1. run'[r] = run[r]
      BY <2>2, OwnStep
    <3>2. \A k \in Keywords : Represented(r, k) => Represented(r, k)'
      BY <2>2, LinksOfStep DEF Represented, Kin, Apart
    <3>3. run[r].keywords \subseteq Keywords
      BY DEF TypeRun, RunState
    <3> QED BY <3>1, <3>2, <3>3
            DEF FoundStands, NoneLeft, NoneForgotten, Pending, BrokenOff, Kin, Apart
  <2> QED BY <2>1, <2>2
<1> QED BY <1>1, <1>2

LEMMA KeywordFactsAlways == Spec => []KeywordFacts
<1> DEFINE Facts == AliasesKin /\ VectorsKin /\ AllFound /\ AllKept
<1>1. Init => Facts
  <2> SUFFICES ASSUME Init PROVE Facts
    OBVIOUS
  <2>1. PICK chosen \in [Runs -> (SUBSET Keywords) \ {{}}] :
          run = [r \in Runs |-> [stage |-> 1, at |-> "start",
                                keywords |-> chosen[r], left |-> chosen[r],
                                name |-> NoKeyword, row |-> NoKeyword, related |-> {}]]
    BY DEF Init
  <2>2. \A r \in Runs : /\ run[r].stage = 1 /\ run[r].at = "start"
                        /\ run[r].left = run[r].keywords
    BY <2>1
  <2>3. \A k \in Keywords : alias[k] = NoKeyword /\ vector[k] = NoKeyword
    BY DEF Init
  <2> QED BY <2>2, <2>3 DEF AliasesKin, VectorsKin, AllFound, AllKept, FoundStands, NoneLeft,
                            NoneForgotten, Pending, Storing, Finding
<1>2. TypedFacts /\ Facts /\ [Next]_vars => Facts'
  <2> SUFFICES ASSUME TypedFacts, Facts, [Next]_vars PROVE Facts'
    OBVIOUS
  <2>1. ASSUME NEW q \in Runs, Work(q) \/ Crash(q) PROVE Facts'
    <3>1. TypeRun'
      BY <2>1, OwnStep DEF TypedFacts, IInv
    <3> QED BY <2>1, <3>1, KeywordFactsStep DEF KeywordFacts
  <2>2. CASE Search \/ UNCHANGED vars
    <3>1. UNCHANGED <<run, links, alias, vector>>
      BY <2>2 DEF Search, vars, paperTables, keywordTables
    <3>2. AliasesKin' /\ VectorsKin'
      BY <3>1 DEF AliasesKin, VectorsKin, Kin, Apart
    <3>3. AllFound'
      BY <3>1 DEF AllFound, FoundStands, Kin, Apart
    <3>4. \A r \in Runs : \A k : Represented(r, k) => Represented(r, k)'
      BY <3>1 DEF Represented, Kin, Apart
    <3>5. AllKept'
      BY <3>1, <3>4 DEF AllKept, NoneLeft, NoneForgotten, Pending, BrokenOff
    <3> QED BY <3>2, <3>3, <3>5
  <2> QED BY <2>1, <2>2 DEF Next
<1> HIDE DEF Facts
<1>3. TypedFacts /\ Facts => KeywordFacts
  BY DEF Facts, KeywordFacts
<1> QED BY <1>1, <1>2, <1>3, TypedAlways, PTL DEF Spec

\* Each keyword of a paper that has come through STEP 8 has a row that stands for it, at
\* least by a chain of similar keywords, however the merges of any number of other runs
\* interleave and the embeddings of rows are overwritten (upsert_keyword).
THEOREM KeywordsStayRepresented == Spec => []KeywordsRepresented
<1>1. KeywordFacts => KeywordsRepresented
  <2> SUFFICES ASSUME KeywordFacts, NEW r \in Runs, run[r].stage = 9, NEW k \in run[r].keywords
               PROVE  \E x \in RowsOf(r) : Kin(k, x)
    BY DEF KeywordsRepresented
  <2>1. run[r].left = {} /\ run[r].at \notin Storing /\ ~BrokenOff(r)
    BY DEF KeywordFacts, TypedFacts, Typed, Naming, AllKept, NoneLeft, BrokenOff
  <2>2. PICK x \in Keywords : <<r, x>> \in links /\ Kin(k, x)
    BY <2>1 DEF KeywordFacts, AllKept, NoneForgotten, Pending, Represented
  <2>3. x \in RowsOf(r)
    BY <2>2 DEF RowsOf
  <2> QED BY <2>2, <2>3
<1> QED BY <1>1, KeywordFactsAlways, PTL

-----------------------------------------------------------------------------
(* One paper after the other, a keyword's name leads to the papers that have it. *)

\* A name is the name of a row or an alias of one, not both.
OneRowEach == \A k \in Keywords :
    alias[k] # NoKeyword => frequency[k] = 0 /\ alias[k] \in Rows

\* What the run has found is still so, since no other run writes meanwhile.
StillSo(r) ==
    /\ run[r].at \in {"same", "linking"} => run[r].row \in SameName(run[r].name)
    /\ run[r].at \in {"similar", "new"} => SameName(run[r].name) = {}
    /\ run[r].at = "similar" => run[r].row \in Rows

LinkedByName(r, k) == \E x \in SameName(k) : <<r, x>> \in links
ByName(r) ==
    ~BrokenOff(r) => \A k \in run[r].keywords : Pending(r, k) \/ LinkedByName(r, k)
AllByName == \A r \in Runs : StillSo(r) /\ ByName(r)
NameFacts == OneBusy /\ OneRowEach /\ AllByName

\* Only the writes of upsert_keyword touch the rows.
LEMMA RowsKept ==
    ASSUME NEW q \in Runs, Work(q) \/ Crash(q), ~UseRow(q), ~InsertRow(q)
    PROVE  frequency' = frequency /\ alias' = alias
BY DEF Work, BeginStage, FinishStage, ActionFails, JobRowFails, Compute, SavePaper,
       SaveEmbedding, SaveParagraphs, FindKeyword, InsertCollides, LinkKeyword,
       SaveTables, FindRelated, SaveRelations, RelatedIsGone, DeletePaper,
       DeleteFails, Crash, Raise, keywordTables

\* One who writes a row is busy.
LEMMA BusyStep ==
    ASSUME NEW q \in Runs, Work(q) \/ Crash(q), OneBusy, NEW r \in Runs \ {q}, Busy(r)
    PROVE  frequency' = frequency /\ alias' = alias
<1>1. ~Busy(q)
  BY DEF OneBusy
<1>2. ~UseRow(q) /\ ~InsertRow(q)
  BY <1>1 DEF Busy, UseRow, InsertRow, InStage, Ended
<1> QED BY <1>2, RowsKept

\* What the write of upsert_keyword makes of the rows of a name.
LEMMA NamesOfWrite ==
    ASSUME KeywordTables, OneRowEach, NEW q \in Runs, Naming(q), FoundStands(q), StillSo(q),
           UseRow(q) \/ InsertRow(q)
    PROVE  /\ OneRowEach'
           /\ \A k \in Keywords : SameName(k) \subseteq SameName(k)'
           /\ \A k \in Keywords : k = run[q].name => run[q].row \in SameName(k)'
<1> USE DEF KeywordTables
<1>1. PICK name \in Keywords, row \in Keywords : name = run[q].name /\ row = run[q].row
  BY DEF UseRow, InsertRow, Naming, Storing, Finding
<1>2. CASE UseRow(q) /\ run[q].at = "same"
  <2>1. alias' = alias /\ frequency' = [frequency EXCEPT ![row] = @ + 1]
    BY <1>1, <1>2 DEF UseRow
  <2>2. row \in SameName(name)
    BY <1>1, <1>2 DEF StillSo
  <2>3. row \in Rows /\ Rows' = Rows
    BY <2>1, <2>2 DEF SameName, Rows
  <2>4. \A k \in Keywords : frequency[k] = 0 => frequency'[k] = 0
    BY <2>1, <2>3 DEF Rows
  <2>5. \A k \in Keywords : SameName(k)' = SameName(k)
    BY <2>1, <2>3 DEF SameName
  <2> QED BY <1>1, <2>1, <2>2, <2>3, <2>4, <2>5 DEF OneRowEach
<1>3. CASE UseRow(q) /\ run[q].at # "same"
  <2>1. /\ alias' = [alias EXCEPT ![name] = row]
        /\ frequency' = [frequency EXCEPT ![row] = @ + 1] /\ run[q].at = "similar"
    BY <1>1, <1>3 DEF UseRow
  <2>2. SameName(name) = {} /\ row \in Rows
    BY <1>1, <2>1 DEF StillSo
  <2>3. Rows' = Rows /\ name \notin Rows
    BY <2>1, <2>2 DEF SameName, Rows
  <2>4. \A k \in Keywords : frequency[k] = 0 => frequency'[k] = 0
    BY <2>1, <2>2 DEF Rows
  <2>5. frequency[name] = 0
    BY <2>3 DEF Rows
  <2>6. OneRowEach'
    BY <2>1, <2>2, <2>3, <2>4, <2>5 DEF OneRowEach
  <2>7. \A k \in Keywords : k # name => SameName(k)' = SameName(k)
    BY <2>1, <2>3 DEF SameName
  <2>8. row \in SameName(name)'
    BY <2>1, <2>2, <2>3 DEF SameName
  <2> QED BY <1>1, <2>2, <2>6, <2>7, <2>8
<1>4. CASE InsertRow(q)
  <2>1. /\ alias' = alias /\ frequency' = [frequency EXCEPT ![name] = 1]
        /\ run[q].at = "new"
    BY <1>1, <1>4 DEF InsertRow
  <2>2. SameName(name) = {} /\ row = name
    BY <1>1, <2>1 DEF StillSo, FoundStands, Storing, Finding
  <2>3. Rows' = Rows \union {name} /\ name \notin Rows
    BY <2>1, <2>2 DEF SameName, Rows
  <2>4. alias[name] = NoKeyword
    BY <2>2 DEF OneRowEach, SameName
  <2>5. OneRowEach'
    BY <2>1, <2>3, <2>4 DEF OneRowEach
  <2>6. \A k \in Keywords : SameName(k) \subseteq SameName(k)'
    BY <2>1, <2>3 DEF SameName
  <2>7. row \in SameName(name)'
    BY <2>2, <2>3 DEF SameName
  <2> QED BY <1>1, <2>5, <2>6, <2>7
<1> QED BY <1>2, <1>3, <1>4

LEMMA NamesKept ==
    ASSUME KeywordTables, OneRowEach, NEW q \in Runs, Naming(q), FoundStands(q), StillSo(q),
           Work(q) \/ Crash(q)
    PROVE  OneRowEach' /\ \A k \in Keywords : SameName(k) \subseteq SameName(k)'
<1>1. CASE UseRow(q) \/ InsertRow(q)
  BY <1>1, NamesOfWrite
<1>2. CASE ~UseRow(q) /\ ~InsertRow(q)
  <2>1. frequency' = frequency /\ alias' = alias
    BY <1>2, RowsKept
  <2> QED BY <2>1 DEF OneRowEach, SameName, Rows
<1> QED BY <1>1, <1>2

\* A run moves on in upsert_keyword with what it has found or written.
LEMMA StillSoOwn ==
    ASSUME TypeRun, TypeRun', KeywordTables, OneRowEach, NEW q \in Runs, Naming(q),
           FoundStands(q), StillSo(q), Work(q) \/ Crash(q)
    PROVE  StillSo(q)'
<1> USE DEF TypeRun, RunState, GoTo, InStage, Finding, Ended
<1>0. run[q] \in RunState
  OBVIOUS
<1>1. CASE FindKeyword(q)
  <2>1. frequency' = frequency /\ alias' = alias /\ run[q].left \subseteq Keywords
    BY <1>0, <1>1 DEF FindKeyword, keywordTables
  <2>2. PICK k \in run[q].left :
          \/ \E x \in SameName(k) : Find(q, k, "same", x)
          \/ SameName(k) = {} /\ \E x \in SimilarRows(k) : Find(q, k, "similar", x)
          \/ SameName(k) \union SimilarRows(k) = {} /\ Find(q, k, "new", k)
    BY <1>1 DEF FindKeyword
  <2>3. \A x : SameName(x)' = SameName(x)
    BY <2>1 DEF SameName, Rows
  <2>4. Rows' = Rows
    BY <2>1 DEF Rows
  <2>5. CASE \E x \in SameName(k) : Find(q, k, "same", x)
    BY <2>1, <2>3, <2>5, FindChanges DEF StillSo
  <2>6. CASE SameName(k) = {} /\ \E x \in SimilarRows(k) : Find(q, k, "similar", x)
    <3>1. PICK x \in SimilarRows(k) : Find(q, k, "similar", x)
      BY <2>6
    <3>2. x \in Rows
      BY DEF SimilarRows
    <3>3. run'[q].at = "similar" /\ run'[q].name = k /\ run'[q].row = x
      BY <2>1, <3>1, FindChanges
    <3> QED BY <2>3, <2>4, <2>6, <3>2, <3>3 DEF StillSo
  <2>7. CASE SameName(k) = {} /\ Find(q, k, "new", k)
    <3>1. run'[q].at = "new" /\ run'[q].name = k
      BY <2>1, <2>7, FindChanges
    <3> QED BY <2>3, <2>7, <3>1 DEF StillSo
  <2> QED BY <2>2, <2>5, <2>6, <2>7
<1>2. CASE UseRow(q) \/ InsertRow(q)
  <2>1. PICK name \in Keywords : name = run[q].name
    BY <1>2 DEF UseRow, InsertRow, Naming, Storing, Finding
  <2>2. run'[q].at = "linking" /\ run'[q].name = name /\ run'[q].row = run[q].row
    BY <1>0, <1>2, <2>1 DEF UseRow, InsertRow
  <2>3. run[q].row \in SameName(name)'
    BY <1>2, <2>1, NamesOfWrite
  <2> QED BY <2>2, <2>3 DEF StillSo, SameName, Rows
<1>3. CASE FinishStage(q)
  <2>1. run'[q].at \in {"start", "complete"}
    BY <1>0, <1>3 DEF FinishStage
  <2> QED BY <2>1 DEF StillSo
<1>4. CASE FindRelated(q)
  <2>1. run'[q].at = "related"
    BY <1>0, <1>4 DEF FindRelated
  <2> QED BY <2>1 DEF StillSo
<1>5. CASE \/ BeginStage(q) \/ ActionFails(q) \/ JobRowFails(q) \/ Compute(q) \/ SavePaper(q)
           \/ SaveEmbedding(q) \/ SaveParagraphs(q) \/ InsertCollides(q) \/ LinkKeyword(q)
           \/ SaveTables(q) \/ SaveRelations(q) \/ RelatedIsGone(q) \/ DeletePaper(q)
           \/ DeleteFails(q) \/ Crash(q)
  <2>1. run'[q].at \notin {"same", "similar", "new", "linking"}
    BY <1>0, <1>5 DEF BeginStage, ActionFails, JobRowFails, Compute, SavePaper, SaveEmbedding,
       SaveParagraphs, InsertCollides, LinkKeyword, SaveTables, SaveRelations, RelatedIsGone,
       DeletePaper, DeleteFails, Crash, Raise, AfterError
  <2> QED BY <2>1 DEF StillSo
<1> QED BY <1>1, <1>2, <1>3, <1>4, <1>5 DEF Work

LEMMA ByNameOwn ==
    ASSUME TypeRun, TypeRun', KeywordTables, OneRowEach, NEW q \in Runs, Sound(q), Naming(q),
           FoundStands(q), StillSo(q), NoneLeft(q), ByName(q), Work(q) \/ Crash(q)
    PROVE  ByName(q)'
<1>1. SUFFICES ASSUME ~BrokenOff(q)', NEW k \in run'[q].keywords
               PROVE  Pending(q, k)' \/ LinkedByName(q, k)'
  BY DEF ByName
<1>2. k \in run[q].keywords /\ k \in Keywords /\ ~BrokenOff(q) /\ ~DeletePaper(q)
  BY <1>1, PendingStep DEF TypeRun, RunState
<1>3. links \subseteq links' /\ SameName(k) \subseteq SameName(k)'
  BY <1>2, LinksOfStep, NamesKept
<1>4. CASE LinkedByName(q, k)
  BY <1>3, <1>4 DEF LinkedByName
<1>5. CASE LinkKeyword(q) /\ k = run[q].name
  <2>1. <<q, run[q].row>> \in links' /\ run[q].row \in SameName(k)
    BY <1>5 DEF LinkKeyword, InStage, StillSo
  <2> QED BY <1>3, <2>1 DEF LinkedByName
<1> QED BY <1>1, <1>2, <1>4, <1>5, PendingStep DEF ByName

LEMMA NameFactsStep ==
    ASSUME KeywordFacts, NameFacts, NEW q \in Runs, Work(q) \/ Crash(q)
    PROVE  OneRowEach' /\ AllByName'
<1> USE DEF NameFacts, KeywordFacts, TypedFacts, IInv, Typed, AllFound, AllKept, AllByName
<1>1. TypeRun /\ TypeRun' /\ \A r \in Runs \ {q} : run'[r] = run[r]
  BY OwnStep
<1>2. \A r \in Runs \ {q} : Busy(r) => frequency' = frequency /\ alias' = alias
  BY BusyStep
<1>3. OneRowEach' /\ \A k \in Keywords : SameName(k) \subseteq SameName(k)'
  BY NamesKept
<1>4. ASSUME NEW r \in Runs PROVE StillSo(r)' /\ ByName(r)'
  <2>1. CASE r = q
    BY <1>1, <2>1, StillSoOwn, ByNameOwn
  <2>2. CASE r # q
    <3>1. run'[r] = run[r] /\ run[r].keywords \subseteq Keywords
      BY <1>1, <2>2 DEF TypeRun, RunState
    <3>2. StillSo(r)'
      <4>1. CASE Busy(r)
        <5>1. frequency' = frequency /\ alias' = alias
          BY <1>2, <2>2, <4>1
        <5> QED BY <3>1, <5>1 DEF StillSo, SameName, Rows
      <4>2. CASE ~Busy(r)
        BY <3>1, <4>2 DEF StillSo, Busy, InStage, Ended
      <4> QED BY <4>1, <4>2
    <3>3. \A x \in Keywords : <<r, x>> \in links => <<r, x>> \in links'
      BY <2>2, LinksOfStep
    <3>4. \A k \in Keywords : LinkedByName(r, k) => LinkedByName(r, k)'
      BY <1>3, <3>3 DEF LinkedByName, SameName, Rows
    <3> QED BY <3>1, <3>2, <3>4 DEF ByName, Pending, BrokenOff
  <2> QED BY <2>1, <2>2
<1> QED BY <1>3, <1>4 DEF AllByName

LEMMA NameFactsAlways == CheckedSpec => [](KeywordFacts /\ (~overlapped => NameFacts))
<1> DEFINE Facts == ~overlapped => NameFacts
<1>1. Init => NameFacts
  <2> SUFFICES ASSUME Init PROVE NameFacts
    OBVIOUS
  <2>1. PICK chosen \in [Runs -> (SUBSET Keywords) \ {{}}] :
          run = [r \in Runs |-> [stage |-> 1, at |-> "start",
                                keywords |-> chosen[r], left |-> chosen[r],
                                name |-> NoKeyword, row |-> NoKeyword, related |-> {}]]
    BY DEF Init
  <2>2. \A r \in Runs : /\ run[r].stage = 1 /\ run[r].at = "start"
                        /\ run[r].left = run[r].keywords
    BY <2>1
  <2>3. \A k \in Keywords : alias[k] = NoKeyword
    BY DEF Init
  <2> QED BY <2>2, <2>3 DEF NameFacts, OneBusy, OneRowEach, AllByName, StillSo, ByName, Pending,
                            Busy, InStage
<1>2. KeywordFacts /\ Facts /\ [CheckedNext]_checkedVars => Facts'
  <2> SUFFICES ASSUME KeywordFacts, NameFacts, [CheckedNext]_checkedVars, ~overlapped'
               PROVE  NameFacts'
    BY DEF CheckedNext, checkedVars
  <2>1. OneBusy' /\ [Next]_vars
    BY DEF CheckedNext, checkedVars, vars, NameFacts, OneBusy, Busy, InStage
  <2>2. ASSUME NEW q \in Runs, Work(q) \/ Crash(q) PROVE OneRowEach' /\ AllByName'
    BY <2>2, NameFactsStep
  <2>3. CASE Search \/ UNCHANGED vars
    <3>1. UNCHANGED <<run, links, alias, frequency>>
      BY <2>3 DEF Search, vars, paperTables, keywordTables
    <3>2. Rows' = Rows /\ \A k : SameName(k)' = SameName(k)
      BY <3>1 DEF Rows, SameName
    <3>3. OneRowEach'
      BY <3>1, <3>2 DEF NameFacts, OneRowEach
    <3>4. \A r \in Runs : StillSo(r)'
      BY <3>1, <3>2 DEF NameFacts, AllByName, StillSo
    <3>5. \A r \in Runs : \A k : LinkedByName(r, k) => LinkedByName(r, k)'
      BY <3>1, <3>2 DEF LinkedByName
    <3>6. \A r \in Runs : ByName(r)'
      BY <3>1, <3>5 DEF NameFacts, AllByName, ByName, Pending, BrokenOff
    <3> QED BY <2>1, <3>3, <3>4, <3>6 DEF AllByName, NameFacts
  <2> QED BY <2>1, <2>2, <2>3 DEF Next, NameFacts
<1> HIDE DEF Facts
<1>3. CheckedInit => Init /\ Facts
  BY <1>1 DEF CheckedInit, Facts
<1>4. [CheckedNext]_checkedVars => [Next]_vars
  BY DEF CheckedNext, checkedVars
<1>5. Facts => (~overlapped => NameFacts)
  BY DEF Facts
<1> QED BY <1>2, <1>3, <1>4, <1>5, KeywordFactsAlways, PTL DEF CheckedSpec, Spec

\* Papers ingested one after the other are found by the name of each of their keywords,
\* its own or an alias, for any number of papers and keywords, whatever fails or dies
\* (upsert_keyword, find_keyword_exact).
THEOREM KeywordsAlwaysFind == CheckedSpec => []KeywordsFindPaper
<1>1. KeywordFacts /\ (~overlapped => NameFacts) => KeywordsFindPaper
  <2> SUFFICES ASSUME KeywordFacts, NameFacts, NEW r \in Runs, run[r].stage = 9, NEW k \in run[r].keywords
               PROVE  FoundByName(k) # {} /\ FoundByName(k) \subseteq RowsOf(r)
    BY DEF KeywordsFindPaper
  <2> USE DEF NameFacts, KeywordFacts, TypedFacts, IInv, Typed
  <2>1. k \in Keywords /\ r \in papers
    BY DEF TypeRun, RunState, Sound
  <2>2. run[r].left = {} /\ run[r].at \notin Storing /\ ~BrokenOff(r)
    BY DEF Naming, AllKept, NoneLeft, BrokenOff
  <2>3. PICK x \in SameName(k) : <<r, x>> \in links
    BY <2>2 DEF AllByName, ByName, Pending, LinkedByName
  <2>4. SameName(k) = {x}
    <3>1. alias[k] # NoKeyword => k \notin Rows
      BY <2>1 DEF OneRowEach, Rows
    <3>2. NoKeyword \notin Rows
      BY NoKeywordAssumption DEF Rows
    <3> QED BY <2>3, <3>1, <3>2 DEF SameName
  <2>5. FoundByName(k) = {x}
    BY <2>1, <2>3, <2>4 DEF FoundByName
  <2>6. x \in RowsOf(r)
    BY <2>3 DEF RowsOf
  <2> QED BY <2>5, <2>6
<1> QED BY <1>1, NameFactsAlways, PTL

-----------------------------------------------------------------------------
(* Frequencies. *)

\* The runs that have counted a use of row k: linked to it, or about to be.
Counted(k) == {r \in Runs : <<r, k>> \in links \/ (run[r].at = "linking" /\ run[r].row = k)}
FrequencyCoversCounted == \A k \in Keywords : Cardinality(Counted(k)) <= frequency[k]
FrequencyFacts == KeywordFacts /\ FrequencyCoversCounted

\* Sets of runs are finite, so a set of runs is not larger than one that contains it, and
\* one more run makes at most one more.
LEMMA RunSets ==
    ASSUME NEW S \in SUBSET Runs, NEW T \in SUBSET Runs, NEW q \in Runs
    PROVE  /\ Cardinality(S) \in Nat
           /\ T \subseteq S => Cardinality(T) <= Cardinality(S)
           /\ T \subseteq S \union {q} => Cardinality(T) <= Cardinality(S) + 1
           /\ Cardinality(S) = 0 => S = {}
<1>1. IsFiniteSet(S) /\ IsFiniteSet(T)
  BY RunsAssumption, FS_Subset
<1>2. Cardinality(S) \in Nat /\ Cardinality(T) \in Nat
  BY <1>1, FS_CardinalityType
<1>3. T \subseteq S => Cardinality(T) <= Cardinality(S)
  BY <1>1, FS_Subset
<1>4. IsFiniteSet(S \union {q}) /\ Cardinality(S \union {q}) \in {Cardinality(S), Cardinality(S) + 1}
  BY <1>1, FS_AddElement
<1>5. T \subseteq S \union {q} => Cardinality(T) <= Cardinality(S \union {q})
  BY <1>4, FS_Subset
<1>6. Cardinality(S) = 0 => S = {}
  BY <1>1, FS_EmptySet
<1> QED BY <1>2, <1>3, <1>4, <1>5, <1>6

\* The write of upsert_keyword counts the run; no other step counts one.
LEMMA CountedStep ==
    ASSUME KeywordFacts, NEW q \in Runs, Work(q) \/ Crash(q), NEW k \in Keywords
    PROVE  \/ Counted(k)' \subseteq Counted(k)
           \/ /\ UseRow(q) \/ InsertRow(q)
              /\ run[q].row = k
              /\ Counted(k)' \subseteq Counted(k) \union {q}
<1> USE DEF KeywordFacts, TypedFacts, IInv, TypeRun, RunState, GoTo, InStage, Counted
<1>0. run[q] \in RunState /\ TypeRun'
  BY OwnStep
<1>1. \A r \in Runs \ {q} : run'[r] = run[r]
  BY OwnStep
<1>2. \A r \in Runs \ {q} : <<r, k>> \in links' <=> <<r, k>> \in links
  BY LinksOfStep
<1>3. CASE UseRow(q) \/ InsertRow(q)
  <2>1. run'[q].row = run[q].row /\ links' = links
    BY <1>0, <1>3 DEF UseRow, InsertRow, paperTables
  <2>2. CASE run[q].row = k
    BY <1>1, <1>2, <1>3, <2>2
  <2>3. CASE run[q].row # k
    BY <1>1, <1>2, <2>1, <2>3
  <2> QED BY <2>2, <2>3
<1>4. CASE LinkKeyword(q)
  <2>1. /\ run[q].at = "linking" /\ run'[q].at = "keywords"
        /\ links' = links \union {<<q, run[q].row>>}
    BY <1>0, <1>4 DEF LinkKeyword
  <2>2. q \in Counted(k)' => q \in Counted(k)
    BY <2>1
  <2> QED BY <1>1, <1>2, <2>2
<1>5. CASE FindKeyword(q)
  <2>1. PICK x \in run[q].left, how \in Finding, row \in Keywords : Find(q, x, how, row)
    BY <1>5, FoundIsRight DEF Typed
  <2>2. run'[q].at # "linking" /\ links' = links
    BY <1>0, <1>5, <2>1, FindChanges DEF FindKeyword, Finding, paperTables
  <2> QED BY <1>1, <2>2
<1>6. CASE FindRelated(q)
  <2>1. run'[q].at # "linking" /\ links' = links
    BY <1>0, <1>6 DEF FindRelated, paperTables
  <2> QED BY <1>1, <2>1
<1>7. CASE \/ BeginStage(q) \/ FinishStage(q) \/ ActionFails(q) \/ JobRowFails(q) \/ Compute(q)
           \/ SavePaper(q) \/ SaveEmbedding(q) \/ SaveParagraphs(q) \/ InsertCollides(q)
           \/ SaveTables(q) \/ SaveRelations(q) \/ RelatedIsGone(q) \/ DeletePaper(q)
           \/ DeleteFails(q) \/ Crash(q)
  <2>1. run'[q].at # "linking"
    BY <1>0, <1>7 DEF BeginStage, FinishStage, ActionFails, JobRowFails, Compute, SavePaper,
       SaveEmbedding, SaveParagraphs, InsertCollides, SaveTables, SaveRelations,
       RelatedIsGone, DeletePaper, DeleteFails, Crash, Raise, AfterError
  <2>2. links' \subseteq links
    BY <1>7 DEF BeginStage, FinishStage, ActionFails, JobRowFails, Compute, SavePaper,
       SaveEmbedding, SaveParagraphs, InsertCollides, SaveTables, SaveRelations,
       RelatedIsGone, DeletePaper, DeleteFails, Crash, Raise, paperTables
  <2> QED BY <1>1, <2>1, <2>2
<1> QED BY <1>3, <1>4, <1>5, <1>6, <1>7 DEF Work

LEMMA FrequencyStep ==
    ASSUME KeywordFacts, FrequencyCoversCounted, NEW q \in Runs, Work(q) \/ Crash(q)
    PROVE  FrequencyCoversCounted'
<1> SUFFICES ASSUME NEW k \in Keywords
             PROVE  Cardinality(Counted(k)') <= frequency'[k]
  BY DEF FrequencyCoversCounted, Counted
<1>0. frequency \in [Keywords -> Nat] /\ Counted(k) \in SUBSET Runs /\ Counted(k)' \in SUBSET Runs
  BY DEF KeywordFacts, TypedFacts, Typed, KeywordTables, Counted
<1>1. Cardinality(Counted(k)) <= frequency[k] /\ Cardinality(Counted(k)) \in Nat
      /\ Cardinality(Counted(k)') \in Nat
  BY <1>0, RunSets DEF FrequencyCoversCounted
<1>2. CASE UseRow(q) /\ run[q].row = k
  <2>1. frequency'[k] = frequency[k] + 1
    BY <1>0, <1>2 DEF UseRow
  <2>2. Counted(k)' \subseteq Counted(k) \union {q}
    BY CountedStep
  <2> QED BY <1>0, <1>1, <2>1, <2>2, RunSets
<1>3. CASE InsertRow(q) /\ run[q].row = k
  <2>1. run[q].name = k /\ k \notin Rows
    BY <1>3 DEF InsertRow, KeywordFacts, AllFound, FoundStands, Storing, Finding
  <2>2. frequency[k] = 0
    BY <1>0, <2>1 DEF Rows
  <2>3. frequency'[k] = 1
    BY <1>0, <1>3, <2>1 DEF InsertRow
  <2>4. Cardinality(Counted(k)) = 0
    BY <1>1, <2>2
  <2>5. Counted(k)' \subseteq Counted(k) \union {q}
    BY CountedStep
  <2>6. Cardinality(Counted(k)') <= Cardinality(Counted(k)) + 1
    BY <1>0, <2>5, RunSets
  <2> QED BY <1>1, <2>3, <2>4, <2>6
<1>4. CASE ~((UseRow(q) \/ InsertRow(q)) /\ run[q].row = k)
  <2>1. Counted(k)' \subseteq Counted(k)
    BY <1>4, CountedStep
  <2>2. frequency'[k] >= frequency[k]
    <3>1. CASE UseRow(q)
      BY <1>0, <3>1 DEF UseRow
    <3>2. CASE InsertRow(q)
      <4>1. run[q].name # k
        BY <1>4, <3>2 DEF InsertRow, KeywordFacts, AllFound, FoundStands, Storing, Finding
      <4> QED BY <1>0, <3>2, <4>1 DEF InsertRow
    <3>3. CASE ~UseRow(q) /\ ~InsertRow(q)
      <4>1. frequency' = frequency
        BY <3>3 DEF Work, BeginStage, FinishStage, ActionFails, JobRowFails, Compute, SavePaper,
             SaveEmbedding, SaveParagraphs, FindKeyword, InsertCollides, LinkKeyword,
             SaveTables, FindRelated, SaveRelations, RelatedIsGone, DeletePaper,
             DeleteFails, Crash, Raise, keywordTables
      <4> QED BY <1>0, <4>1
    <3> QED BY <3>1, <3>2, <3>3
  <2>3. Cardinality(Counted(k)') <= Cardinality(Counted(k))
    BY <1>0, <2>1, RunSets
  <2>4. frequency'[k] \in Nat
    BY KeywordTablesStep DEF KeywordFacts, TypedFacts, IInv, Typed, KeywordTables
  <2> QED BY <1>0, <1>1, <2>2, <2>3, <2>4
<1> QED BY <1>2, <1>3, <1>4

LEMMA FrequencyFactsAlways == Spec => []FrequencyFacts
<1>1. Init => FrequencyCoversCounted
  <2> SUFFICES ASSUME Init, NEW k \in Keywords PROVE Cardinality(Counted(k)) <= frequency[k]
    BY DEF FrequencyCoversCounted
  <2>1. links = {} /\ frequency[k] = 0 /\ \A r \in Runs : run[r].at = "start"
    BY DEF Init
  <2>2. Counted(k) = {}
    BY <2>1 DEF Counted
  <2> QED BY <2>1, <2>2, FS_EmptySet
<1>2. KeywordFacts /\ FrequencyCoversCounted /\ [Next]_vars => FrequencyCoversCounted'
  <2> SUFFICES ASSUME KeywordFacts, FrequencyCoversCounted, [Next]_vars
               PROVE  FrequencyCoversCounted'
    OBVIOUS
  <2>1. CASE \E q \in Runs : Work(q) \/ Crash(q)
    BY <2>1, FrequencyStep
  <2>2. CASE Search \/ UNCHANGED vars
    <3>1. UNCHANGED <<run, links, frequency>>
      BY <2>2 DEF Search, vars, paperTables, keywordTables
    <3> QED BY <3>1 DEF FrequencyCoversCounted, Counted
  <2> QED BY <2>1, <2>2 DEF Next
<1> QED BY <1>1, <1>2, KeywordFactsAlways, PTL DEF Spec, FrequencyFacts

\* A keyword's frequency never falls behind the papers linked to it, although counting and
\* linking are two transactions and compensation undoes only the second, for any number
\* of runs and every fault (upsert_keyword, link_paper_keyword).
THEOREM FrequenciesCoverLinks == Spec => []FrequencyCoversLinks
<1>1. FrequencyFacts => FrequencyCoversLinks
  <2> SUFFICES ASSUME FrequencyFacts, NEW k \in Keywords
               PROVE  Cardinality({p \in papers : <<p, k>> \in links}) <= frequency[k]
    BY DEF FrequencyCoversLinks
  <2> DEFINE Linked == {p \in papers : <<p, k>> \in links}
  <2>1. /\ Counted(k) \in SUBSET Runs /\ Linked \in SUBSET Counted(k)
        /\ frequency[k] \in Nat /\ Cardinality(Counted(k)) <= frequency[k]
    BY DEF FrequencyFacts, FrequencyCoversCounted, KeywordFacts, TypedFacts, Typed, Tables,
           KeywordTables, Counted
  <2>2. IsFiniteSet(Counted(k)) /\ IsFiniteSet(Linked)
    BY <2>1, RunsAssumption, FS_Subset
  <2>3. Cardinality(Linked) <= Cardinality(Counted(k))
    BY <2>1, <2>2, FS_Subset
  <2>4. Cardinality(Linked) \in Nat /\ Cardinality(Counted(k)) \in Nat
    BY <2>2, FS_CardinalityType
  <2> QED BY <2>1, <2>3, <2>4
<1> QED BY <1>1, FrequencyFactsAlways, PTL
=============================================================================
