------------------------------- MODULE Screens -------------------------------
(***************************************************************************)
(* One browser session with both its tabs (ui/app.py, main), over the      *)
(* background jobs.  The script draws the review tab first: while that     *)
(* polls, it never comes to the search tab.                                *)
(***************************************************************************)
EXTENDS ReviewScreen, SearchScreen

CONSTANT Tabs   \* the tabs a user may work with in one behaviour: any of these sets

ASSUME TabsAssumption == Tabs \subseteq SUBSET {"review", "search"}

VARIABLES
    tabs,        \* the answer to Tabs in this behaviour; never changes
    overlapped   \* history: documents that became ready while another run was at them
sessionVars == <<jobVars, screenVars, searchVars, tabs, overlapped>>

TypeOK == /\ JobsTypeOK /\ ScreenTypeOK /\ SearchTypeOK
          /\ tabs \in Tabs /\ overlapped \subseteq Docs

Init == JobsInit /\ ScreenInit /\ SearchInit /\ tabs \in Tabs /\ overlapped = {}

Review == "review" \in tabs /\ UserStep /\ UNCHANGED searchVars
\* a run of the script that comes to its end
Search == /\ "search" \in tabs /\ ~Polling
          /\ SearchNext
          /\ UNCHANGED <<jobVars, screenVars>>

\* The runs that have read the document and not saved it yet.
AtWork(d) == {w \in Workers : run[w].at \in HoldingStages /\ about[run[w].job] = d}

Next ==
    /\ \/ JobsStep /\ UNCHANGED searchVars
       \/ SessionEnds /\ UNCHANGED <<jobVars, screenVars>>
       \/ Review \/ Search
    /\ UNCHANGED tabs
    /\ overlapped' = overlapped \union
           {d \in Docs : /\ ~InPhase(d, "ready_to_ingest") /\ InPhase(d, "ready_to_ingest")'
                         /\ AtWork(d)' # {}}

Spec == Init /\ [][Next]_sessionVars

\* Workers go on, and a polling page runs itself again.  An OCR run in a worker has no
\* timeout (_run_isolated_paddle calls it inline there): that it ends is assumed.
Fairness == /\ \A w \in Workers : WF_jobVars(WorkerStep(w))
            /\ WF_<<jobVars, screenVars>>(Polling /\ Rerun)
FairSpec == Spec /\ Fairness

-----------------------------------------------------------------------------
\* The session watches each job it started until the job has ended, so a document never
\* has two OCR runs, unless the session was told of an error, was reloaded or the
\* queue delivered the job twice (_render_upload_review, ocr_task_<document>).
NoRunBehindItsBack ==
    \A j \in Jobs : Live(j) => watching[about[j]] = j \/ j \in forgotten

\* What is ready for ingestion, confirmed by a person or passed by the quality check,
\* stays so: of all runs that were ever queued for the document, whether they are
\* watched or not, only one that had read it and not saved it at that time can take it
\* back (run_automatic_ocr and run_reviewed_ocr, which look at the phase when they read).
ReadyStays == [][\A d \in Docs \ overlapped :
    InPhase(d, "ready_to_ingest") => InPhase(d, "ready_to_ingest")']_sessionVars

\* The search tab comes back: a job that is polled for ends, if nothing gets lost.
SearchTabReturns == []<>(faulty \/ ~Polling)

\* The result or the suggestions on the screen answer the query and the options in the
\* session's forms, unless the last form sent got no answer: through rebuilding, suggestions and the
\* session the API keeps for them (_set_result, _set_suggestion, select).
AnswersTheForm ==
    /\ result = Nothing \/ suggestion = Nothing
    /\ ~failed => {result, suggestion} \subseteq {form, Nothing}

\* What a person confirms is the document on his screen, with the results he has looked at
\* (service.py:434-437, the last step of a review in which he approves or corrects the
\* blocks himself; app.py:360, the buttons of the selected document).
ConfirmedWasShown == [][\A d \in Docs :
    /\ ClickOn("approve", d)
    /\ InPhase(d, "ocr_review") /\ InPhase(d, "ready_to_ingest")'
    => d = shown.doc]_sessionVars
=============================================================================
