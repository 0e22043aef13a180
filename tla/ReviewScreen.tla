----------------------------- MODULE ReviewScreen -----------------------------
(***************************************************************************)
(* The review tab of one browser session (ui/app.py, _render_upload_review,*)
(* with ui/client.py).                                                     *)
(*                                                                         *)
(* Streamlit runs the script from its top whenever the user touches a      *)
(* widget.  What he sees is the last run's output (`shown`); what his      *)
(* click means is decided by the next run, which first lists the documents *)
(* anew and may find that another one is selected.  A button is known by   *)
(* its label, not by the document it was drawn for.  One run is one step.  *)
(*                                                                         *)
(* Left out: the buttons that deduplicate boxes, the links, metrics.       *)
(***************************************************************************)
EXTENDS OcrJobs

CONSTANT Scopes   \* the choices of review_scope

ASSUME ScopesAssumption ==
    /\ Scopes \subseteq {"pending", "layout", "ocr_exception", "completed", "all"}
    /\ "pending" \in Scopes

VARIABLES
    selected,  \* review_document_id
    scope,     \* review_scope
    watching,  \* ocr_task_<document>
    shown,     \* the document and the buttons on the screen
    forgotten  \* history: jobs the session has lost sight of, or that run twice
screenVars == <<selected, scope, watching, shown, forgotten>>

Buttons == {"ocr", "approve", "return", "ingest"}
Screen == [doc : Docs \union {NoDoc}, buttons : SUBSET Buttons]
NothingShown == [doc |-> NoDoc, buttons |-> {}]

ScreenTypeOK ==
    /\ selected \in Docs \union {NoDoc}
    /\ scope \in Scopes
    /\ watching \in [Docs -> Jobs \union {NoJob}]
    /\ shown \in Screen
    /\ forgotten \subseteq Jobs

NewSession == /\ selected' = NoDoc /\ scope' = "pending" /\ shown' = NothingShown
              /\ watching' = [d \in Docs |-> NoJob]

ScreenInit ==
    /\ selected = NoDoc /\ scope = "pending" /\ shown = NothingShown
    /\ watching = [d \in Docs |-> NoJob]
    /\ forgotten = {}

-----------------------------------------------------------------------------
(* Which document *)

\* _filter_review_documents
InScope(s) ==
    {d \in Existing :
        CASE s = "pending"       -> ~document[d].ingested /\ document[d].unreviewed
          [] s = "layout"        -> document[d].phase = "layout_review"
          [] s = "ocr_exception" -> document[d].phase = "ocr_review"
          [] s = "completed"     -> document[d].ingested \/ ~document[d].unreviewed
          [] OTHER               -> TRUE}
\* an empty scope shows them all
Visible(s) == IF InScope(s) = {} THEN Existing ELSE InScope(s)

\* _default_document_id
Newest(documents) ==
    IF documents = {} THEN NoDoc ELSE CHOOSE d \in documents : \A e \in documents : e <= d
\* the document the script turns to: the selected one while it is in the scope
Current(s) == IF selected \in Visible(s) THEN selected ELSE Newest(Visible(s))

-----------------------------------------------------------------------------
(* What is drawn *)

\* While the script polls it never gets further down.
PollsFor(d) == InPhase(d, "layout_review") /\ watching[d] # NoJob
Polling == PollsFor(Current(scope))

\* Wrong on purpose: `if`, not `elif`, before the button that starts OCR.
ButtonsAlways(d) ==
    IF d \notin Existing THEN {}
    ELSE CASE InPhase(d, "layout_review") -> {"ocr"}
           [] InPhase(d, "ocr_review")    -> {"approve", "return"}
           [] OTHER                       -> IF document[d].ingested THEN {} ELSE {"ingest"}
ButtonsFor(d) ==
    IF d \notin Existing \/ PollsFor(d) THEN {}
    ELSE CASE InPhase(d, "layout_review") -> {"ocr"}
           [] InPhase(d, "ocr_review")    -> {"approve", "return"}
           [] OTHER                       -> IF document[d].ingested THEN {} ELSE {"ingest"}

Show(d, buttons) == selected' = d /\ shown' = [doc |-> d, buttons |-> buttons]

\* st.rerun: the script is run again at once, after it had turned to d
RunAgain(d) == \E e \in Docs :
    /\ e = (IF d \in Visible(scope) THEN d ELSE Newest(Visible(scope)))'
    /\ Show(e, ButtonsFor(e)')

-----------------------------------------------------------------------------
(* One run of the script, about d *)

\* job_status, every two seconds; what has ended is no longer watched
Poll(d) ==
    /\ PollsFor(d)
    /\ UNCHANGED <<jobVars, forgotten>>
    /\ CASE JobStatus(watching[d]) = "pending" -> UNCHANGED watching /\ Show(d, {})
         [] JobStatus(watching[d]) = "success" -> watching' = [watching EXCEPT ![d] = NoJob] /\ RunAgain(d)
         [] OTHER -> watching' = [watching EXCEPT ![d] = NoJob] /\ Show(d, {})
\* an error on the way to the API ends the watch
PollFails(d) ==
    /\ faulty /\ PollsFor(d) /\ Show(d, {})
    /\ watching' = [watching EXCEPT ![d] = NoJob]
    /\ forgotten' = forgotten \union {watching[d]}
    /\ UNCHANGED jobVars

Draw(d) == ~PollsFor(d) /\ Show(d, ButtonsFor(d)) /\ UNCHANGED <<jobVars, watching, forgotten>>

\* No button was pressed, or none that this run draws, or the request failed.
JustRun(d) == Poll(d) \/ PollFails(d) \/ Draw(d)

\* client.run_automatic_ocr_async; the answer may get lost
Submit(d) ==
    \E j \in Jobs :
        /\ Enqueue(j, d)
        /\ \/ /\ watching' = [watching EXCEPT ![d] = j] /\ UNCHANGED forgotten
              /\ RunAgain(d)
           \/ /\ faulty
              /\ forgotten' = forgotten \union {j} /\ UNCHANGED watching
              /\ Show(d, {"ocr"})

RequestChanges(d, contents) ==
    /\ SaveDocument(d, contents)
    /\ UNCHANGED <<message, about, run, outcome, faulty, watching, forgotten>>

\* approve_all_blocks and confirm_document_ocr
Approve(d) ==
    /\ RequestChanges(d, [document[d] EXCEPT !.phase = "ready_to_ingest", !.unreviewed = FALSE])
    /\ RunAgain(d)
ReturnToLayout(d) == RequestChanges(d, Detected) /\ RunAgain(d)
Ingest(d) == RequestChanges(d, [document[d] EXCEPT !.ingested = TRUE]) /\ Show(d, {"ingest"})

Press(button, d) ==
    /\ button \in ButtonsFor(d)
    /\ CASE button = "ocr"     -> Submit(d)
         [] button = "approve" -> Approve(d)
         [] button = "return"  -> ReturnToLayout(d)
         [] button = "ingest"  -> Ingest(d)

-----------------------------------------------------------------------------
(* What the user does *)

ClickOn(button, d) ==
    /\ button \in shown.buttons /\ d = Current(scope)
    /\ UNCHANGED scope
    /\ Press(button, d) \/ JustRun(d)

ChooseScope(s) == scope' = s /\ \E d \in Docs : d = Current(s) /\ JustRun(d)
ChooseDocument(d) == d \in Visible(scope) /\ UNCHANGED scope /\ JustRun(d)
\* st.rerun after two seconds, or anything else on the page
Rerun == \E d \in Docs : d = Current(scope) /\ UNCHANGED scope /\ JustRun(d)

\* upload_document: the layout is analysed while he waits
Upload(d) ==
    /\ document[d] = NoDoc /\ \A e \in Docs : e < d => document[e] # NoDoc
    /\ SaveDocument(d, Detected) /\ Show(d, {"ocr"})
    /\ UNCHANGED <<message, about, run, outcome, faulty, scope, watching, forgotten>>

\* In the viewer, a window of its own, the last block is reviewed.
ReviewBlocks(d) ==
    /\ d \in Existing /\ document[d].unreviewed
    /\ SaveDocument(d, [document[d] EXCEPT !.unreviewed = FALSE])
    /\ UNCHANGED <<message, about, run, outcome, faulty, screenVars>>

\* The page is loaded anew, or the Streamlit server was restarted.
Reload ==
    /\ faulty /\ NewSession
    /\ forgotten' = forgotten \union ({watching[d] : d \in Docs} \ {NoJob})
    /\ UNCHANGED jobVars

UserStep == \/ \E button \in Buttons, d \in Docs : ClickOn(button, d)
            \/ \E s \in Scopes : ChooseScope(s)
            \/ \E d \in Docs : ChooseDocument(d) \/ Upload(d) \/ ReviewBlocks(d)
            \/ Rerun \/ Reload

\* A job whose message is delivered twice is not watched to its end.
JobsStep ==
    /\ JobsNext
    /\ forgotten' = forgotten \union {j \in Jobs : message'[j] = 2}
    /\ UNCHANGED <<selected, scope, watching, shown>>
=============================================================================
