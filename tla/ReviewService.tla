--------------------------- MODULE ReviewService ----------------------------
(***************************************************************************)
(* ReviewService (review/service.py) over PostgresReviewStore              *)
(* (review/store.py), for one document.                                    *)
(*                                                                         *)
(* Every operation is "get the whole document, compute, save the whole     *)
(* document".  get and save are two transactions and nothing ties them     *)
(* together, so each is a step of its own and the requests of API          *)
(* replicas, threadpool workers and Celery workers (Clients) interleave at *)
(* these points.  Requests on different documents share nothing but the    *)
(* papers table, so one document is enough.                                *)
(*                                                                         *)
(*   doc     the row of review_documents                                   *)
(*   client  what each request holds: the stage it has reached and its own *)
(*           copy of the document                                          *)
(*   papers  the papers the ingestion pipeline has created for this        *)
(*           document: "complete", or a "half" paper that a failed run     *)
(*           could not delete                                              *)
(***************************************************************************)
EXTENDS ReviewDocument

CONSTANTS
    Clients,
    NoDoc,
    Requests,    \* bound: the endpoints the clients call, a subset of RequestKinds
    Updates,     \* bound: the bodies of the update_block requests
    Backends,    \* subset of BackendKinds an upload may select
    Leftovers,   \* what a failing pipeline run may leave: "none", "half", "complete"
    Crashes      \* whether a process may die in the middle of a request

RequestKinds ==
    {"add_block", "delete_block", "update_block", "approve_all", "deduplicate",
     "confirm", "reevaluate", "return_to_layout", "run_ocr", "auto_ocr", "ingest"}

ASSUME RequestsAssumption == Requests \subseteq RequestKinds
ASSUME UpdatesAssumption == \A u \in Updates : IsBlockUpdate(u)
ASSUME NoDocAssumption == NoDoc \notin Document
ASSUME BackendsAssumption == Backends \subseteq BackendKinds
ASSUME LeftoversAssumption == Leftovers \subseteq {"none", "half", "complete"}
ASSUME CrashesAssumption == Crashes \in BOOLEAN

VARIABLES doc, client, papers
vars == <<doc, client, papers>>

\* Stages whose next step writes the client's copy to the store.
SaveStages == {"edit", "auto_mark", "auto_judge", "ingest_mark", "ingest_end"}
Stages == SaveStages \union {"idle", "ocr", "auto_get", "auto_ocr", "ingest_run"}

ClientState == [stage: Stages, copy: Document \union {NoDoc}]
Idle == [stage |-> "idle", copy |-> NoDoc]

PaperStates == {"absent", "half", "complete"}

TypeOK == /\ doc \in Document \union {NoDoc}
          /\ client \in [Clients -> ClientState]
          /\ papers \in [PaperIds -> PaperStates]

Init == /\ doc = NoDoc
        /\ client = [c \in Clients |-> Idle]
        /\ papers = [p \in PaperIds |-> "absent"]

-----------------------------------------------------------------------------
(* The two halves of every request. *)

\* store.get plus the checks and the computation that follow it
Hold(c, stage, copy) ==
    /\ client' = [client EXCEPT ![c] = [stage |-> stage, copy |-> copy]]
    /\ UNCHANGED <<doc, papers>>

\* store.save of d by client c, which goes on in stage `next`
Write(c, d, next, copy) ==
    /\ doc' = d
    /\ client' = [client EXCEPT ![c] = [stage |-> next, copy |-> copy]]
    /\ UNCHANGED papers

Free(c, request) == /\ request \in Requests
                    /\ client[c].stage = "idle" /\ doc # NoDoc

Upload == \E backend \in Backends, n \in 0..MaxBlocks :
    \E t \in [1..n -> BlockTypes], box \in [1..n -> Boxes],
       txt \in [1..n -> {"blank", "read"}] :
        /\ doc = NoDoc
        /\ doc' = UploadedDocument(backend, n, t, box, txt)
        /\ UNCHANGED <<client, papers>>

-----------------------------------------------------------------------------
(* Short requests: read, then save the edited copy. *)

BeginAddBlock(c) == \E n \in BlockIds, t \in BlockTypes, box \in Boxes :
    /\ Free(c, "add_block") /\ CanAddBlock(doc, box) /\ IsNextId(doc, n)
    /\ Hold(c, "edit", AddBlock(doc, n, t, box))

BeginDeleteBlock(c) == \E b \in BlockIds :
    /\ Free(c, "delete_block") /\ CanDeleteBlock(doc, b)
    /\ Hold(c, "edit", DeleteBlock(doc, b))

BeginUpdateBlock(c) == \E b \in BlockIds, u \in Updates :
    /\ Free(c, "update_block") /\ CanUpdateBlock(doc, b, u)
    /\ Hold(c, "edit", UpdateBlock(doc, b, u))

BeginApproveAll(c) == Free(c, "approve_all") /\ Hold(c, "edit", ApproveAll(doc))

BeginDeduplicate(c) ==
    /\ Free(c, "deduplicate") /\ CanDeduplicate(doc)
    /\ \E S \in Redundant(doc) : Hold(c, "edit", Deduplicate(doc, S))

BeginConfirm(c) == Free(c, "confirm") /\ CanConfirm(doc) /\ Hold(c, "edit", Confirm(doc))

BeginReevaluate(c) == \E contentOk \in BOOLEAN :
    /\ Free(c, "reevaluate") /\ CanReevaluate(doc)
    /\ Hold(c, "edit", Reevaluate(doc, Quality(doc, contentOk)))

BeginReturnToLayout(c) ==
    /\ Free(c, "return_to_layout") /\ CanReturnToLayout(doc)
    /\ Hold(c, "edit", ReturnToLayout(doc))

SaveEdit(c) == client[c].stage = "edit" /\ Write(c, client[c].copy, "idle", NoDoc)

-----------------------------------------------------------------------------
(* run_reviewed_ocr, and run_automatic_ocr around it *)

BeginOcr(c) == Free(c, "run_ocr") /\ CanRunOcr(doc) /\ Hold(c, "ocr", doc)

BeginAutomaticOcr(c) ==
    Free(c, "auto_ocr") /\ CanRunAutomaticOcr(doc) /\ Hold(c, "auto_mark", ApproveAll(doc))
SaveApproved(c) ==
    client[c].stage = "auto_mark" /\ Write(c, client[c].copy, "auto_get", NoDoc)
\* run_reviewed_ocr reads the document again and repeats its own checks
ReadForAutomaticOcr(c) ==
    /\ client[c].stage = "auto_get"
    /\ IF CanRunOcr(doc) THEN Hold(c, "auto_ocr", doc) ELSE Hold(c, "idle", NoDoc)

\* The recognizer answers; the whole copy read before it started is saved.
FinishOcr(c) ==
    /\ client[c].stage = "ocr" /\ client[c].copy.backend = "paddle"
    /\ \E readable \in SUBSET Croppable(client[c].copy) :
           Write(c, ApplyOcr(client[c].copy, readable), "idle", NoDoc)

FinishAutomaticOcr(c) ==
    /\ client[c].stage = "auto_ocr" /\ client[c].copy.backend = "paddle"
    /\ \E readable \in SUBSET Croppable(client[c].copy), contentOk \in BOOLEAN :
           LET read == ApplyOcr(client[c].copy, readable)
           IN Write(c, read, "auto_judge", Judge(read, Quality(read, contentOk)))
SaveJudged(c) ==
    client[c].stage = "auto_judge" /\ Write(c, client[c].copy, "idle", NoDoc)

\* No slot, a timeout, an error of the worker process, or a backend that has
\* no staged OCR: the exception leaves the stored document as it is.
OcrFails(c) == client[c].stage \in {"ocr", "auto_ocr"} /\ Hold(c, "idle", NoDoc)

-----------------------------------------------------------------------------
(* ingest: mark, run the pipeline, save the outcome *)

BeginIngest(c) ==
    Free(c, "ingest") /\ CanIngest(doc) /\ Hold(c, "ingest_mark", MarkIngesting(doc))
SaveIngesting(c) ==
    /\ client[c].stage = "ingest_mark"
    /\ Write(c, client[c].copy, "ingest_run", client[c].copy)

\* IngestPipeline.run leaves paper p in state `left`, and the request goes on
\* to save d.
EndPipeline(c, p, left, d) ==
    /\ papers[p] = "absent"
    /\ papers' = [papers EXCEPT ![p] = left]
    /\ client' = [client EXCEPT ![c].stage = "ingest_end", ![c].copy = d]
    /\ UNCHANGED doc

PipelineSucceeds(c) ==
    /\ client[c].stage = "ingest_run"
    /\ \E p \in PaperIds :
           EndPipeline(c, p, "complete", MarkIngested(client[c].copy, p))

\* Wrong on purpose: the exception is swallowed.
PipelineFailureUnnoticed(c) ==
    /\ client[c].stage = "ingest_run"
    /\ \E p \in PaperIds, left \in Leftovers \ {"none"} :
           EndPipeline(c, p, left, MarkIngested(client[c].copy, p))
\* Before STEP 3 there is no paper; later it is deleted again ("none"), or the
\* deletion failed too ("half"), or only STEP 9's job record failed ("complete").
PipelineFails(c) ==
    /\ client[c].stage = "ingest_run"
    /\ \/ /\ "none" \in Leftovers
          /\ client' = [client EXCEPT ![c].stage = "ingest_end",
                                      ![c].copy = MarkFailed(client[c].copy)]
          /\ UNCHANGED <<doc, papers>>
       \/ \E p \in PaperIds, left \in Leftovers \ {"none"} :
              EndPipeline(c, p, left, MarkFailed(client[c].copy))

SaveOutcome(c) ==
    client[c].stage = "ingest_end" /\ Write(c, client[c].copy, "idle", NoDoc)

-----------------------------------------------------------------------------
\* The process dies.  Inside the pipeline it may leave a half paper behind.
Crash(c) ==
    /\ Crashes /\ client[c].stage # "idle"
    /\ client' = [client EXCEPT ![c] = Idle]
    /\ UNCHANGED doc
    /\ \/ UNCHANGED papers
       \/ /\ client[c].stage = "ingest_run"
          /\ \E p \in PaperIds : /\ papers[p] = "absent"
                                 /\ papers' = [papers EXCEPT ![p] = "half"]

ShortRequest(c) ==
    \/ BeginAddBlock(c) \/ BeginDeleteBlock(c) \/ BeginUpdateBlock(c)
    \/ BeginApproveAll(c) \/ BeginDeduplicate(c)
    \/ BeginConfirm(c) \/ BeginReevaluate(c) \/ BeginReturnToLayout(c)

\* What a request that has been accepted still has to do.
Proceed(c) ==
    \/ SaveEdit(c) \/ SaveApproved(c) \/ ReadForAutomaticOcr(c)
    \/ FinishOcr(c) \/ FinishAutomaticOcr(c) \/ SaveJudged(c) \/ OcrFails(c)
    \/ SaveIngesting(c) \/ PipelineSucceeds(c) \/ PipelineFails(c) \/ SaveOutcome(c)

Next == \/ Upload
        \/ \E c \in Clients : \/ ShortRequest(c)
                              \/ BeginOcr(c) \/ BeginAutomaticOcr(c) \/ BeginIngest(c)
                              \/ Proceed(c) \/ Crash(c)

Spec == Init /\ [][Next]_vars

\* Requests run to their end: the OCR process is joined with a timeout and every
\* other step is a local computation or a store call.
FairSpec == Spec /\ \A c \in Clients : WF_vars(Proceed(c))
=============================================================================
