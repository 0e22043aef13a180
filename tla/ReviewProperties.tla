-------------------------- MODULE ReviewProperties --------------------------
(***************************************************************************)
(* The properties of the review workflow.                                  *)
(***************************************************************************)
EXTENDS ReviewService

\* Every copy of the document that exists: the stored one and the clients'.
Copies == ({doc} \union {client[c].copy : c \in Clients}) \ {NoDoc}

-----------------------------------------------------------------------------
(* What holds of every copy, however requests interleave. *)

OcrFollowsBoxIn(d) ==
    d.backend = "paddle" /\ d.phase # "layout_review" =>
        \A b \in Present(d) :
            ~d.blocks[b].held => d.blocks[b].ocr.from = d.blocks[b].box

\* Once a document has left layout review, the OCR text of each block was cropped
\* from the box the block still has, unless the block was rejected when OCR ran
\* (service.py:10-15, update_block and return_to_layout_review).
OcrFollowsBox == \A d \in Copies : OcrFollowsBoxIn(d)

PaperExistsFor(d) ==
    /\ d.status = "ingested" <=> d.paper # NoPaper
    /\ d.paper # NoPaper => papers[d.paper] = "complete"

\* A document says "ingested" exactly when it names a paper, and that paper is one
\* the pipeline finished: never a half paper, never one that was rolled back.
PaperExists == \A d \in Copies : PaperExistsFor(d)

-----------------------------------------------------------------------------
(* What holds when requests do not overlap (one client). *)

Stored(P(_, _)) == doc # NoDoc /\ doc' # NoDoc => P(doc, doc')

GateRespected(d, e) ==
    d.phase = "ocr_review" /\ e.phase = "ready_to_ingest" =>
        Unreviewed(d) = {} \/ (CoverageMet(d) /\ Detects(d, "title"))

\* Text reaches ready_to_ingest only after every block of it was reviewed, or when
\* enough of it was recognised and a title is among it: the two ways out of OCR
\* review, by hand and automatic, leave no third one (confirm_ocr,
\* run_automatic_ocr, reevaluate_automatic_quality).
ReadyGate == [][Stored(GateRespected)]_vars

CorrectionsRespected(d, e) ==
    \A b \in Present(d) \cap Present(e) :
        d.blocks[b].corrected # "none" /\ e.blocks[b].corrected = "none" =>
            "layout_review" \in {d.phase, e.phase}

\* A human correction disappears only together with the OCR text it corrects:
\* when the document goes back to, or comes from, layout review.
CorrectionsKept == [][Stored(CorrectionsRespected)]_vars

RejectionRespected(d, e) ==
    \A b \in Present(d) \cap Present(e) :
        d.blocks[b].review = "rejected" =>
            /\ e.blocks[b].ocr = d.blocks[b].ocr
            /\ d.phase # e.phase => e.blocks[b].review = "rejected"

\* What the reviewer rejected stays as it was: no bulk operation touches the text
\* of a rejected block or un-rejects it while changing the phase.
RejectedUntouched == [][Stored(RejectionRespected)]_vars

Lifecycle == INSTANCE ReviewLifecycle WITH
    phase  <- IF doc = NoDoc THEN "none" ELSE doc.phase,
    status <- IF doc = NoDoc THEN "analyzed" ELSE doc.status,
    paper  <- IF doc = NoDoc THEN NoPaper ELSE doc.paper

\* The stored document moves through phases and statuses as documented.
ImplementsLifecycle == Lifecycle!Spec

-----------------------------------------------------------------------------
(* What comments of the code say and the code does not do. *)

\* Calling ingest again makes no second paper (service.py:790), for a failure in STEP 9
\* does no harm to a paper that is stored (pipeline.py:250-255).
OnePaper == Cardinality({p \in PaperIds : papers[p] = "complete"}) <= 1

\* In a document ready for ingestion no kept block carries text that was cropped
\* from a box it no longer has (service.py:459-461: once a box has been corrected
\* the earlier OCR text must be discarded).
KeptTextMatchesBox ==
    doc # NoDoc => (doc.backend = "paddle" /\ doc.phase = "ready_to_ingest" =>
        \A b \in Kept(doc) : doc.blocks[b].ocr.text = "read" =>
            doc.blocks[b].ocr.from = doc.blocks[b].box)
=============================================================================
