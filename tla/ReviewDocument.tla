--------------------------- MODULE ReviewDocument ---------------------------
(***************************************************************************)
(* One review document (review/models.py) and what each operation of       *)
(* ReviewService (review/service.py) computes from it.  Everything here is *)
(* a function of a document value: ReviewService.tla says when the value   *)
(* is read from the store and when the result is written back.             *)
(*                                                                         *)
(* Abstractions.  A bbox is a member of Boxes, or NoBox where the code has *)
(* None.  A text is only "blank" or not; an OCR text remembers the box it  *)
(* was cropped from.  Block order and block id grow together (upload       *)
(* numbers both in list order and add_block extends both by one), so a     *)
(* block's id stands for its order too.  (Where layout analysis has given  *)
(* one number twice, see TextFromOwnCrop, it does not.)  Warnings, error   *)
(* strings, page images, quality metrics and timestamps are left out.      *)
(***************************************************************************)
EXTENDS Naturals, FiniteSets

CONSTANTS
    MaxBlocks,      \* bound: block ids run over 1..MaxBlocks
    BlockTypes,     \* the block types that occur
    Boxes, NoBox,   \* the boxes that occur; NoBox is bbox = None and may be one
    NoBlock,        \* "no block has this id"
    PaperIds, NoPaper,
    MinCoveragePct, \* settings.automatic_ocr_min_coverage, in percent
    RequireAuthor   \* settings.automatic_ocr_require_author

BlockIds == 1..MaxBlocks
BoxValues == Boxes \union {NoBox}

Phases == {"layout_review", "ocr_review", "ready_to_ingest"}
Statuses == {"analyzed", "ingesting", "ingested", "failed"}
ReviewStatuses == {"unreviewed", "approved", "corrected", "rejected"}
BackendKinds == {"paddle", "diagnostic"}

OcrText == [from: BoxValues, text: {"blank", "read"}]

(***************************************************************************)
(* manual    the block was drawn by hand (detected_bbox is None)           *)
(* corrected "none" is corrected_text = None                               *)
(* held      history: the block was rejected when OCR last ran, so that    *)
(*           run did not touch it                                          *)
(***************************************************************************)
Block == [type: BlockTypes, box: BoxValues, manual: BOOLEAN,
          review: ReviewStatuses, ocr: OcrText,
          corrected: {"none", "blank", "text"}, held: BOOLEAN]

Document == [backend: BackendKinds, phase: Phases, status: Statuses,
             blocks: [BlockIds -> Block \union {NoBlock}],
             paper: PaperIds \union {NoPaper}]

ASSUME MaxBlocksAssumption == MaxBlocks \in Nat \ {0}
ASSUME NoBlockAssumption == NoBlock \notin Block
ASSUME NoPaperAssumption == NoPaper \notin PaperIds

NoText == [from |-> NoBox, text |-> "blank"]

-----------------------------------------------------------------------------
(* Reading a document. *)

Present(d) == {b \in BlockIds : d.blocks[b] # NoBlock}
Kept(d) == {b \in Present(d) : d.blocks[b].review # "rejected"}
Unreviewed(d) == {b \in Present(d) : d.blocks[b].review = "unreviewed"}

\* ReviewBlock.effective_text, reduced to "is it non-blank".
HasText(blk) ==
    IF blk.corrected = "none" THEN blk.ocr.text = "read"
                              ELSE blk.corrected = "text"

EligibleTypes == {"title", "author", "abstract", "section_header", "text",
                  "table", "table_caption", "reference"}
Eligible(d) == {b \in Kept(d) : d.blocks[b].type \in EligibleTypes}
Recognized(d) == {b \in Eligible(d) : HasText(d.blocks[b])}
EmptyBlocks(d) == Eligible(d) \ Recognized(d)

CoverageMet(d) ==
    IF Eligible(d) = {} THEN MinCoveragePct = 0
    ELSE Cardinality(Recognized(d)) * 100 >= Cardinality(Eligible(d)) * MinCoveragePct
Detects(d, t) == \E b \in Recognized(d) : d.blocks[b].type = t

(***************************************************************************)
(* _automation_quality: coverage, title and author are computed; the two   *)
(* comparisons of text content (title against the "How to cite" line,      *)
(* table structure) are the free argument contentOk.                       *)
(***************************************************************************)
\* Wrong on purpose: no coverage threshold.
QualityWithoutCoverage(d, contentOk) ==
    IF Detects(d, "title") /\ (RequireAuthor => Detects(d, "author")) /\ contentOk
    THEN "passed" ELSE "needs_review"
Quality(d, contentOk) ==
    IF /\ CoverageMet(d)
       /\ Detects(d, "title")
       /\ RequireAuthor => Detects(d, "author")
       /\ contentOk
    THEN "passed" ELSE "needs_review"

-----------------------------------------------------------------------------
(* Changing some blocks, leaving the others alone. *)

Replace(d, new) ==
    [d EXCEPT !.blocks = [b \in BlockIds |-> IF b \in DOMAIN new THEN new[b] ELSE d.blocks[b]]]

ApproveBlock(blk) == [blk EXCEPT !.review = "approved"]
ForgetOcr(blk) == [blk EXCEPT !.ocr = NoText, !.corrected = "none",
                              !.review = "unreviewed"]
RecordOcr(blk, txt) == [blk EXCEPT !.ocr = [from |-> blk.box, text |-> txt],
                                   !.corrected = "none",
                                   !.review = "unreviewed", !.held = FALSE]
HoldBack(blk) == [blk EXCEPT !.held = TRUE]

-----------------------------------------------------------------------------
(* upload *)

NewBlock(backend, t, box, txt) ==
    [type |-> t, box |-> box, manual |-> (box = NoBox), review |-> "unreviewed",
     ocr |-> IF backend = "paddle" THEN NoText ELSE [from |-> box, text |-> txt],
     corrected |-> "none", held |-> FALSE]

\* n detected blocks, described by the functions t, box and txt on 1..n
UploadedDocument(backend, n, t, box, txt) ==
    [backend |-> backend,
     phase |-> IF backend = "paddle" THEN "layout_review" ELSE "ready_to_ingest",
     status |-> "analyzed",
     blocks |-> [b \in BlockIds |-> IF b \in 1..n
                                    THEN NewBlock(backend, t[b], box[b], txt[b])
                                    ELSE NoBlock],
     paper |-> NoPaper]

-----------------------------------------------------------------------------
(* Layout edits: add_block, delete_block, update_block, deduplicate_layout *)

IsNextId(d, n) == /\ \A b \in Present(d) : b < n
                  /\ n = 1 \/ n - 1 \in Present(d)

CanAddBlock(d, box) == d.phase = "layout_review" /\ box # NoBox
AddBlock(d, n, t, box) ==
    [d EXCEPT !.blocks[n] =
        [type |-> t, box |-> box, manual |-> TRUE, review |-> "corrected",
         ocr |-> NoText, corrected |-> "none", held |-> FALSE]]

CanDeleteBlock(d, b) == d.phase = "layout_review" /\ b \in Present(d)
DeleteBlock(d, b) == [d EXCEPT !.blocks[b] = NoBlock]

(***************************************************************************)
(* update_block: u is the request body, a record of the fields to change.  *)
(* A new box may turn out to be NoBox (clipped away), which is not the     *)
(* same as a request without the field.                                    *)
(***************************************************************************)
IsBlockUpdate(u) ==
    /\ DOMAIN u \subseteq {"type", "box", "corrected", "review"}
    /\ "type" \in DOMAIN u => u["type"] \in BlockTypes
    /\ "box" \in DOMAIN u => u["box"] \in BoxValues
    /\ "corrected" \in DOMAIN u => u["corrected"] \in {"blank", "text"}
    /\ "review" \in DOMAIN u => u["review"] \in ReviewStatuses

\* Wrong on purpose: boxes and types never locked.
CanUpdateGeometryAnytime(d, b, u) ==
    /\ b \in Present(d)
    /\ "corrected" \in DOMAIN u => d.phase # "layout_review"
CanUpdateBlock(d, b, u) ==
    /\ b \in Present(d)
    /\ {"box", "type"} \cap DOMAIN u # {} => d.phase = "layout_review"
    /\ "corrected" \in DOMAIN u => d.phase # "layout_review"

Changed(u, field, old) == IF field \in DOMAIN u THEN u[field] ELSE old
EditBlock(blk, u) == [blk EXCEPT !.type = Changed(u, "type", @),
                                 !.box = Changed(u, "box", @),
                                 !.corrected = Changed(u, "corrected", @),
                                 !.review = Changed(u, "review", @)]
\* Wrong on purpose: a field that is not sent counts as null.
UpdateBlockClearingText(d, b, u) ==
    [d EXCEPT !.blocks[b] = [EditBlock(d.blocks[b], u)
                                EXCEPT !.corrected = Changed(u, "corrected", "none")]]
UpdateBlock(d, b, u) == [d EXCEPT !.blocks[b] = EditBlock(d.blocks[b], u)]

ApproveAll(d) == Replace(d, [b \in Unreviewed(d) |-> ApproveBlock(d.blocks[b])])

CanDeduplicate(d) == d.phase = "layout_review"
Automatic(d) == {b \in Kept(d) : ~d.blocks[b].manual}
\* deduplicate_layout_blocks keeps at least one block of a non-empty list
Redundant(d) == {S \in SUBSET Automatic(d) : S # Automatic(d) \/ S = {}}
Deduplicate(d, S) ==
    [d EXCEPT !.blocks = [b \in BlockIds |-> IF b \in S THEN NoBlock ELSE d.blocks[b]]]

-----------------------------------------------------------------------------
(* OCR: run_reviewed_ocr, run_automatic_ocr *)

CanRunOcr(d) == d.phase = "layout_review" /\ Unreviewed(d) = {}

\* Blocks whose crop is handed to the recognizer; figures, formulas and blocks
\* without a box come back with an empty text.
Croppable(d) == {b \in Kept(d) : /\ d.blocks[b].box # NoBox
                                 /\ d.blocks[b].type \notin {"figure", "formula"}}

\* readable: the blocks in which the recognizer found some text
ApplyOcr(d, readable) ==
    [d EXCEPT !.phase = "ocr_review",
              !.blocks = [b \in BlockIds |->
                  CASE b \in Kept(d) ->
                         RecordOcr(d.blocks[b], IF b \in readable THEN "read" ELSE "blank")
                    [] b \in Present(d) \ Kept(d) -> HoldBack(d.blocks[b])
                    [] OTHER -> d.blocks[b]]]

CanRunAutomaticOcr(d) == d.phase = "layout_review"

\* The tail of run_automatic_ocr: approve everything that is kept, except the
\* empty blocks when the verdict is needs_review.
JudgeBlock(d, verdict, b) ==
    IF verdict = "needs_review" /\ b \in EmptyBlocks(d) THEN "unreviewed" ELSE "approved"
\* Wrong on purpose: rejected blocks are judged as well.
JudgeRejectedToo(d, verdict) ==
    [d EXCEPT !.phase = IF verdict = "passed" THEN "ready_to_ingest" ELSE @,
              !.blocks = [b \in BlockIds |->
                  IF b \in Present(d)
                  THEN [d.blocks[b] EXCEPT !.review = JudgeBlock(d, verdict, b)]
                  ELSE d.blocks[b]]]
Judge(d, verdict) ==
    [d EXCEPT !.phase = IF verdict = "passed" THEN "ready_to_ingest" ELSE @,
              !.blocks = [b \in BlockIds |->
                  IF b \in Kept(d)
                  THEN [d.blocks[b] EXCEPT !.review = JudgeBlock(d, verdict, b)]
                  ELSE d.blocks[b]]]

-----------------------------------------------------------------------------
(* Leaving OCR review: confirm_ocr, reevaluate_automatic_quality,          *)
(* return_to_layout_review                                                 *)

CanConfirm(d) == d.phase = "ocr_review" /\ Unreviewed(d) = {}
\* Wrong on purpose: a phase that is not one (the models do not validate assignments).
ConfirmMisspelt(d) == [d EXCEPT !.phase = "ready"]
Confirm(d) == [d EXCEPT !.phase = "ready_to_ingest"]

CanReevaluate(d) == d.phase \in {"ocr_review", "ready_to_ingest"}
Reevaluate(d, verdict) ==
    [d EXCEPT !.phase = IF verdict = "passed" THEN "ready_to_ingest" ELSE "ocr_review"]

CanReturnToLayout(d) == d.phase = "ocr_review"
ReturnToLayout(d) ==
    [Replace(d, [b \in Kept(d) |-> ForgetOcr(d.blocks[b])]) EXCEPT !.phase = "layout_review"]

-----------------------------------------------------------------------------
(* ingest *)

AlreadyIngested(d) == d.status = "ingested" /\ d.paper # NoPaper
\* Wrong on purpose: the phase is not looked at.
CanIngestAnyPhase(d) == ~AlreadyIngested(d)
CanIngest(d) == ~AlreadyIngested(d) /\ d.phase = "ready_to_ingest"
MarkIngesting(d) == [d EXCEPT !.status = "ingesting"]
MarkFailed(d) == [d EXCEPT !.status = "failed"]
MarkIngested(d, p) == [d EXCEPT !.status = "ingested", !.paper = p]
=============================================================================
