---------------------------- MODULE ReviewProofs -----------------------------
(***************************************************************************)
(* What holds of the review for any number of clients, blocks and papers,  *)
(* any overlap of requests, crashes and failing pipelines: TypeOK,         *)
(* OcrFollowsBox and PaperExists.                                          *)
(*                                                                         *)
(* None of them is inductive for the stored document alone, because a save *)
(* replaces it by whatever copy a client holds.  So the invariant (IInv)   *)
(* asks of every copy what it asks of the stored document (Sound), and     *)
(* says which stages hold a copy and that a copy being ingested is marked  *)
(* so (Holding): MarkIngested and MarkFailed are only applied to those.    *)
(* First each operation on a document value keeps Good; then each step of  *)
(* a client keeps IInv.                                                    *)
(*                                                                         *)
(* What holds when one request is served at a time: the gate, corrections, *)
(* rejected documents and the lifecycle (Fresh: a copy is computed from    *)
(* what is stored now), and, without crashes, that a document makes one    *)
(* paper (PapersNamed).                                                    *)
(***************************************************************************)
EXTENDS ReviewProperties, FiniteSetTheorems, TLAPS

\* What PaperExists is about; operations other than those of ingest leave it alone.
Settled(d) == <<d.status, d.paper>>

\* What OcrFollowsBox and TypeOK are about.
Good(d) == d \in Document /\ OcrFollowsBoxIn(d)

-----------------------------------------------------------------------------
(* Operations on a document value. *)

LEMMA AddBlockGood ==
    ASSUME NEW d, Good(d), NEW n \in BlockIds, NEW t \in BlockTypes, NEW box \in BoxValues,
           CanAddBlock(d, box)
    PROVE  Good(AddBlock(d, n, t, box)) /\ Settled(AddBlock(d, n, t, box)) = Settled(d)
BY DEF Good, Document, Block, OcrText, CanAddBlock, AddBlock, OcrFollowsBoxIn, Settled,
       BoxValues, NoText, ReviewStatuses, Present

LEMMA DeleteBlockGood ==
    ASSUME NEW d, Good(d), NEW b \in BlockIds, CanDeleteBlock(d, b)
    PROVE  Good(DeleteBlock(d, b)) /\ Settled(DeleteBlock(d, b)) = Settled(d)
BY DEF Good, Document, CanDeleteBlock, DeleteBlock, OcrFollowsBoxIn, Settled

\* A request changes the box of a block only if it has a box field.
LEMMA EditBlockType ==
    ASSUME NEW blk \in Block, NEW u, IsBlockUpdate(u)
    PROVE  /\ EditBlock(blk, u) \in Block
           /\ EditBlock(blk, u).ocr = blk.ocr
           /\ EditBlock(blk, u).held = blk.held
           /\ "box" \notin DOMAIN u => EditBlock(blk, u).box = blk.box
BY DEF Block, IsBlockUpdate, EditBlock, Changed

LEMMA UpdateBlockGood ==
    ASSUME NEW d, Good(d), NEW b \in BlockIds, NEW u, IsBlockUpdate(u), CanUpdateBlock(d, b, u)
    PROVE  Good(UpdateBlock(d, b, u)) /\ Settled(UpdateBlock(d, b, u)) = Settled(d)
<1> DEFINE blk == d.blocks[b]  e == UpdateBlock(d, b, u)
<1>1. blk \in Block
  BY DEF Good, Document, CanUpdateBlock, Present
<1>2. /\ EditBlock(blk, u) \in Block
      /\ EditBlock(blk, u).ocr = blk.ocr
      /\ EditBlock(blk, u).held = blk.held
      /\ "box" \notin DOMAIN u => EditBlock(blk, u).box = blk.box
  BY <1>1, EditBlockType
<1>3. e \in Document /\ Settled(e) = Settled(d)
  BY <1>2 DEF Good, Document, UpdateBlock, Settled
<1>4. /\ e.backend = d.backend /\ e.phase = d.phase
      /\ e.blocks = [d.blocks EXCEPT ![b] = EditBlock(blk, u)]
  BY DEF Good, Document, UpdateBlock
<1>5. OcrFollowsBoxIn(e)
  <2>1. SUFFICES ASSUME e.backend = "paddle", e.phase # "layout_review",
                        NEW x \in Present(e), ~e.blocks[x].held
                 PROVE  e.blocks[x].ocr.from = e.blocks[x].box
    BY DEF OcrFollowsBoxIn
  <2>2. "box" \notin DOMAIN u
    BY <2>1, <1>4 DEF CanUpdateBlock
  <2>3. CASE x = b
    BY <2>1, <2>2, <2>3, <1>1, <1>2, <1>4
       DEF Good, Document, OcrFollowsBoxIn, CanUpdateBlock, Present
  <2>4. CASE x # b
    BY <2>1, <2>4, <1>4 DEF Good, Document, OcrFollowsBoxIn, Present
  <2> QED BY <2>3, <2>4
<1> QED BY <1>3, <1>5 DEF Good

LEMMA ApproveAllGood ==
    ASSUME NEW d, Good(d)
    PROVE  Good(ApproveAll(d)) /\ Settled(ApproveAll(d)) = Settled(d)
<1> DEFINE e == ApproveAll(d)
<1>1. ASSUME NEW b \in BlockIds
      PROVE  e.blocks[b] = IF b \in Unreviewed(d) THEN ApproveBlock(d.blocks[b]) ELSE d.blocks[b]
  BY DEF Good, Document, ApproveAll, Replace
<1>2. ASSUME NEW b \in Unreviewed(d)
      PROVE  /\ d.blocks[b] \in Block /\ ApproveBlock(d.blocks[b]) \in Block
             /\ ApproveBlock(d.blocks[b]).ocr = d.blocks[b].ocr
             /\ ApproveBlock(d.blocks[b]).box = d.blocks[b].box
             /\ ApproveBlock(d.blocks[b]).held = d.blocks[b].held
  BY DEF Good, Document, Unreviewed, Present, Block, ApproveBlock, ReviewStatuses
<1>3. e \in Document /\ Settled(e) = Settled(d) /\ e.backend = d.backend /\ e.phase = d.phase
  BY <1>2 DEF Good, Document, ApproveAll, Replace, Settled
<1>4. OcrFollowsBoxIn(e)
  BY <1>1, <1>2, <1>3, NoBlockAssumption
     DEF Good, Document, OcrFollowsBoxIn, Present, Unreviewed
<1> QED BY <1>3, <1>4 DEF Good

LEMMA ApplyOcrGood ==
    ASSUME NEW d, Good(d), NEW readable
    PROVE  /\ Good(ApplyOcr(d, readable))
           /\ Settled(ApplyOcr(d, readable)) = Settled(d)
           /\ ApplyOcr(d, readable).phase = "ocr_review"
<1> DEFINE e == ApplyOcr(d, readable)
<1>1. e.phase = "ocr_review" /\ DOMAIN e.blocks = BlockIds /\ Settled(e) = Settled(d)
  BY DEF Good, Document, ApplyOcr, Settled
<1>2. ASSUME NEW b \in BlockIds
      PROVE  /\ e.blocks[b] \in Block \union {NoBlock}
             /\ b \in Present(d) => e.blocks[b] \in Block
             /\ b \in Present(e) /\ ~e.blocks[b].held => e.blocks[b].ocr.from = e.blocks[b].box
  <2>1. CASE b \notin Present(d)
    BY <2>1 DEF Good, Document, ApplyOcr, Kept, Present
  <2>2. CASE b \in Kept(d)
    <3>1. PICK txt \in {"read", "blank"} : e.blocks[b] = RecordOcr(d.blocks[b], txt)
      BY <2>2 DEF Good, Document, ApplyOcr
    <3>2. d.blocks[b] \in Block
      BY <2>2 DEF Kept, Present, Good, Document
    <3>3. /\ RecordOcr(d.blocks[b], txt) \in Block
          /\ RecordOcr(d.blocks[b], txt).ocr.from = RecordOcr(d.blocks[b], txt).box
      BY <3>2 DEF Block, OcrText, RecordOcr, ReviewStatuses
    <3> QED BY <3>1, <3>3
  <2>3. CASE b \in Present(d) \ Kept(d)
    <3>1. e.blocks[b] = HoldBack(d.blocks[b])
      BY <2>3 DEF Good, Document, ApplyOcr
    <3>2. d.blocks[b] \in Block
      BY <2>3 DEF Present, Good, Document
    <3> QED BY <3>1, <3>2, <2>3 DEF Block, HoldBack
  <2> QED BY <2>1, <2>2, <2>3
<1>3. e \in Document
  <2>1. e.blocks \in [BlockIds -> Block \union {NoBlock}]
    BY <1>2 DEF Good, Document, ApplyOcr
  <2> QED BY <2>1 DEF Good, Document, ApplyOcr, Phases
<1>4. OcrFollowsBoxIn(e)
  BY <1>2 DEF OcrFollowsBoxIn, Present
<1> QED BY <1>1, <1>3, <1>4 DEF Good

LEMMA ReturnToLayoutGood ==
    ASSUME NEW d, Good(d)
    PROVE  Good(ReturnToLayout(d)) /\ Settled(ReturnToLayout(d)) = Settled(d)
<1> DEFINE e == ReturnToLayout(d)
<1>1. ASSUME NEW b \in Kept(d)
      PROVE  ForgetOcr(d.blocks[b]) \in Block
  BY DEF Good, Document, Kept, Present, Block, OcrText, NoText, BoxValues, ForgetOcr, ReviewStatuses
<1>2. e \in Document /\ e.phase = "layout_review" /\ Settled(e) = Settled(d)
  BY <1>1 DEF Good, Document, ReturnToLayout, Replace, Phases, Settled
<1> QED BY <1>2 DEF Good, OcrFollowsBoxIn

LEMMA DeduplicateGood ==
    ASSUME NEW d, Good(d), NEW S, CanDeduplicate(d)
    PROVE  Good(Deduplicate(d, S)) /\ Settled(Deduplicate(d, S)) = Settled(d)
BY DEF Good, Document, CanDeduplicate, Deduplicate, OcrFollowsBoxIn, Settled

LEMMA JudgeGood ==
    ASSUME NEW d, Good(d), d.phase = "ocr_review", NEW verdict
    PROVE  Good(Judge(d, verdict)) /\ Settled(Judge(d, verdict)) = Settled(d)
<1> DEFINE e == Judge(d, verdict)
<1>1. ASSUME NEW b \in BlockIds
      PROVE  /\ e.blocks[b] \in Block \union {NoBlock}
             /\ b \in Present(e) => /\ b \in Present(d)
                                    /\ e.blocks[b].held = d.blocks[b].held
                                    /\ e.blocks[b].ocr = d.blocks[b].ocr
                                    /\ e.blocks[b].box = d.blocks[b].box
  <2>1. CASE b \in Kept(d)
    <3>1. PICK r \in ReviewStatuses : e.blocks[b] = [d.blocks[b] EXCEPT !.review = r]
      BY <2>1 DEF Good, Document, Judge, JudgeBlock, ReviewStatuses
    <3>2. d.blocks[b] \in Block
      BY <2>1 DEF Kept, Present, Good, Document
    <3> QED BY <3>1, <3>2, <2>1 DEF Block, Kept
  <2>2. CASE b \notin Kept(d)
    BY <2>2 DEF Good, Document, Judge, Present
  <2> QED BY <2>1, <2>2
<1>2. e \in Document /\ e.backend = d.backend /\ Settled(e) = Settled(d)
  <2>1. e.blocks \in [BlockIds -> Block \union {NoBlock}]
    BY <1>1 DEF Good, Document, Judge
  <2> QED BY <2>1 DEF Good, Document, Judge, Phases, Settled
<1>3. OcrFollowsBoxIn(e)
  BY <1>1, <1>2 DEF Good, OcrFollowsBoxIn, Present
<1> QED BY <1>2, <1>3 DEF Good

LEMMA ChangePhaseGood ==
    ASSUME NEW d, Good(d)
    PROVE  /\ CanConfirm(d) => Good(Confirm(d)) /\ Settled(Confirm(d)) = Settled(d)
           /\ \A verdict : CanReevaluate(d) =>
                 Good(Reevaluate(d, verdict)) /\ Settled(Reevaluate(d, verdict)) = Settled(d)
BY DEF Good, Document, Phases, CanConfirm, Confirm, CanReevaluate, Reevaluate,
       OcrFollowsBoxIn, Present, Settled

LEMMA MarkGood ==
    ASSUME NEW d, Good(d)
    PROVE  /\ Good(MarkIngesting(d)) /\ MarkIngesting(d).status = "ingesting"
                /\ MarkIngesting(d).paper = d.paper
           /\ Good(MarkFailed(d)) /\ MarkFailed(d).status = "failed"
                /\ MarkFailed(d).paper = d.paper
           /\ \A p \in PaperIds : /\ Good(MarkIngested(d, p))
                                  /\ MarkIngested(d, p).status = "ingested"
                                  /\ MarkIngested(d, p).paper = p
BY DEF Good, Document, Statuses, MarkIngesting, MarkFailed, MarkIngested,
       OcrFollowsBoxIn, Present

LEMMA UploadGood ==
    ASSUME NEW backend \in BackendKinds, NEW n \in 0..MaxBlocks,
           NEW t \in [1..n -> BlockTypes], NEW box \in [1..n -> Boxes],
           NEW txt \in [1..n -> {"blank", "read"}]
    PROVE  LET d == UploadedDocument(backend, n, t, box, txt)
           IN  Good(d) /\ d.status = "analyzed" /\ d.paper = NoPaper
<1> DEFINE d == UploadedDocument(backend, n, t, box, txt)
<1>1. ASSUME NEW b \in 1..n
      PROVE  NewBlock(backend, t[b], box[b], txt[b]) \in Block
  BY DEF NewBlock, Block, OcrText, NoText, BoxValues, ReviewStatuses
<1>2. d \in Document
  BY <1>1 DEF UploadedDocument, Document, Phases, Statuses
<1>3. d.backend = backend /\ d.status = "analyzed" /\ d.paper = NoPaper
      /\ (backend = "paddle" => d.phase = "layout_review")
  BY DEF UploadedDocument
<1> QED BY <1>2, <1>3 DEF Good, OcrFollowsBoxIn

-----------------------------------------------------------------------------
(* The inductive invariant. *)

\* What every copy of the document satisfies.
Sound(d) == Good(d) /\ PaperExistsFor(d)

HoldsCopy == Stages \ {"idle", "auto_get"}

\* What a client in stage `stage` may hold.
Holding(stage, copy) ==
    /\ stage \in Stages
    /\ IF stage \in HoldsCopy THEN Sound(copy) ELSE copy = NoDoc
    /\ stage \in {"ingest_mark", "ingest_run"} => copy.status = "ingesting"

IInv ==
    /\ doc = NoDoc \/ Sound(doc)
    /\ client \in [Clients -> ClientState]
    /\ \A c \in Clients : Holding(client[c].stage, client[c].copy)
    /\ papers \in [PaperIds -> PaperStates]
    /\ doc = NoDoc => \A c \in Clients : client[c].stage = "idle"

-----------------------------------------------------------------------------
(* Steps of the clients. *)

LEMMA IInvInit == Init => IInv
BY DEF Init, IInv, Idle, ClientState, Holding, HoldsCopy, Stages, SaveStages, PaperStates

LEMMA IInvImplies == IInv => TypeOK /\ OcrFollowsBox /\ PaperExists
BY DEF IInv, Sound, Good, Holding, TypeOK, OcrFollowsBox, PaperExists, Copies

\* A document that stays Good and keeps status and paper stays Sound.
LEMMA SettledSound ==
    ASSUME NEW d, NEW e, Sound(d), Good(e), Settled(e) = Settled(d)
    PROVE  Sound(e)
BY DEF Sound, PaperExistsFor, Settled

\* What the invariant says of the stored document and of a held copy.
LEMMA StoredSound ==
    ASSUME IInv, NEW c \in Clients, NEW request, Free(c, request)
    PROVE  Sound(doc) /\ Good(doc) /\ doc # NoDoc
BY DEF IInv, Free, Sound

LEMMA CopySound ==
    ASSUME IInv, NEW c \in Clients, client[c].stage \in HoldsCopy
    PROVE  Sound(client[c].copy)
BY DEF IInv, Holding

\* The two halves of a request keep the invariant.
LEMMA HoldStep ==
    ASSUME IInv, NEW c \in Clients, NEW stage, NEW copy,
           Holding(stage, copy), Hold(c, stage, copy), stage = "idle" \/ doc # NoDoc
    PROVE  IInv'
<1>1. copy \in Document \union {NoDoc} /\ stage \in Stages
  BY DEF Holding, Sound, Good
<1>2. client' \in [Clients -> ClientState]
  BY <1>1 DEF IInv, Hold, ClientState
<1>3. \A d : PaperExistsFor(d)' <=> PaperExistsFor(d)
  BY DEF Hold, PaperExistsFor
<1>4. doc' = NoDoc => \A x \in Clients : client'[x].stage = "idle"
  BY DEF IInv, Hold, ClientState
<1> QED
  BY <1>2, <1>4 DEF IInv, Hold, Holding, Sound, Good, OcrFollowsBoxIn, Present, PaperExistsFor

LEMMA WriteStep ==
    ASSUME IInv, NEW c \in Clients, NEW d, Sound(d), NEW next, NEW copy,
           Holding(next, copy), Write(c, d, next, copy)
    PROVE  IInv'
<1>1. copy \in Document \union {NoDoc} /\ next \in Stages
  BY DEF Holding, Sound, Good
<1>2. client' \in [Clients -> ClientState]
  BY <1>1 DEF IInv, Write, ClientState
<1>3. \A x \in Clients : Holding(client'[x].stage, client'[x].copy)
  <2> TAKE x \in Clients
  <2>1. CASE x = c
    <3>1. client'[x] = [stage |-> next, copy |-> copy]
      BY <2>1 DEF Write, IInv
    <3> QED BY <3>1
  <2>2. CASE x # c
    <3>1. client'[x] = client[x]
      BY <2>2 DEF Write, IInv
    <3> QED BY <3>1 DEF IInv
  <2> QED BY <2>1, <2>2
<1>4. doc' # NoDoc
  BY NoDocAssumption DEF Write, Sound, Good
<1> QED BY <1>2, <1>3, <1>4 DEF IInv, Write, Holding, Sound, Good, OcrFollowsBoxIn, Present, PaperExistsFor

\* A paper that did not exist gets a state: no document can have named it.
LEMMA PapersGrow ==
    ASSUME IInv, NEW p \in PaperIds, NEW left \in PaperStates, papers[p] = "absent",
           papers' = [papers EXCEPT ![p] = left]
    PROVE  /\ papers' \in [PaperIds -> PaperStates]
           /\ \A d : Sound(d) => Sound(d)'
<1>1. \A q \in PaperIds : papers[q] = "complete" => papers'[q] = "complete"
  BY DEF IInv
<1> QED BY <1>1 DEF IInv, Sound, Good, Document, OcrFollowsBoxIn, Present, PaperExistsFor

\* A pipeline run that ends with a paper.
LEMMA EndPipelineStep ==
    ASSUME IInv, NEW c \in Clients, client[c].stage = "ingest_run",
           NEW p \in PaperIds, NEW left \in PaperStates, NEW d, Good(d),
           \/ d.status = "ingested" /\ d.paper = p /\ left = "complete"
           \/ d.status = "failed" /\ d.paper = NoPaper,
           EndPipeline(c, p, left, d)
    PROVE  IInv'
<1>1. /\ papers' \in [PaperIds -> PaperStates]
      /\ \A e : Sound(e) => Sound(e)'
  BY PapersGrow DEF EndPipeline
<1>2. Sound(d)'
  BY NoPaperAssumption DEF IInv, EndPipeline, Sound, Good, PaperExistsFor, OcrFollowsBoxIn, Present
<1>3. client' \in [Clients -> ClientState]
  BY DEF IInv, EndPipeline, ClientState, Good, Stages, SaveStages
<1>4. ASSUME NEW x \in Clients
      PROVE  Holding(client[x].stage, client[x].copy)'
  <2>1. CASE x = c
    BY <2>1, <1>2 DEF IInv, EndPipeline, ClientState, Holding, HoldsCopy, Stages, SaveStages
  <2>2. CASE x # c
    <3>1. client'[x] = client[x]
      BY <2>2 DEF EndPipeline, IInv
    <3> QED BY <3>1, <1>1 DEF IInv, Holding
  <2> QED BY <2>1, <2>2
<1>5. doc' = NoDoc \/ Sound(doc)'
  BY <1>1 DEF IInv, EndPipeline
<1>6. doc' = NoDoc => \A x \in Clients : client'[x].stage = "idle"
  BY DEF IInv, EndPipeline
<1> QED BY <1>1, <1>3, <1>4, <1>5, <1>6 DEF IInv

-----------------------------------------------------------------------------
(* Every action preserves it. *)

\* What an edit computes from the stored document may be held in order to be saved.
LEMMA EditHolding ==
    ASSUME NEW d, Sound(d)
    PROVE  Holding("edit", d) /\ Holding("auto_mark", d) /\ Holding("auto_judge", d)
           /\ Holding("ocr", d) /\ Holding("auto_ocr", d) /\ Holding("ingest_end", d)
BY DEF Holding, HoldsCopy, Stages, SaveStages

LEMMA NoCopyHolding == Holding("idle", NoDoc) /\ Holding("auto_get", NoDoc)
BY DEF Holding, HoldsCopy, Stages, SaveStages

\* Every step of a client, and Upload, keeps the invariant.
LEMMA ShortRequestStep ==
    ASSUME IInv, NEW c \in Clients, ShortRequest(c)
    PROVE  IInv'
<1>1. SUFFICES ASSUME Sound(doc), doc # NoDoc, NEW e, Good(e),
                      Settled(e) = Settled(doc), Hold(c, "edit", e)
               PROVE  IInv'
  <2> DEFINE Computes(e) == Good(e) /\ Settled(e) = Settled(doc) /\ Hold(c, "edit", e)
  <2>1. Sound(doc) /\ Good(doc) /\ doc # NoDoc
    BY StoredSound DEF ShortRequest, BeginAddBlock, BeginDeleteBlock, BeginUpdateBlock,
       BeginApproveAll, BeginDeduplicate, BeginConfirm, BeginReevaluate,
       BeginReturnToLayout
  <2>2. CASE BeginAddBlock(c)
    <3>1. PICK n \in BlockIds, t \in BlockTypes, box \in Boxes :
             CanAddBlock(doc, box) /\ Hold(c, "edit", AddBlock(doc, n, t, box))
      BY <2>2 DEF BeginAddBlock
    <3>2. Computes(AddBlock(doc, n, t, box))
      BY <2>1, <3>1, AddBlockGood DEF BoxValues
    <3> QED BY <2>1, <3>2
  <2>3. CASE BeginDeleteBlock(c)
    <3>1. PICK b \in BlockIds : CanDeleteBlock(doc, b) /\ Hold(c, "edit", DeleteBlock(doc, b))
      BY <2>3 DEF BeginDeleteBlock
    <3>2. Computes(DeleteBlock(doc, b))
      BY <2>1, <3>1, DeleteBlockGood
    <3> QED BY <2>1, <3>2
  <2>4. CASE BeginUpdateBlock(c)
    <3>1. PICK b \in BlockIds, u \in Updates :
             CanUpdateBlock(doc, b, u) /\ Hold(c, "edit", UpdateBlock(doc, b, u))
      BY <2>4 DEF BeginUpdateBlock
    <3>2. Computes(UpdateBlock(doc, b, u))
      BY <2>1, <3>1, UpdateBlockGood, UpdatesAssumption
    <3> QED BY <2>1, <3>2
  <2>5. CASE BeginApproveAll(c)
    <3>1. Computes(ApproveAll(doc))
      BY <2>1, <2>5, ApproveAllGood DEF BeginApproveAll
    <3> QED BY <2>1, <3>1
  <2>6. CASE BeginDeduplicate(c)
    <3>1. PICK S : CanDeduplicate(doc) /\ Hold(c, "edit", Deduplicate(doc, S))
      BY <2>6 DEF BeginDeduplicate
    <3>2. Computes(Deduplicate(doc, S))
      BY <2>1, <3>1, DeduplicateGood
    <3> QED BY <2>1, <3>2
  <2>7. CASE BeginConfirm(c)
    <3>1. Computes(Confirm(doc))
      BY <2>1, <2>7, ChangePhaseGood DEF BeginConfirm
    <3> QED BY <2>1, <3>1
  <2>8. CASE BeginReevaluate(c)
    <3>1. PICK verdict : CanReevaluate(doc) /\ Hold(c, "edit", Reevaluate(doc, verdict))
      BY <2>8 DEF BeginReevaluate
    <3>2. Computes(Reevaluate(doc, verdict))
      BY <2>1, <3>1, ChangePhaseGood
    <3> QED BY <2>1, <3>2
  <2>9. CASE BeginReturnToLayout(c)
    <3>1. Computes(ReturnToLayout(doc))
      BY <2>1, <2>9, ReturnToLayoutGood DEF BeginReturnToLayout
    <3> QED BY <2>1, <3>1
  <2> QED BY <2>2, <2>3, <2>4, <2>5, <2>6, <2>7, <2>8, <2>9 DEF ShortRequest
<1>2. Holding("edit", e)
  BY <1>1, SettledSound, EditHolding
<1> QED BY <1>1, <1>2, HoldStep

LEMMA BeginLongRequestStep ==
    ASSUME IInv, NEW c \in Clients, BeginOcr(c) \/ BeginAutomaticOcr(c) \/ BeginIngest(c)
    PROVE  IInv'
<1>1. Sound(doc) /\ Good(doc) /\ doc # NoDoc
  BY StoredSound DEF BeginOcr, BeginAutomaticOcr, BeginIngest
<1>2. CASE BeginOcr(c)
  BY <1>1, <1>2, EditHolding, HoldStep DEF BeginOcr
<1>3. CASE BeginAutomaticOcr(c)
  <2>1. Sound(ApproveAll(doc))
    BY <1>1, ApproveAllGood, SettledSound
  <2> QED BY <1>1, <1>3, <2>1, EditHolding, HoldStep DEF BeginAutomaticOcr
<1>4. CASE BeginIngest(c)
  <2> DEFINE d == MarkIngesting(doc)
  <2>1. doc.paper = NoPaper
    BY <1>1, <1>4 DEF BeginIngest, CanIngest, AlreadyIngested, Sound, PaperExistsFor
  <2>2. Good(d) /\ d.status = "ingesting" /\ d.paper = NoPaper
    BY <1>1, <2>1, MarkGood
  <2>3. Holding("ingest_mark", d)
    BY <2>2 DEF Holding, HoldsCopy, Stages, SaveStages, Sound, PaperExistsFor
  <2> QED BY <1>1, <1>4, <2>3, HoldStep DEF BeginIngest
<1> QED BY <1>2, <1>3, <1>4

LEMMA SaveStep ==
    ASSUME IInv, NEW c \in Clients,
           SaveEdit(c) \/ SaveApproved(c) \/ SaveJudged(c) \/ SaveIngesting(c) \/ SaveOutcome(c)
    PROVE  IInv'
<1> DEFINE d == client[c].copy
<1>1. client[c].stage \in HoldsCopy
  BY DEF SaveEdit, SaveApproved, SaveJudged, SaveIngesting, SaveOutcome,
         HoldsCopy, Stages, SaveStages
<1>2. Sound(d)
  BY <1>1, CopySound
<1>3. CASE SaveIngesting(c)
  <2>1. Holding("ingest_run", d)
    BY <1>2, <1>3 DEF SaveIngesting, IInv, Holding, HoldsCopy, Stages, SaveStages
  <2> QED BY <1>2, <1>3, <2>1, WriteStep DEF SaveIngesting
<1>4. CASE ~SaveIngesting(c)
  <2>1. Write(c, d, "idle", NoDoc) \/ Write(c, d, "auto_get", NoDoc)
    BY <1>4 DEF SaveEdit, SaveApproved, SaveJudged, SaveOutcome
  <2> QED BY <1>2, <2>1, NoCopyHolding, WriteStep
<1> QED BY <1>3, <1>4

LEMMA OcrStep ==
    ASSUME IInv, NEW c \in Clients,
           ReadForAutomaticOcr(c) \/ FinishOcr(c) \/ FinishAutomaticOcr(c) \/ OcrFails(c)
    PROVE  IInv'
<1> DEFINE d == client[c].copy
<1>1. CASE ReadForAutomaticOcr(c)
  <2>1. Sound(doc) /\ doc # NoDoc
    BY <1>1 DEF ReadForAutomaticOcr, IInv
  <2> QED BY <1>1, <2>1, EditHolding, NoCopyHolding, HoldStep DEF ReadForAutomaticOcr
<1>2. CASE OcrFails(c)
  BY <1>2, NoCopyHolding, HoldStep DEF OcrFails
<1>3. CASE FinishOcr(c) \/ FinishAutomaticOcr(c)
  <2>1. Sound(d) /\ Good(d)
    BY <1>3, CopySound DEF FinishOcr, FinishAutomaticOcr, HoldsCopy, Stages, SaveStages, Sound
  <2>2. PICK readable, verdict : LET read == ApplyOcr(d, readable) IN
          \/ Write(c, read, "idle", NoDoc)
          \/ Write(c, read, "auto_judge", Judge(read, verdict))
    BY <1>3 DEF FinishOcr, FinishAutomaticOcr
  <2> DEFINE read == ApplyOcr(d, readable)
  <2>3. Good(read) /\ read.phase = "ocr_review" /\ Sound(read)
    BY <2>1, ApplyOcrGood, SettledSound
  <2>4. Sound(Judge(read, verdict))
    BY <2>3, JudgeGood, SettledSound
  <2> QED BY <2>2, <2>3, <2>4, EditHolding, NoCopyHolding, WriteStep
<1> QED BY <1>1, <1>2, <1>3

LEMMA PipelineStep ==
    ASSUME IInv, NEW c \in Clients, PipelineSucceeds(c) \/ PipelineFails(c)
    PROVE  IInv'
<1> DEFINE d == client[c].copy
<1>1. client[c].stage = "ingest_run"
  BY DEF PipelineSucceeds, PipelineFails
<1>2. Good(d) /\ d.paper = NoPaper
  BY <1>1, CopySound
     DEF IInv, Holding, HoldsCopy, Stages, SaveStages, Sound, PaperExistsFor
<1>3. /\ Good(MarkFailed(d)) /\ MarkFailed(d).status = "failed" /\ MarkFailed(d).paper = NoPaper
      /\ \A p \in PaperIds : /\ Good(MarkIngested(d, p)) /\ MarkIngested(d, p).paper = p
                             /\ MarkIngested(d, p).status = "ingested"
  BY <1>2, MarkGood
<1>4. CASE PipelineSucceeds(c)
  <2>1. PICK p \in PaperIds : EndPipeline(c, p, "complete", MarkIngested(d, p))
    BY <1>4 DEF PipelineSucceeds
  <2> QED BY <1>1, <1>3, <2>1, EndPipelineStep DEF PaperStates
<1>5. CASE \E p \in PaperIds, left \in Leftovers \ {"none"} :
              EndPipeline(c, p, left, MarkFailed(d))
  <2>1. PICK p \in PaperIds, left \in PaperStates : EndPipeline(c, p, left, MarkFailed(d))
    BY <1>5, LeftoversAssumption DEF PaperStates
  <2> QED BY <1>1, <1>3, <2>1, EndPipelineStep
<1>6. CASE /\ client' = [client EXCEPT ![c].stage = "ingest_end", ![c].copy = MarkFailed(d)]
           /\ UNCHANGED <<doc, papers>>
  <2>1. Sound(MarkFailed(d))
    BY <1>3 DEF Sound, PaperExistsFor
  <2>2. client' \in [Clients -> ClientState]
    BY <1>6, <2>1 DEF IInv, ClientState, Stages, SaveStages, Sound, Good
  <2>3. \A x \in Clients : Holding(client'[x].stage, client'[x].copy)
    BY <1>6, <2>1, EditHolding DEF IInv, ClientState
  <2>4. doc' = NoDoc => \A x \in Clients : client'[x].stage = "idle"
    BY <1>1, <1>6 DEF IInv
  <2> QED
    BY <1>6, <2>2, <2>3, <2>4
       DEF IInv, Holding, Sound, Good, OcrFollowsBoxIn, Present, PaperExistsFor
<1> QED BY <1>4, <1>5, <1>6 DEF PipelineFails

LEMMA CrashStep ==
    ASSUME IInv, NEW c \in Clients, Crash(c)
    PROVE  IInv'
<1>1. doc # NoDoc
  BY DEF Crash, IInv
<1>2. CASE UNCHANGED papers
  <2>1. Hold(c, "idle", NoDoc)
    BY <1>2 DEF Crash, Hold, Idle
  <2> QED BY <2>1, NoCopyHolding, HoldStep
<1>3. CASE \E p \in PaperIds : papers[p] = "absent" /\ papers' = [papers EXCEPT ![p] = "half"]
  <2>1. /\ papers' \in [PaperIds -> PaperStates]
        /\ \A e : Sound(e) => Sound(e)'
    BY <1>3, PapersGrow DEF PaperStates
  <2>2. client' \in [Clients -> ClientState]
    BY DEF Crash, IInv, Idle, ClientState, Stages
  <2>3. ASSUME NEW x \in Clients
        PROVE  Holding(client[x].stage, client[x].copy)'
    <3>1. client'[x] = client[x] \/ client'[x] = Idle
      BY DEF Crash, IInv
    <3> QED BY <3>1, <2>1, NoCopyHolding DEF Idle, IInv, Holding, HoldsCopy
  <2>4. doc' = doc
    BY DEF Crash
  <2> QED BY <1>1, <2>1, <2>2, <2>3, <2>4 DEF IInv
<1> QED BY <1>2, <1>3 DEF Crash

LEMMA UploadStep ==
    ASSUME IInv, Upload
    PROVE  IInv'
<1>1. PICK backend \in BackendKinds, n \in 0..MaxBlocks :
         \E t \in [1..n -> BlockTypes], box \in [1..n -> Boxes],
            txt \in [1..n -> {"blank", "read"}] :
             doc' = UploadedDocument(backend, n, t, box, txt)
  BY BackendsAssumption DEF Upload
<1>2. Good(doc') /\ doc'.status = "analyzed" /\ doc'.paper = NoPaper
  BY <1>1, UploadGood
<1>3. Sound(doc')
  BY <1>2 DEF Sound, PaperExistsFor
<1>4. UNCHANGED <<client, papers>>
  BY DEF Upload
<1>5. doc' # NoDoc
  BY <1>2, NoDocAssumption DEF Good
<1> QED
  BY <1>3, <1>4, <1>5
     DEF IInv, Holding, Sound, Good, OcrFollowsBoxIn, Present, PaperExistsFor

LEMMA IInvNext == IInv /\ [Next]_vars => IInv'
<1> SUFFICES ASSUME IInv, [Next]_vars PROVE IInv'
  OBVIOUS
<1>1. CASE Upload
  BY <1>1, UploadStep
<1>2. ASSUME NEW c \in Clients,
             \/ ShortRequest(c) \/ BeginOcr(c) \/ BeginAutomaticOcr(c) \/ BeginIngest(c)
             \/ Proceed(c) \/ Crash(c)
      PROVE  IInv'
  BY <1>2, ShortRequestStep, BeginLongRequestStep, SaveStep, OcrStep, PipelineStep, CrashStep
     DEF Proceed
<1>3. CASE UNCHANGED vars
  BY <1>3 DEF vars, IInv, Holding, Sound, Good, OcrFollowsBoxIn, Present, PaperExistsFor
<1> QED BY <1>1, <1>2, <1>3 DEF Next

-----------------------------------------------------------------------------
\* The invariant holds in every reachable state, for any number of clients,
\* blocks, papers and requests.
LEMMA IInvAlways == Spec => []IInv
<1>1. Init => IInv
  BY IInvInit
<1>2. IInv /\ [Next]_vars => IInv'
  BY IInvNext
<1> QED BY <1>1, <1>2, PTL DEF Spec

\* Every stored document and every copy is a well-formed document (models.py).
THEOREM TypeCorrect == Spec => []TypeOK
<1>1. IInv => TypeOK
  BY IInvImplies
<1> QED BY <1>1, IInvAlways, PTL

\* However requests interleave, no copy that has left layout review has a text
\* cropped from another box, except in blocks the last OCR run skipped
\* (update_block's lock on geometry, run_reviewed_ocr, return_to_layout_review).
THEOREM OcrAlwaysFollowsBox == Spec => []OcrFollowsBox
<1>1. IInv => OcrFollowsBox
  BY IInvImplies
<1> QED BY <1>1, IInvAlways, PTL

\* "ingested" is said only of a document that names a finished paper, whatever
\* overlaps, crashes or fails (ingest).
THEOREM PaperAlwaysExists == Spec => []PaperExists
<1>1. IInv => PaperExists
  BY IInvImplies
<1> QED BY <1>1, IInvAlways, PTL

-----------------------------------------------------------------------------
(***************************************************************************)
(* One request at a time.  With a single client nothing is saved between   *)
(* its read and its save, so what it holds is computed from the document   *)
(* that is still stored (Computed), and every save changes the stored      *)
(* document as the operation does.                                         *)
(***************************************************************************)

Permitted(d, e) == /\ GateRespected(d, e)
                   /\ CorrectionsRespected(d, e)
                   /\ RejectionRespected(d, e)

\* The phases an operation that does not ingest may lead to.
PhaseFollows(d, e) == e.phase = d.phase \/ <<d.phase, e.phase>> \in Lifecycle!Edge

Changes(d, e) == Permitted(d, e) /\ PhaseFollows(d, e) /\ Settled(e) = Settled(d)

\* Each operation on a document value is permitted.
LEMMA SmallEditsPermitted ==
    ASSUME NEW d, Good(d)
    PROVE  /\ \A n \in BlockIds, t \in BlockTypes, box \in Boxes :
                 IsNextId(d, n) => Changes(d, AddBlock(d, n, t, box))
           /\ \A b \in BlockIds : Changes(d, DeleteBlock(d, b))
           /\ \A S : Changes(d, Deduplicate(d, S))
<1>1. ASSUME NEW n \in BlockIds, NEW t \in BlockTypes, NEW box \in Boxes, IsNextId(d, n)
      PROVE  Changes(d, AddBlock(d, n, t, box))
  <2> DEFINE e == AddBlock(d, n, t, box)
  <2>1. /\ e.phase = d.phase /\ Settled(e) = Settled(d)
        /\ \A b \in BlockIds \ {n} : e.blocks[b] = d.blocks[b]
    BY DEF Good, Document, AddBlock, Settled
  <2>2. n \notin Present(d)
    BY <1>1 DEF IsNextId, BlockIds
  <2> QED BY <2>1, <2>2 DEF Changes, Permitted, GateRespected, CorrectionsRespected,
                            RejectionRespected, PhaseFollows, Present, Good, Document, Phases
<1>2. ASSUME NEW b \in BlockIds PROVE Changes(d, DeleteBlock(d, b))
  BY DEF Good, Document, DeleteBlock, Settled, Changes, Permitted, GateRespected,
         CorrectionsRespected, RejectionRespected, PhaseFollows, Present
<1>3. ASSUME NEW S PROVE Changes(d, Deduplicate(d, S))
  BY DEF Good, Document, Deduplicate, Settled, Changes, Permitted, GateRespected,
         CorrectionsRespected, RejectionRespected, PhaseFollows, Present
<1> QED BY <1>1, <1>2, <1>3

LEMMA UpdateBlockPermitted ==
    ASSUME NEW d, Good(d), NEW b \in BlockIds, NEW u, IsBlockUpdate(u), CanUpdateBlock(d, b, u)
    PROVE  Changes(d, UpdateBlock(d, b, u))
<1> DEFINE blk == d.blocks[b]  e == UpdateBlock(d, b, u)
<1>1. blk \in Block /\ DOMAIN d.blocks = BlockIds
  BY DEF Good, Document, CanUpdateBlock, Present
<1>2. /\ EditBlock(blk, u).ocr = blk.ocr
      /\ EditBlock(blk, u).corrected = Changed(u, "corrected", blk.corrected)
  BY <1>1 DEF Block, EditBlock
<1>3. EditBlock(blk, u).corrected = "none" => blk.corrected = "none"
  BY <1>2 DEF Changed, IsBlockUpdate
<1>4. /\ e.phase = d.phase /\ Settled(e) = Settled(d)
      /\ e.blocks = [d.blocks EXCEPT ![b] = EditBlock(blk, u)]
  BY DEF Good, Document, UpdateBlock, Settled
<1>5. \A x \in BlockIds : \/ e.blocks[x] = d.blocks[x]
                          \/ x = b /\ e.blocks[x] = EditBlock(blk, u)
  BY <1>1, <1>4
<1> QED BY <1>2, <1>3, <1>4, <1>5
        DEF Changes, Permitted, GateRespected, CorrectionsRespected, RejectionRespected,
            PhaseFollows, Present, Good, Document, Phases

LEMMA ApproveAllPermitted ==
    ASSUME NEW d, Good(d)
    PROVE  Changes(d, ApproveAll(d))
<1> DEFINE e == ApproveAll(d)
<1>1. ASSUME NEW b \in BlockIds
      PROVE  e.blocks[b] = IF b \in Unreviewed(d) THEN ApproveBlock(d.blocks[b]) ELSE d.blocks[b]
  BY DEF Good, Document, ApproveAll, Replace
<1>2. ASSUME NEW b \in Unreviewed(d)
      PROVE  /\ ApproveBlock(d.blocks[b]).corrected = d.blocks[b].corrected
             /\ d.blocks[b].review # "rejected"
  BY DEF Good, Document, Unreviewed, Present, Block, ApproveBlock, ReviewStatuses
<1>3. e.phase = d.phase /\ Settled(e) = Settled(d)
  BY DEF Good, Document, ApproveAll, Replace, Settled
<1> QED BY <1>1, <1>2, <1>3
        DEF Changes, Permitted, GateRespected, CorrectionsRespected, RejectionRespected,
            PhaseFollows, Present, Good, Document, Phases

LEMMA ApplyOcrPermitted ==
    ASSUME NEW d, Good(d), d.phase = "layout_review", NEW readable
    PROVE  Changes(d, ApplyOcr(d, readable))
<1> DEFINE e == ApplyOcr(d, readable)
<1>1. e.phase = "ocr_review" /\ Settled(e) = Settled(d)
  BY DEF Good, Document, ApplyOcr, Settled
<1>2. ASSUME NEW b \in Present(d), d.blocks[b].review = "rejected"
      PROVE  e.blocks[b].ocr = d.blocks[b].ocr /\ e.blocks[b].review = "rejected"
  <2>1. b \in BlockIds /\ d.blocks[b] \in Block
    BY DEF Present, Good, Document
  <2>2. e.blocks[b] = HoldBack(d.blocks[b])
    BY <1>2, <2>1 DEF Good, Document, ApplyOcr, Kept
  <2> QED BY <1>2, <2>1, <2>2 DEF Block, HoldBack
<1> QED BY <1>1, <1>2 DEF Changes, Permitted, GateRespected, CorrectionsRespected,
           RejectionRespected, PhaseFollows, Lifecycle!Edge

LEMMA JudgePermitted ==
    ASSUME NEW d, Good(d), d.phase = "ocr_review", NEW contentOk
    PROVE  Changes(d, Judge(d, Quality(d, contentOk)))
<1> DEFINE verdict == Quality(d, contentOk)  e == Judge(d, verdict)
<1>1. /\ Settled(e) = Settled(d)
      /\ e.phase = IF verdict = "passed" THEN "ready_to_ingest" ELSE "ocr_review"
  BY DEF Good, Document, Judge, Settled
<1>2. verdict = "passed" => CoverageMet(d) /\ Detects(d, "title")
  BY DEF Quality
<1>3. ASSUME NEW b \in Present(d)
      PROVE  /\ e.blocks[b].corrected = d.blocks[b].corrected
             /\ d.blocks[b].review = "rejected" => e.blocks[b] = d.blocks[b]
  <2>1. b \in BlockIds /\ d.blocks[b] \in Block
    BY DEF Present, Good, Document
  <2>2. CASE b \in Kept(d)
    <3>1. e.blocks[b] = [d.blocks[b] EXCEPT !.review = JudgeBlock(d, verdict, b)]
      BY <2>1, <2>2 DEF Good, Document, Judge
    <3> QED BY <2>1, <2>2, <3>1 DEF Block, Kept
  <2>3. CASE b \notin Kept(d)
    BY <2>1, <2>3 DEF Good, Document, Judge
  <2> QED BY <2>2, <2>3
<1> QED BY <1>1, <1>2, <1>3 DEF Changes, Permitted, GateRespected, CorrectionsRespected,
           RejectionRespected, PhaseFollows, Lifecycle!Edge

LEMMA PhaseChangesPermitted ==
    ASSUME NEW d, Good(d)
    PROVE  /\ CanConfirm(d) => Changes(d, Confirm(d))
           /\ \A contentOk : CanReevaluate(d) => Changes(d, Reevaluate(d, Quality(d, contentOk)))
<1>1. ASSUME CanConfirm(d) PROVE Changes(d, Confirm(d))
  BY <1>1 DEF Good, Document, CanConfirm, Confirm, Settled, Changes, Permitted, GateRespected,
              CorrectionsRespected, RejectionRespected, PhaseFollows, Lifecycle!Edge, Present
<1>2. ASSUME NEW contentOk, CanReevaluate(d)
      PROVE  Changes(d, Reevaluate(d, Quality(d, contentOk)))
  <2> DEFINE verdict == Quality(d, contentOk)  e == Reevaluate(d, verdict)
  <2>1. /\ e.blocks = d.blocks /\ Settled(e) = Settled(d)
        /\ e.phase = IF verdict = "passed" THEN "ready_to_ingest" ELSE "ocr_review"
        /\ d.phase \in {"ocr_review", "ready_to_ingest"}
    BY <1>2 DEF Good, Document, CanReevaluate, Reevaluate, Settled
  <2>2. verdict = "passed" => CoverageMet(d) /\ Detects(d, "title")
    BY DEF Quality
  <2> QED BY <2>1, <2>2 DEF Changes, Permitted, GateRespected, CorrectionsRespected,
             RejectionRespected, PhaseFollows, Lifecycle!Edge, Present
<1> QED BY <1>1, <1>2

LEMMA ReturnToLayoutPermitted ==
    ASSUME NEW d, Good(d), CanReturnToLayout(d)
    PROVE  Changes(d, ReturnToLayout(d))
<1> DEFINE e == ReturnToLayout(d)
<1>1. d.phase = "ocr_review" /\ e.phase = "layout_review" /\ Settled(e) = Settled(d)
  BY DEF Good, Document, CanReturnToLayout, ReturnToLayout, Replace, Settled
<1>2. ASSUME NEW b \in Present(d), d.blocks[b].review = "rejected"
      PROVE  e.blocks[b] = d.blocks[b]
  BY <1>2 DEF Good, Document, ReturnToLayout, Replace, Kept, Present
<1> QED BY <1>1, <1>2 DEF Changes, Permitted, GateRespected, CorrectionsRespected,
           RejectionRespected, PhaseFollows, Lifecycle!Edge

-----------------------------------------------------------------------------
(* What the client holds, step by step. *)

OneClient == \A c, x \in Clients : c = x

Outcome(d, e) == /\ d.status = "ingesting"
                 /\ e = MarkFailed(d) \/ \E p \in PaperIds : e = MarkIngested(d, p)

\* e, held in stage `stage`, was computed from the stored document d.
Computed(stage, d, e) ==
    /\ stage \in {"edit", "auto_mark", "auto_judge"} => Changes(d, e)
    /\ stage \in {"ocr", "auto_ocr"} => e = d /\ d.phase = "layout_review"
    /\ stage = "ingest_mark" => CanIngest(d) /\ e = MarkIngesting(d)
    /\ stage = "ingest_run" => e = d
    /\ stage = "ingest_end" => Outcome(d, e)

Fresh == \A c \in Clients : Computed(client[c].stage, doc, client[c].copy)

\* What one step makes of the stored document.
Saved(d, e) == \/ e = d
               \/ Changes(d, e)
               \/ CanIngest(d) /\ e = MarkIngesting(d)
               \/ Outcome(d, e)

LEMMA FreshHold ==
    ASSUME OneClient, IInv, NEW c \in Clients, NEW stage, NEW copy,
           Hold(c, stage, copy), Computed(stage, doc, copy)
    PROVE  Fresh' /\ Saved(doc, doc')
<1>1. client' = [client EXCEPT ![c] = [stage |-> stage, copy |-> copy]] /\ doc' = doc
  BY DEF Hold
<1>2. client'[c].stage = stage /\ client'[c].copy = copy
  BY <1>1 DEF IInv
<1> QED BY <1>1, <1>2 DEF Fresh, OneClient, Saved

LEMMA FreshWrite ==
    ASSUME OneClient, IInv, NEW c \in Clients, NEW d, NEW next, NEW copy,
           Write(c, d, next, copy), Computed(next, d, copy), Saved(doc, d)
    PROVE  Fresh' /\ Saved(doc, doc')
<1>1. client' = [client EXCEPT ![c] = [stage |-> next, copy |-> copy]] /\ doc' = d
  BY DEF Write
<1>2. client'[c].stage = next /\ client'[c].copy = copy
  BY <1>1 DEF IInv
<1> QED BY <1>1, <1>2 DEF Fresh, OneClient

\* A request that holds nothing computed.
LEMMA NothingComputed ==
    \A d, e : Computed("idle", d, e) /\ Computed("auto_get", d, e)
BY DEF Computed

LEMMA FreshShortRequest ==
    ASSUME OneClient, IInv, Fresh, NEW c \in Clients, ShortRequest(c)
    PROVE  Fresh' /\ Saved(doc, doc')
<1>1. Good(doc)
  BY StoredSound DEF ShortRequest, BeginAddBlock, BeginDeleteBlock, BeginUpdateBlock,
     BeginApproveAll, BeginDeduplicate, BeginConfirm, BeginReevaluate, BeginReturnToLayout
<1>2. SUFFICES \E e : Changes(doc, e) /\ Hold(c, "edit", e)
  BY FreshHold DEF Computed
<1>3. CASE BeginAddBlock(c)
  BY <1>1, <1>3, SmallEditsPermitted DEF BeginAddBlock
<1>4. CASE BeginDeleteBlock(c)
  BY <1>1, <1>4, SmallEditsPermitted DEF BeginDeleteBlock
<1>5. CASE BeginUpdateBlock(c)
  BY <1>1, <1>5, UpdateBlockPermitted, UpdatesAssumption DEF BeginUpdateBlock
<1>6. CASE BeginApproveAll(c)
  BY <1>1, <1>6, ApproveAllPermitted DEF BeginApproveAll
<1>7. CASE BeginDeduplicate(c)
  BY <1>1, <1>7, SmallEditsPermitted DEF BeginDeduplicate
<1>8. CASE BeginConfirm(c)
  BY <1>1, <1>8, PhaseChangesPermitted DEF BeginConfirm
<1>9. CASE BeginReevaluate(c)
  BY <1>1, <1>9, PhaseChangesPermitted DEF BeginReevaluate
<1>10. CASE BeginReturnToLayout(c)
  BY <1>1, <1>10, ReturnToLayoutPermitted DEF BeginReturnToLayout
<1> QED BY <1>3, <1>4, <1>5, <1>6, <1>7, <1>8, <1>9, <1>10 DEF ShortRequest

LEMMA FreshBegin ==
    ASSUME OneClient, IInv, Fresh, NEW c \in Clients,
           BeginOcr(c) \/ BeginAutomaticOcr(c) \/ ReadForAutomaticOcr(c) \/ BeginIngest(c)
           \/ OcrFails(c)
    PROVE  Fresh' /\ Saved(doc, doc')
<1>1. CASE BeginOcr(c)
  <2>1. Computed("ocr", doc, doc) /\ Hold(c, "ocr", doc)
    BY <1>1 DEF BeginOcr, CanRunOcr, Computed
  <2> QED BY <2>1, FreshHold
<1>2. CASE BeginAutomaticOcr(c)
  <2>1. Good(doc)
    BY <1>2, StoredSound DEF BeginAutomaticOcr
  <2>2. Computed("auto_mark", doc, ApproveAll(doc)) /\ Hold(c, "auto_mark", ApproveAll(doc))
    BY <1>2, <2>1, ApproveAllPermitted DEF BeginAutomaticOcr, Computed
  <2> QED BY <2>2, FreshHold
<1>3. CASE ReadForAutomaticOcr(c)
  <2>1. \/ Computed("auto_ocr", doc, doc) /\ Hold(c, "auto_ocr", doc)
        \/ Hold(c, "idle", NoDoc)
    BY <1>3 DEF ReadForAutomaticOcr, CanRunOcr, Computed
  <2> QED BY <2>1, NothingComputed, FreshHold
<1>4. CASE BeginIngest(c)
  <2>1. /\ Computed("ingest_mark", doc, MarkIngesting(doc))
        /\ Hold(c, "ingest_mark", MarkIngesting(doc))
    BY <1>4 DEF BeginIngest, Computed
  <2> QED BY <2>1, FreshHold
<1>5. CASE OcrFails(c)
  BY <1>5, NothingComputed, FreshHold DEF OcrFails
<1> QED BY <1>1, <1>2, <1>3, <1>4, <1>5

LEMMA FreshSave ==
    ASSUME OneClient, IInv, Fresh, NEW c \in Clients,
           SaveEdit(c) \/ SaveApproved(c) \/ SaveJudged(c) \/ SaveIngesting(c) \/ SaveOutcome(c)
    PROVE  Fresh' /\ Saved(doc, doc')
<1> DEFINE d == client[c].copy
<1>1. Computed(client[c].stage, doc, d)
  BY DEF Fresh
<1>2. Saved(doc, d)
  BY <1>1 DEF Computed, Saved, SaveEdit, SaveApproved, SaveJudged, SaveIngesting, SaveOutcome
<1>3. \/ Write(c, d, "idle", NoDoc) \/ Write(c, d, "auto_get", NoDoc)
      \/ Write(c, d, "ingest_run", d)
  BY DEF SaveEdit, SaveApproved, SaveJudged, SaveIngesting, SaveOutcome
<1>4. Computed("ingest_run", d, d)
  BY DEF Computed
<1> HIDE DEF d
<1> QED BY <1>2, <1>3, <1>4, NothingComputed, FreshWrite

LEMMA FreshFinishOcr ==
    ASSUME OneClient, IInv, Fresh, NEW c \in Clients, FinishOcr(c) \/ FinishAutomaticOcr(c)
    PROVE  Fresh' /\ Saved(doc, doc')
<1>1. client[c].copy = doc /\ doc.phase = "layout_review" /\ Good(doc)
  <2>1. client[c].stage \in {"ocr", "auto_ocr"}
    BY DEF FinishOcr, FinishAutomaticOcr
  <2>2. Sound(client[c].copy)
    BY <2>1, CopySound DEF HoldsCopy, Stages, SaveStages
  <2> QED BY <2>1, <2>2 DEF Fresh, Computed, Sound
<1>2. PICK readable, contentOk : LET read == ApplyOcr(doc, readable) IN
        \/ Write(c, read, "idle", NoDoc)
        \/ Write(c, read, "auto_judge", Judge(read, Quality(read, contentOk)))
  BY <1>1 DEF FinishOcr, FinishAutomaticOcr
<1> DEFINE read == ApplyOcr(doc, readable)
<1>3. Changes(doc, read) /\ Good(read) /\ read.phase = "ocr_review"
  BY <1>1, ApplyOcrPermitted, ApplyOcrGood
<1>4. Computed("auto_judge", read, Judge(read, Quality(read, contentOk)))
  BY <1>3, JudgePermitted DEF Computed
<1>5. Saved(doc, read)
  BY <1>3 DEF Saved
<1> HIDE DEF read
<1> QED BY <1>2, <1>4, <1>5, NothingComputed, FreshWrite DEF read

LEMMA FreshPipeline ==
    ASSUME OneClient, IInv, Fresh, NEW c \in Clients, PipelineSucceeds(c) \/ PipelineFails(c)
    PROVE  Fresh' /\ Saved(doc, doc')
<1> DEFINE d == client[c].copy
<1>1. d = doc /\ doc.status = "ingesting"
  BY DEF PipelineSucceeds, PipelineFails, IInv, Holding, Fresh, Computed
<1>2. \E e : /\ client' = [client EXCEPT ![c].stage = "ingest_end", ![c].copy = e]
             /\ e = MarkFailed(d) \/ \E p \in PaperIds : e = MarkIngested(d, p)
  BY DEF PipelineSucceeds, PipelineFails, EndPipeline
<1>3. doc' = doc
  BY DEF PipelineSucceeds, PipelineFails, EndPipeline
<1>4. client'[c].stage = "ingest_end" /\ Outcome(doc, client'[c].copy)
  BY <1>1, <1>2 DEF IInv, ClientState, Outcome
<1> QED BY <1>3, <1>4 DEF Fresh, Computed, OneClient, Saved

LEMMA FreshCrash ==
    ASSUME OneClient, IInv, Fresh, NEW c \in Clients, Crash(c)
    PROVE  Fresh' /\ Saved(doc, doc')
<1>1. client'[c].stage = "idle" /\ doc' = doc
  BY DEF Crash, IInv, Idle
<1> QED BY <1>1 DEF Fresh, Computed, OneClient, Saved

\* Every step of an uncontended workflow keeps what the client holds fresh, and
\* leaves the stored document alone or changes it as one operation does.
LEMMA FreshNext ==
    ASSUME OneClient, IInv, Fresh, [Next]_vars
    PROVE  Fresh' /\ (doc # NoDoc => Saved(doc, doc'))
<1>1. CASE Upload
  <2>1. \A c \in Clients : client'[c].stage = "idle"
    BY <1>1 DEF Upload, IInv
  <2> QED BY <1>1, <2>1, NothingComputed DEF Fresh, Computed, Upload
<1>2. ASSUME NEW c \in Clients,
             \/ ShortRequest(c) \/ BeginOcr(c) \/ BeginAutomaticOcr(c) \/ BeginIngest(c)
             \/ Proceed(c) \/ Crash(c)
      PROVE  Fresh' /\ Saved(doc, doc')
  BY <1>2, FreshShortRequest, FreshBegin, FreshSave, FreshFinishOcr, FreshPipeline, FreshCrash
     DEF Proceed
<1>3. CASE UNCHANGED vars
  BY <1>3 DEF vars, Fresh, Saved
<1> QED BY <1>1, <1>2, <1>3 DEF Next

LEMMA FreshAlways ==
    ASSUME OneClient
    PROVE  Spec => [](IInv /\ Fresh)
<1>1. Init => IInv /\ Fresh
  BY IInvInit, NothingComputed DEF Init, Idle, Fresh
<1>2. IInv /\ Fresh /\ [Next]_vars => (IInv /\ Fresh)'
  BY IInvNext, FreshNext
<1> QED BY <1>1, <1>2, PTL DEF Spec

LEMMA SavedPermitted ==
    ASSUME NEW d, NEW e, Good(d), Saved(d, e)
    PROVE  Permitted(d, e)
<1>1. CASE e = d
  BY <1>1 DEF Permitted, GateRespected, CorrectionsRespected, RejectionRespected
<1>2. CASE Changes(d, e)
  BY <1>2 DEF Changes
<1>3. CASE (CanIngest(d) /\ e = MarkIngesting(d)) \/ Outcome(d, e)
  <2>1. e.phase = d.phase /\ e.blocks = d.blocks
    BY <1>3 DEF Good, Document, MarkIngesting, Outcome, MarkFailed, MarkIngested
  <2> QED BY <2>1 DEF Permitted, GateRespected, CorrectionsRespected, RejectionRespected
<1> QED BY <1>1, <1>2, <1>3 DEF Saved

\* In a step between two stored documents the old one permits the new one.
LEMMA StepPermitted ==
    ASSUME OneClient, IInv, Fresh, [Next]_vars, doc # NoDoc
    PROVE  Permitted(doc, doc')
BY FreshNext, SavedPermitted DEF IInv, Sound

\* One request after another, crashes included, text becomes ready for ingestion
\* only through a complete review or a quality gate that was met.
THEOREM GateAlwaysRespected ==
    ASSUME OneClient
    PROVE  Spec => ReadyGate
<1>1. IInv /\ Fresh /\ [Next]_vars => [Stored(GateRespected)]_vars
  BY StepPermitted DEF Stored, Permitted
<1> QED BY <1>1, FreshAlways, PTL DEF Spec, ReadyGate

\* One request after another, crashes included, a human correction is lost only
\* on the way out of or into layout review.
THEOREM CorrectionsAlwaysKept ==
    ASSUME OneClient
    PROVE  Spec => CorrectionsKept
<1>1. IInv /\ Fresh /\ [Next]_vars => [Stored(CorrectionsRespected)]_vars
  BY StepPermitted DEF Stored, Permitted
<1> QED BY <1>1, FreshAlways, PTL DEF Spec, CorrectionsKept

\* One request after another, crashes included, no bulk operation reads text
\* into a rejected block or un-rejects it.
THEOREM RejectedStayUntouched ==
    ASSUME OneClient
    PROVE  Spec => RejectedUntouched
<1>1. IInv /\ Fresh /\ [Next]_vars => [Stored(RejectionRespected)]_vars
  BY StepPermitted DEF Stored, Permitted
<1> QED BY <1>1, FreshAlways, PTL DEF Spec, RejectedUntouched

-----------------------------------------------------------------------------
(* The stored document implements ReviewLifecycle, one request at a time.  *)

LEMMA NotStored ==
    ASSUME IInv, doc = NoDoc, [Next]_vars
    PROVE  Upload \/ UNCHANGED vars
BY DEF Next, IInv, ShortRequest, BeginAddBlock, BeginDeleteBlock, BeginUpdateBlock,
   BeginApproveAll, BeginDeduplicate, BeginConfirm, BeginReevaluate, BeginReturnToLayout,
   BeginOcr, BeginAutomaticOcr, BeginIngest, Free, Proceed, SaveEdit, SaveApproved,
   ReadForAutomaticOcr, FinishOcr, FinishAutomaticOcr, SaveJudged, OcrFails,
   SaveIngesting, PipelineSucceeds, PipelineFails, SaveOutcome, Crash

\* A client's step keeps the document stored.
LEMMA StoredKept ==
    ASSUME IInv, doc # NoDoc, [Next]_vars
    PROVE  doc' # NoDoc
<1>1. CASE doc' = doc
  BY <1>1
<1>2. ASSUME NEW c \in Clients,
             \/ SaveEdit(c) \/ SaveApproved(c) \/ SaveJudged(c) \/ SaveIngesting(c)
             \/ SaveOutcome(c)
      PROVE  doc' # NoDoc
  <2>1. client[c].stage \in HoldsCopy /\ doc' = client[c].copy
    BY <1>2 DEF SaveEdit, SaveApproved, SaveJudged, SaveIngesting, SaveOutcome, Write,
       HoldsCopy, Stages, SaveStages
  <2> QED BY <2>1, CopySound, NoDocAssumption DEF Sound, Good
<1>3. ASSUME NEW c \in Clients, FinishOcr(c) \/ FinishAutomaticOcr(c)
      PROVE  doc' # NoDoc
  <2>1. Good(client[c].copy)
    BY <1>3, CopySound DEF FinishOcr, FinishAutomaticOcr, HoldsCopy, Stages, SaveStages, Sound
  <2>2. \E readable : doc' = ApplyOcr(client[c].copy, readable)
    BY <1>3 DEF FinishOcr, FinishAutomaticOcr, Write
  <2> QED BY <2>1, <2>2, ApplyOcrGood, NoDocAssumption DEF Good
<1>4. ASSUME NEW c \in Clients,
             \/ ShortRequest(c) \/ BeginOcr(c) \/ BeginAutomaticOcr(c) \/ BeginIngest(c)
             \/ ReadForAutomaticOcr(c) \/ OcrFails(c) \/ PipelineSucceeds(c)
             \/ PipelineFails(c) \/ Crash(c)
      PROVE  doc' = doc
  BY <1>4 DEF ShortRequest, BeginAddBlock, BeginDeleteBlock, BeginUpdateBlock,
     BeginApproveAll, BeginDeduplicate, BeginConfirm, BeginReevaluate, BeginReturnToLayout,
     BeginOcr, BeginAutomaticOcr, BeginIngest, ReadForAutomaticOcr, OcrFails, Hold,
     PipelineSucceeds, PipelineFails, EndPipeline, Crash
<1> QED BY <1>1, <1>2, <1>3, <1>4 DEF Next, Proceed, Upload, vars

\* Marking a document that a crash left marked is no change.
LEMMA MarkAgain ==
    ASSUME NEW d \in Document, d.status = "ingesting"
    PROVE  MarkIngesting(d) = d
BY DEF Document, MarkIngesting

LEMMA StepRefines ==
    ASSUME OneClient, IInv, Fresh, [Next]_vars
    PROVE  [Lifecycle!Next]_(Lifecycle!vars)
<1>1. CASE doc' = doc
  BY <1>1 DEF Lifecycle!vars
<1>2. CASE doc = NoDoc /\ doc' # doc
  <2>1. Upload
    BY <1>2, NotStored DEF vars
  <2>2. /\ doc'.phase \in {"layout_review", "ready_to_ingest"}
        /\ doc'.status = "analyzed" /\ doc'.paper = NoPaper
    BY <2>1 DEF Upload, UploadedDocument
  <2> QED BY <1>2, <2>2 DEF Lifecycle!Next, Lifecycle!Upload
<1>3. CASE doc # NoDoc /\ doc' # doc
  <2>1. Saved(doc, doc') /\ Sound(doc) /\ Good(doc) /\ doc' # NoDoc
    BY <1>3, FreshNext, StoredKept DEF IInv, Sound
  <2>2. CASE Changes(doc, doc')
    BY <1>3, <2>1, <2>2
       DEF Changes, PhaseFollows, Settled, Lifecycle!Next, Lifecycle!ChangePhase, Lifecycle!vars
  <2>3. CASE CanIngest(doc) /\ doc' = MarkIngesting(doc)
    <3>1. /\ doc.phase = "ready_to_ingest" /\ doc'.phase = doc.phase
          /\ doc'.status = "ingesting" /\ doc'.paper = doc.paper
      BY <2>1, <2>3 DEF CanIngest, MarkIngesting, Good, Document
    <3>2. doc.status # "ingested"
      BY <2>1, <2>3 DEF CanIngest, AlreadyIngested, Sound, PaperExistsFor
    <3>3. doc.status # "ingesting"
      BY <1>3, <2>1, <2>3, MarkAgain DEF Good
    <3>4. doc.status \in {"analyzed", "failed"}
      BY <2>1, <3>2, <3>3 DEF Good, Document, Statuses
    <3> QED BY <1>3, <2>1, <3>1, <3>4 DEF Lifecycle!Next, Lifecycle!StartIngest
  <2>4. CASE Outcome(doc, doc')
    <3>1. doc'.phase = doc.phase
      BY <2>1, <2>4 DEF Outcome, MarkFailed, MarkIngested, Good, Document
    <3>2. CASE doc' = MarkFailed(doc)
      BY <1>3, <2>1, <2>4, <3>1, <3>2, MarkGood DEF Outcome, Lifecycle!Next, Lifecycle!Fail
    <3>3. CASE \E p \in PaperIds : doc' = MarkIngested(doc, p)
      BY <1>3, <2>1, <2>4, <3>1, <3>3, MarkGood DEF Outcome, Lifecycle!Next, Lifecycle!Succeed
    <3> QED BY <2>4, <3>2, <3>3 DEF Outcome
  <2> QED BY <1>3, <2>1, <2>2, <2>3, <2>4 DEF Saved
<1> QED BY <1>1, <1>2, <1>3

\* One request after another, crashes included, every save is a step of the
\* documented lifecycle or leaves phase, status and paper alone: the part of
\* ImplementsLifecycle that says what may happen.
THEOREM FollowsLifecycle ==
    ASSUME OneClient
    PROVE  Spec => Lifecycle!Init /\ [][Lifecycle!Next]_(Lifecycle!vars)
<1>1. Init => Lifecycle!Init
  BY DEF Init, Lifecycle!Init
<1>2. IInv /\ Fresh /\ [Next]_vars => [Lifecycle!Next]_(Lifecycle!vars)
  BY StepRefines
<1> QED BY <1>1, <1>2, FreshAlways, PTL DEF Spec

-----------------------------------------------------------------------------
(***************************************************************************)
(* At most one paper.  A complete paper is the one the document names, or  *)
(* the one a request in its last step is about to name.  This needs a      *)
(* process that does not die in between, and a failing pipeline that does  *)
(* not leave a complete paper behind.                                      *)
(***************************************************************************)

Named(p) ==
    /\ doc # NoDoc
    /\ \/ doc.paper = p
       \/ \E c \in Clients : client[c].stage = "ingest_end" /\ client[c].copy.paper = p

PapersNamed == \A p \in PaperIds : papers[p] = "complete" => Named(p)

\* A document that is being ingested names no paper.
LEMMA IngestingNamesNone ==
    ASSUME IInv, Fresh, NEW c \in Clients, client[c].stage \in {"ingest_run", "ingest_end"}
    PROVE  doc # NoDoc /\ Good(doc) /\ doc.status = "ingesting" /\ doc.paper = NoPaper
<1>1. doc # NoDoc /\ Sound(doc)
  BY DEF IInv
<1>2. doc.status = "ingesting"
  BY DEF IInv, Holding, Fresh, Computed, Outcome
<1> QED BY <1>1, <1>2 DEF Sound, PaperExistsFor

LEMMA PapersNamedPipeline ==
    ASSUME OneClient, "complete" \notin Leftovers, IInv, Fresh, PapersNamed,
           NEW c \in Clients, PipelineSucceeds(c) \/ PipelineFails(c)
    PROVE  PapersNamed'
<1>1. client[c].stage = "ingest_run"
  BY DEF PipelineSucceeds, PipelineFails
<1>2. doc # NoDoc /\ doc' = doc /\ doc.paper = NoPaper /\ Good(client[c].copy)
  BY <1>1, IngestingNamesNone, CopySound
     DEF PipelineSucceeds, PipelineFails, EndPipeline, HoldsCopy, Stages, SaveStages, Sound
<1>3. \A p \in PaperIds : papers[p] # "complete"
  BY <1>1, <1>2, NoPaperAssumption DEF PapersNamed, Named, OneClient
<1>4. CASE PipelineSucceeds(c)
  <2>1. PICK p \in PaperIds : EndPipeline(c, p, "complete", MarkIngested(client[c].copy, p))
    BY <1>4 DEF PipelineSucceeds
  <2>2. client'[c].stage = "ingest_end" /\ client'[c].copy.paper = p
    <3>1. PICK e : e.paper = p /\ EndPipeline(c, p, "complete", e)
      BY <1>2, <2>1, MarkGood
    <3> QED BY <3>1 DEF EndPipeline, IInv, ClientState
  <2>3. \A q \in PaperIds : papers'[q] = "complete" => q = p
    BY <1>3, <2>1 DEF EndPipeline, IInv
  <2> QED BY <1>2, <2>2, <2>3 DEF PapersNamed, Named
<1>5. CASE PipelineFails(c)
  <2>1. \A q \in PaperIds : papers'[q] # "complete"
    BY <1>3, <1>5 DEF PipelineFails, EndPipeline, IInv
  <2> QED BY <2>1 DEF PapersNamed
<1> QED BY <1>4, <1>5

LEMMA PapersNamedNext ==
    ASSUME OneClient, ~Crashes, "complete" \notin Leftovers,
           IInv, Fresh, PapersNamed, [Next]_vars
    PROVE  PapersNamed'
<1>1. CASE Upload
  BY <1>1 DEF Upload, PapersNamed, Named
<1>2. ASSUME NEW c \in Clients, PipelineSucceeds(c) \/ PipelineFails(c)
      PROVE  PapersNamed'
  BY <1>2, PapersNamedPipeline
<1>3. ASSUME NEW c \in Clients, SaveOutcome(c)
      PROVE  PapersNamed'
  <2>1. /\ client[c].stage = "ingest_end" /\ doc' = client[c].copy
        /\ UNCHANGED papers /\ doc' # NoDoc
    BY <1>3, StoredKept DEF SaveOutcome, Write, Next, Proceed, IInv
  <2>2. doc.paper = NoPaper
    BY <2>1, IngestingNamesNone
  <2> QED BY <2>1, <2>2, NoPaperAssumption DEF PapersNamed, Named, OneClient
<1>4. ASSUME NEW c \in Clients,
             \/ ShortRequest(c) \/ BeginOcr(c) \/ BeginAutomaticOcr(c) \/ BeginIngest(c)
             \/ ReadForAutomaticOcr(c) \/ OcrFails(c)
             \/ SaveEdit(c) \/ SaveApproved(c) \/ SaveJudged(c) \/ SaveIngesting(c)
             \/ FinishOcr(c) \/ FinishAutomaticOcr(c)
      PROVE  PapersNamed'
  <2>1. /\ client[c].stage \notin {"ingest_run", "ingest_end"} /\ doc # NoDoc
        /\ UNCHANGED papers
    BY <1>4 DEF ShortRequest, BeginAddBlock, BeginDeleteBlock, BeginUpdateBlock,
       BeginApproveAll, BeginDeduplicate, BeginConfirm, BeginReevaluate, BeginReturnToLayout,
       BeginOcr, BeginAutomaticOcr, BeginIngest, Free, ReadForAutomaticOcr, OcrFails,
       SaveEdit, SaveApproved, SaveJudged, SaveIngesting, FinishOcr, FinishAutomaticOcr,
       Hold, Write, IInv
  <2>2. doc' # NoDoc /\ Good(doc)
    BY <1>4, <2>1, StoredKept DEF Next, Proceed, IInv, Sound
  <2>3. doc'.paper = doc.paper
    <3>1. CASE SaveEdit(c) \/ SaveApproved(c) \/ SaveJudged(c)
      BY <3>1 DEF SaveEdit, SaveApproved, SaveJudged, Write, Fresh, Computed, Changes, Settled
    <3>2. CASE SaveIngesting(c)
      BY <2>2, <3>2, MarkGood DEF SaveIngesting, Write, Fresh, Computed
    <3>3. CASE FinishOcr(c) \/ FinishAutomaticOcr(c)
      <4>1. \E readable : doc' = ApplyOcr(doc, readable)
        BY <3>3 DEF FinishOcr, FinishAutomaticOcr, Write, Fresh, Computed
      <4> QED BY <2>2, <4>1, ApplyOcrGood DEF Settled
    <3>4. CASE doc' = doc
      BY <3>4
    <3> QED
      BY <1>4, <3>1, <3>2, <3>3, <3>4
         DEF ShortRequest, BeginAddBlock, BeginDeleteBlock, BeginUpdateBlock,
             BeginApproveAll, BeginDeduplicate, BeginConfirm, BeginReevaluate,
             BeginReturnToLayout, BeginOcr, BeginAutomaticOcr, BeginIngest,
             ReadForAutomaticOcr, OcrFails, Hold
  <2> QED BY <2>1, <2>2, <2>3 DEF PapersNamed, Named, OneClient
<1>5. CASE UNCHANGED vars
  BY <1>5 DEF vars, PapersNamed, Named
<1> QED BY <1>1, <1>2, <1>3, <1>4, <1>5 DEF Next, Proceed, Crash

LEMMA PapersNamedImplies ==
    ASSUME OneClient, IInv, Fresh, PapersNamed
    PROVE  OnePaper
<1> DEFINE C == {p \in PaperIds : papers[p] = "complete"}
<1>1. \A p, q \in C : p = q
  BY IngestingNamesNone, NoPaperAssumption DEF PapersNamed, Named, OneClient
<1>2. C = {} \/ \E p : C = {p}
  BY <1>1
<1>3. Cardinality(C) \in {0, 1}
  BY <1>2, FS_EmptySet, FS_Singleton
<1> QED BY <1>3 DEF OnePaper

\* What it takes for ingest to make at most one paper of a document however often it is
\* called (service.py:790): one request after another, no process dying in the middle of
\* one, and no pipeline that fails with its paper complete.  The code does not give the
\* last: the job rows of STEP 9 are written where nothing catches their failure.
THEOREM AtMostOnePaper ==
    ASSUME OneClient, ~Crashes, "complete" \notin Leftovers
    PROVE  Spec => []OnePaper
<1>1. Init => PapersNamed
  BY DEF Init, PapersNamed
<1>2. IInv /\ Fresh /\ PapersNamed /\ [Next]_vars => PapersNamed'
  BY PapersNamedNext
<1>3. IInv /\ Fresh /\ PapersNamed => OnePaper
  BY PapersNamedImplies
<1> QED BY <1>1, <1>2, <1>3, FreshAlways, PTL DEF Spec
=============================================================================
