----------------------------- MODULE Extraction -----------------------------
(***************************************************************************)
(* From page images to the paragraphs of a paper: analyze_layout and       *)
(* recognize_layout (ingest/layout/paddle_backend.py), with a reviewer     *)
(* between them (review/service.py), and the steps filter and paragraph of *)
(* the ingestion (ingest/filterer.py, ingest/paragraphs.py).  A paper that *)
(* nobody reviews is analysed in one pass (analyze) instead of two.        *)
(*                                                                         *)
(* What the models see on a page is chosen, then every correction of the   *)
(* code is one step.  A block is [page, type, box, conf, order]; once it   *)
(* is in the document it also has                                          *)
(*   printed  what stands there on the paper                               *)
(*   text     what OCR read, and crop, the block it was read from          *)
(* A printed table is the HTML that either structure model makes of it.    *)
(* Coordinates stay in pixels: _scale_blocks and _scaled_crop_box undo     *)
(* each other.                                                             *)
(***************************************************************************)
EXTENDS LayoutRepair, TableText, OnePass, Content

CONSTANTS
    Scenes,     \* Scenes[p]: what the models may find on page p, each
                \* [found: sequence of [type, box, conf], lines: sequence of boxes]
    Prints,     \* Prints[p]: what one pass may find on page p, each
                \* [found: sequence of [type, box, conf, text], words: sequence of [box, text]]
    Readings,   \* what may be recognized on a heading candidate
    Reviewed,   \* documents a reviewer may hand to OCR instead
    Plain       \* the text printed in a region nobody looked at

BlockTypes == {"title", "author", "abstract", "section_header", "text", "table", "table_caption",
               "figure", "figure_caption", "formula", "reference", "header_footer"}
\* as _bbox returns a box; what a model finds has a height
Box == {b \in Int \X Int \X Int \X Int : b[2] < b[4]}
\* as text detection returns a line; its polygon has a width too
Line == {b \in Box : b[1] < b[3]}
Scene == [found : Seq([type : BlockTypes, box : Box, conf : Int]), lines : Seq(Line)]
Quad == Int \X Int \X Int \X Int
Sequence(s) == s \in Seq({s[i] : i \in DOMAIN s})
IsText(t) == t \in [says : {t.says}, chars : {t.chars}, grid : {t.grid}] /\ Sequence(t.chars)
\* rows of cells; _parse_span makes every span at least 1
IsTable(html) ==
    /\ Sequence(html)
    /\ \A r \in DOMAIN html :
          /\ Sequence(html[r])
          /\ \A k \in DOMAIN html[r] : LET cell == html[r][k] IN
                /\ cell \in [text : {cell.text}, cols : Nat \ {0}, rows : Nat \ {0}]
                /\ cell.text # NoCell
IsPrinted(t) == Sequence(t.chars) /\ IsTable(t.wired) /\ IsTable(t.wireless)
IsDocument(d) ==
    /\ Sequence(d)
    /\ \A i \in DOMAIN d : DOMAIN d[i] = {"page", "type", "box", "conf", "order",
                                          "printed", "text", "crop"}
\* the fields as LayoutBlock declares them
Typed(b) ==
    /\ b \in [page : Int, type : BlockTypes, box : Quad, conf : Int, order : Int,
              printed : {b.printed}, text : {b.text}, crop : {b.crop}]
    /\ IsPrinted(b.printed) /\ IsText(b.text)

ASSUME ScenesAssumption == Scenes \in Seq(SUBSET Scene)
\* what is read is text; only _ocr_text_in_bbox lays words out in rows
ASSUME PrintsAssumption ==
    /\ Len(Prints) \in Nat
    /\ \A p \in 1..Len(Prints) : \A print \in Prints[p] :
          /\ Sequence(print.found) /\ Sequence(print.words)
          /\ \A i \in DOMAIN print.found : LET f == print.found[i] IN
                /\ f \in [type : BlockTypes, box : Quad, conf : Int, text : {f.text}]
                /\ IsText(f.text) /\ f.text.grid = <<>>
          /\ \A k \in DOMAIN print.words : LET w == print.words[k] IN
                w \in [box : Quad, text : {w.text}] /\ IsText(w.text) /\ w.text.grid = <<>>
ASSUME ReadingsAssumption ==
    \A r \in Readings : r.end \in Nat /\ r.length \in Nat /\ r.end <= r.length
\* add_block gives a new region the largest number and one
ASSUME ReviewedAssumption ==
    \A d \in Reviewed :
        /\ IsDocument(d) /\ \A i \in DOMAIN d : Typed(d[i])
        /\ \A i, j \in DOMAIN d : d[i].order = d[j].order => i = j
ASSUME PlainAssumption == IsPrinted(Plain)

VARIABLES page, stage, blocks, lines, covered, document, content
vars == <<page, stage, blocks, lines, covered, document, content>>

Pages == Len(Scenes)
NoContent == [split |-> NothingYet, paragraphs |-> <<>>, tables |-> <<>>]

\* a block of the document before OCR
Filed(b, printed) ==
    [page |-> b.page, type |-> b.type, box |-> b.box, conf |-> b.conf, order |-> b.order,
     printed |-> printed, text |-> NoText, crop |-> 0]

Look(p, scene, start) ==
    /\ page' = p /\ stage' = "detected" /\ lines' = scene.lines
    /\ blocks' = [i \in DOMAIN scene.found |->
                    [page |-> p, type |-> scene.found[i].type, box |-> scene.found[i].box,
                     conf |-> scene.found[i].conf, order |-> start + i - 1]]

Init ==
    /\ covered = [detected |-> 0, finally |-> 0] /\ content = NoContent
    /\ \/ /\ page = 0 /\ stage = "rendered" /\ blocks = <<>> /\ lines = <<>> /\ document = <<>>
       \/ /\ page = Pages /\ stage = "reviewed" /\ blocks = <<>> /\ lines = <<>>
          /\ document \in Reviewed
       \/ /\ page = 0 /\ stage = "batch" /\ blocks = <<>> /\ lines = <<>> /\ document = <<>>

-----------------------------------------------------------------------------
(* analyze_layout *)

Correct(from, to, better) ==
    /\ stage = from /\ stage' = to
    /\ blocks' = better
    /\ UNCHANGED <<page, lines, document, content>>

\* the two models are run on the next page
Detect ==
    /\ stage = "rendered" /\ page < Pages
    /\ \E scene \in Scenes[page + 1] : Look(page + 1, scene, Len(document))
    /\ UNCHANGED <<covered, document, content>>

\* _map_layout_detection_result
Arrange ==
    /\ Correct("detected", "arranged", OrderDetected(Deduplicate(blocks), Len(document)))
    /\ UNCHANGED covered

MatchText ==
    /\ Correct("arranged", "matched", Reconcile(blocks, lines, page, Len(document)))
    /\ UNCHANGED covered
RecoverText ==
    LET found == RecoverUncovered(blocks, lines, page, Len(document))
    IN  /\ Correct("matched", "recovered", found)
        /\ covered' = [detected |-> covered.detected + Len(lines),
                       finally |-> covered.finally + FinallyCovered(found, lines)]
SplitSections ==
    /\ Correct("recovered", "split", SplitMerged(blocks, lines, Len(document)))
    /\ UNCHANGED covered

\* the candidate lines are read, each with some outcome
SplitHeadings ==
    /\ \E readings \in [InlineCandidates(blocks, lines, page) -> Readings] :
          Correct("split", "inlined", SplitInline(blocks, lines, page, Len(document), readings))
    /\ UNCHANGED covered
NameTitle ==
    Correct("inlined", "titled", RecoverTitle(blocks, lines, page)) /\ UNCHANGED covered
NameAuthors ==
    Correct("titled", "corrected", RecoverAuthors(blocks)) /\ UNCHANGED covered

\* the end of the loop's body
File ==
    /\ stage = "corrected"
    /\ document' = document \o [i \in DOMAIN blocks |-> Filed(blocks[i], Plain)]
    /\ stage' = "rendered" /\ blocks' = <<>> /\ lines' = <<>>
    /\ UNCHANGED <<page, covered, content>>

-----------------------------------------------------------------------------
(* recognize_layout and what run_reviewed_ocr does with its result *)

\* The reviewer confirms every region as it was found.
Confirm ==
    /\ stage = "rendered" /\ page = Pages
    /\ stage' = "reviewed"
    /\ UNCHANGED <<page, blocks, lines, covered, document, content>>

NotRead == {"figure", "formula"}

\* _recognize_crop: nothing, the printed text, or a table on its grid
Outcomes(b) ==
    LET read == [says |-> b.printed.says, chars |-> b.printed.chars, grid |-> <<>>]
        grids == {<<>>} \union Recognized(Grid(b.printed.wired), Grid(b.printed.wireless))
                        \union Recognized(Grid(b.printed.wireless), Grid(b.printed.wired))
    IN  IF b.type \in NotRead THEN {NoText}
        ELSE IF b.type = "table" THEN {[read EXCEPT !.grid = g] : g \in grids}
        ELSE {NoText, read}

\* The index whose result a block gets: results are looked up by order
\* number, and of several the last stays in the dictionary.
ResultFor(i) ==
    LET same == {j \in DOMAIN document : document[j].order = document[i].order}
    IN  CHOOSE j \in same : \A k \in same : document[k].page < document[j].page
                                \/ (document[k].page = document[j].page /\ k <= j)

Recognize ==
    /\ stage = "reviewed" /\ stage' = "recognized"
    /\ \E read \in {f \in [DOMAIN document -> UNION {Outcomes(document[i]) : i \in DOMAIN document}] :
                        \A i \in DOMAIN document : f[i] \in Outcomes(document[i])} :
          document' = [i \in DOMAIN document |->
                          [document[i] EXCEPT !.text = read[ResultFor(i)],
                                              !.crop = ResultFor(i)]]
    /\ UNCHANGED <<page, blocks, lines, covered, content>>

-----------------------------------------------------------------------------
(* analyze: blocks and lines are those of the page read last *)

ReadPage ==
    /\ stage = "batch" /\ page < Len(Prints) /\ page' = page + 1
    /\ \E print \in Prints[page + 1] :
          LET read == Only(print.words, {k \in DOMAIN print.words : print.words[k].text # NoText})
              start == Len(document)
          IN  /\ blocks' = MapResult(print.found, print.words, page + 1, start)
              /\ lines' = [k \in DOMAIN read |-> read[k].box]
              /\ document' = document \o [i \in DOMAIN blocks' |->
                     [Filed(blocks'[i], Plain) EXCEPT !.text = blocks'[i].text, !.crop = start + i]]
    /\ UNCHANGED <<stage, covered, content>>
EndOfPages ==
    /\ stage = "batch" /\ page = Len(Prints)
    /\ stage' = "recognized" /\ blocks' = <<>> /\ lines' = <<>>
    /\ UNCHANGED <<page, covered, document, content>>

-----------------------------------------------------------------------------
(* The steps of IngestPipeline.run that come before the language model *)

Filter ==
    /\ stage = "recognized" /\ stage' = "filtered"
    /\ content' = [content EXCEPT !.split = SplitBlocks(document)]
    /\ UNCHANGED <<page, blocks, lines, covered, document>>
MakeParagraphs ==
    /\ stage = "filtered" /\ stage' = "paragraphs"
    /\ content' = [content EXCEPT !.paragraphs = Paragraphs(content.split.body),
                                  !.tables = BuildTables(content.split.tables)]
    /\ UNCHANGED <<page, blocks, lines, covered, document>>

Next ==
    \/ Detect \/ Arrange \/ MatchText \/ RecoverText \/ SplitSections \/ SplitHeadings
    \/ NameTitle \/ NameAuthors \/ File
    \/ Confirm \/ Recognize
    \/ ReadPage \/ EndOfPages
    \/ Filter \/ MakeParagraphs

Spec == Init /\ [][Next]_vars
=============================================================================
