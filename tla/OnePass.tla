------------------------------- MODULE OnePass -------------------------------
(***************************************************************************)
(* A page in one pass, without a reviewer: _map_result (paddle_backend.py) *)
(* makes blocks of what one pipeline found and read on it, and of the      *)
(* words that it read outside of all blocks.                               *)
(*                                                                         *)
(* found is a sequence of [type, box, conf, text], words a sequence of     *)
(* [box, text]; a text is NoText where nothing was read.  A word in the    *)
(* grid of a table is named by its box.                                    *)
(***************************************************************************)
EXTENDS Boxes, SequencesExt

NoText == [says |-> "prose", chars |-> <<>>, grid |-> <<>>]

Center2(b) == <<b[2] + b[4], b[1] + b[3]>>      \* twice its y and x
CenterInside(word, box) ==
    /\ 2 * box[1] <= Center2(word)[2] /\ Center2(word)[2] <= 2 * box[3]
    /\ 2 * box[2] <= Center2(word)[1] /\ Center2(word)[1] <= 2 * box[4]

(***************************************************************************)
(* _ocr_text_in_bbox: the words of a table that has no text, in rows.  A   *)
(* word joins the last row when its center is no further from the row's    *)
(* than 4, or 0.6 of the median height; the row's center, which then moves *)
(* to the middle of both, is sum / (2 * parts).                            *)
(***************************************************************************)
WordRows(words, box) ==
    LET read == Only(words, {k \in DOMAIN words : words[k].text # NoText
                                                   /\ CenterInside(words[k].box, box)})
        heights == [i \in DOMAIN read |-> Hi(1, Height(read[i].box))]
        downwards == SortBy(read, [i \in DOMAIN read |-> Append(Center2(read[i].box), heights[i])])
        Near(row, w) ==
            LET off == Center2(w.box)[1] * row.parts - row.sum
            IN  10 * Hi(off, -off) <= row.parts * Hi(80, 6 * Median2(heights))
        Place(rows, w) ==
            IF rows # <<>> /\ Near(Last(rows), w)
            THEN [rows EXCEPT ![Len(rows)] =
                    [words |-> Append(@.words, w.box), parts |-> 2 * @.parts,
                     sum |-> @.sum + Center2(w.box)[1] * @.parts]]
            ELSE Append(rows, [words |-> <<w.box>>, parts |-> 1, sum |-> Center2(w.box)[1]])
        rows == FoldLeft(Place, <<>>, downwards)
        Across(row) == SortBy(row, [k \in DOMAIN row |-> <<Center2(row[k])[2]>>])
    IN  IF read = <<>> THEN <<>> ELSE [r \in DOMAIN rows |-> Across(rows[r].words)]

-----------------------------------------------------------------------------
\* Wrong on purpose: a word belongs to a block that holds most of it.
TouchesMostly(word, box) == Inside(word, box, 50)
\* _has_text_overlap
Touches(word, box) == OverlapX(word, box) > 3 /\ OverlapY(word, box) > 3

\* _unassigned_ocr_blocks
Unassigned(words, blocks, page) ==
    LET free == Only(words, {k \in DOMAIN words :
                    /\ words[k].text # NoText
                    /\ ~\E i \in DOMAIN blocks : Touches(words[k].box, blocks[i].box)})
    IN  [k \in DOMAIN free |-> [page |-> page, type |-> "text", box |-> free[k].box, conf |-> 1,
                                order |-> 0, text |-> free[k].text]]

-----------------------------------------------------------------------------
(* _merge_in_reading_order *)

\* The column of a box on a page of this width, with 5% to spare at its middle
Zone(box, width) ==
    IF 200 * box[3] <= 105 * width THEN "left"
    ELSE IF 200 * box[1] >= 95 * width THEN "right" ELSE "full"
PageWidth(boxes) == CHOOSE x \in {b[3] : b \in boxes} : \A b \in boxes : b[3] <= x
InColumns(blocks, width) ==
    \A side \in {"left", "right"} :
        Cardinality({i \in DOMAIN blocks : Zone(blocks[i].box, width) = side}) >= 2

\* Wrong on purpose: a word goes to the end of the page.
AnchorAtEnd(blocks, box, width) == 2 * Len(blocks) + 1
(***************************************************************************)
(* Twice the position of a word's block between the others: before the     *)
(* next one down its column, else after the last one of the column, or of  *)
(* the page when that has no block in this column.                         *)
(***************************************************************************)
Anchor(blocks, box, width) ==
    LET column == {i \in DOMAIN blocks : Zone(blocks[i].box, width) = Zone(box, width)}
        below == {i \in column : blocks[i].box[2] > box[2]}
        next == {i \in below : \A j \in below : blocks[i].box[2] <= blocks[j].box[2]}
        last == CHOOSE i \in column : \A j \in column : j <= i
    IN  IF next # {} THEN 2 * First(next) - 1
        ELSE IF column # {} THEN 2 * last + 1
        ELSE 2 * Len(blocks) + 1

MergeInReadingOrder(blocks, others, start) ==
    LET all == blocks \o others
        width == PageWidth({all[i].box : i \in DOMAIN all})
        position(i) == IF i <= Len(blocks) THEN <<2 * i, 0>>
                       ELSE <<Anchor(blocks, all[i].box, width), i - Len(blocks)>>
        merged == SortBy(all, [i \in DOMAIN all |->
                      IF InColumns(blocks, width) THEN position(i) ELSE TopLeft(all[i].box)])
    IN  [i \in DOMAIN merged |-> [merged[i] EXCEPT !.order = start + i - 1]]

-----------------------------------------------------------------------------
MapResult(found, words, page, start) ==
    LET read == [i \in DOMAIN found |->
                    IF found[i].text = NoText /\ found[i].type = "table"
                    THEN [found[i] EXCEPT !.text.grid = WordRows(words, found[i].box)]
                    ELSE found[i]]
        kept == Only(read, {i \in DOMAIN read : read[i].text # NoText
                                                  \/ read[i].type \in {"figure", "formula"}})
        blocks == [i \in DOMAIN kept |->
                      [page |-> page, type |-> kept[i].type, box |-> kept[i].box,
                       conf |-> kept[i].conf, order |-> start + i - 1, text |-> kept[i].text]]
        others == Unassigned(words, blocks, page)
    IN  IF others = <<>> THEN blocks ELSE MergeInReadingOrder(blocks, others, start)
=============================================================================
