----------------------------- MODULE LayoutDedup -----------------------------
(***************************************************************************)
(* deduplicate_layout_blocks (ingest/layout/dedup.py): of detections that  *)
(* stand for one region only one is kept.  It runs on every page's         *)
(* detections, again after the text lines were matched, when a reviewer    *)
(* asks for it, and once more when the paper is ingested.                  *)
(*                                                                         *)
(* A block is [page, type, box, conf, order]; conf is a small number, 0    *)
(* for None.  Blocks without a box do not occur on this path.              *)
(***************************************************************************)
EXTENDS Boxes, SequencesExt

Priority(type) ==
    CASE type = "title" -> 9
      [] type \in {"author", "abstract", "table"} -> 8
      [] type \in {"section_header", "table_caption", "figure_caption", "reference"} -> 7
      [] type \in {"figure", "formula"} -> 6
      [] type = "header_footer" -> 5
      [] type = "text" -> 1

Quality(b) == <<Priority(b.type), b.conf>>

\* pieces of one title become one title
MergeTitles(current, candidate) ==
    [current EXCEPT !.box = Union(@, candidate.box),
                    !.conf = Hi(@, candidate.conf),
                    !.order = Lo(@, candidate.order)]

PieceOfTitle(a, b) ==
    a.page = b.page /\ a.type = "title" /\ b.type = "title"
        /\ SmallerInside(a.box, b.box, 50)
Twins(a, b) == a.page = b.page /\ Alike(a.box, b.box, 85)

\* one turn of the loop: the candidate joins those kept so far
Consider(kept, candidate) ==
    LET titles == {i \in DOMAIN kept : PieceOfTitle(kept[i], candidate)}
        twins == {i \in DOMAIN kept : Twins(kept[i], candidate)}
    IN  IF titles # {} THEN [kept EXCEPT ![First(titles)] = MergeTitles(@, candidate)]
        ELSE IF twins = {} THEN Append(kept, candidate)
        ELSE IF Precedes(Quality(kept[First(twins)]), Quality(candidate))
             THEN [kept EXCEPT ![First(twins)] = candidate]
             ELSE kept

\* the blocks that parent was drawn around
ChildrenOf(s, p) ==
    {c \in DOMAIN s \ {p} :
        /\ s[c].page = s[p].page
        /\ 100 * Area(s[c].box) <= 75 * Area(s[p].box)
        /\ Inside(s[c].box, s[p].box, 92)
        /\ s[p].type = "text" => s[c].type \notin {"figure", "formula", "table"}}

WithoutContainers(s) ==
    Only(s, {p \in DOMAIN s : ~(/\ s[p].type \in {"abstract", "figure", "text"}
                                /\ Cardinality(ChildrenOf(s, p)) >= 2)})

WithoutContained(s) ==
    Only(s, {c \in DOMAIN s : ~\E p \in DOMAIN s \ {c} :
        /\ s[c].page = s[p].page
        /\ s[c].type = s[p].type /\ s[c].type \in {"text", "section_header"}
        /\ Area(s[c].box) < Area(s[p].box)
        /\ Inside(s[c].box, s[p].box, 92)})

Deduplicate(s) == WithoutContained(WithoutContainers(FoldLeft(Consider, <<>>, s)))
=============================================================================
