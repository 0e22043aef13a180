---------------------------- MODULE LayoutRepair ----------------------------
(***************************************************************************)
(* The corrections of analyze_layout (paddle_backend.py): the blocks that  *)
(* the layout model found on a page are compared with the text lines that  *)
(* another model found on the same image.  Each operator below is one      *)
(* correction, a function of the blocks (a sequence) and the lines (a      *)
(* sequence of boxes with a positive area); Extraction.tla applies them in *)
(* order.  The thresholds are the defaults of config.py, in percent.       *)
(* Line scores are left out (the detector may give none), so that a block  *)
(* made from lines has conf 0.                                             *)
(***************************************************************************)
EXTENDS LayoutDedup, ReadingOrder

TextCoverage == 80           \* paddle_text_coverage_threshold
TextMergeGap == 180          \* paddle_text_merge_gap_ratio
AbstractMergeGap == 50       \* paddle_abstract_merge_gap_ratio
AbstractMergeOverlap == 70   \* paddle_abstract_merge_x_overlap
MinBodyLines == 2            \* paddle_section_heading_min_body_lines
HeadingMaxWidth == 72        \* paddle_section_heading_max_width_ratio
LineOverlap == 60            \* paddle_section_heading_line_overlap
MaxPrefix == 40              \* paddle_inline_heading_max_prefix_ratio
TitleMinWidth == 55          \* paddle_title_min_width_ratio

Expandable == {"title", "author", "abstract", "section_header", "text",
               "table_caption", "figure_caption", "reference", "header_footer"}

NewText(page, box, order) ==
    [page |-> page, type |-> "text", box |-> box, conf |-> 0, order |-> order]

Hull(boxes) == FoldLeft(Union, boxes[1], Tail(boxes))
CoveredBy(s, line) == \E i \in DOMAIN s : Inside(line, s[i].box, TextCoverage)

-----------------------------------------------------------------------------
(* Lines and blocks are matched: blocks grow, forgotten lines become text. *)

\* the block that a line lies in most
BestBlock(s, line) ==
    First({i \in DOMAIN s : \A j \in DOMAIN s :
              Intersection(line, s[j].box) <= Intersection(line, s[i].box)})

\* One turn of the loop over the lines; m holds the blocks and the lines
\* left over.
MatchLine(m, line) ==
    LET i == BestBlock(m.blocks, line)
        box == m.blocks[i].box
        grows == /\ m.blocks # <<>>
                 /\ Intersection(line, box) > 0 /\ Level(line, box, 50)
                 /\ m.blocks[i].type \in Expandable
        covered == m.blocks # <<>> /\ Inside(line, box, TextCoverage)
    IN  IF grows THEN [m EXCEPT !.blocks[i].box = Union(@, line)]
        ELSE IF covered THEN m
        ELSE [m EXCEPT !.left = Append(@, line)]

FromTop(lines) == SortBy(lines, [i \in DOMAIN lines |-> TopLeft(lines[i])])
LineHeight2(lines) == Median2([i \in DOMAIN lines |-> Hi(1, Height(lines[i]))])

\* _merge_unassigned_text_lines: lines that follow one another in one column
Follows(line, group, height2) ==
    /\ line[2] >= group[4]
    /\ 200 * (line[2] - group[4]) <= TextMergeGap * height2
    /\ SameColumn(line, group, 30)
JoinGroup(groups, line, height2) ==
    LET near == {g \in DOMAIN groups : Follows(line, groups[g], height2)}
    IN  IF near = {} THEN Append(groups, line)
        ELSE [groups EXCEPT ![First(near)] = Union(@, line)]
JoinGroups(lines, height2) ==
    FoldLeft(LAMBDA groups, line : JoinGroup(groups, line, height2), <<>>, lines)
GroupLines(lines) == JoinGroups(FromTop(lines), LineHeight2(lines))

VerticalGap(a, b) == Hi(0, Hi(a[2] - b[4], b[2] - a[4]))

\* _adjacent_abstract_index, as a set that is empty or holds the nearest one
AdjacentAbstract(s, box, lines) ==
    LET near == {i \in DOMAIN s :
            /\ s[i].type = "abstract"
            /\ 200 * VerticalGap(s[i].box, box) <= AbstractMergeGap * LineHeight2(lines)
            /\ SameColumn(box, s[i].box, AbstractMergeOverlap)}
    IN  {i \in near : \A j \in near :
            \/ VerticalGap(s[i].box, box) < VerticalGap(s[j].box, box)
            \/ VerticalGap(s[i].box, box) = VerticalGap(s[j].box, box) /\ i <= j}

\* the forgotten lines join an abstract next to them, or become a text block
AddGroup(t, group, lines, page, start) ==
    LET abstracts == AdjacentAbstract(t, group, lines)
    IN  IF abstracts # {} THEN [t EXCEPT ![First(abstracts)].box = Union(@, group)]
        ELSE Append(t, NewText(page, group, start + Len(t)))
AddGroups(s, groups, lines, page, start) ==
    FoldLeft(LAMBDA t, group : AddGroup(t, group, lines, page, start), s, groups)

Reconcile(s, lines, page, start) ==
    LET matched == FoldLeft(MatchLine, [blocks |-> s, left |-> <<>>], lines)
    IN  OrderDetected(
            Deduplicate(AddGroups(matched.blocks, GroupLines(matched.left),
                                  lines, page, start)), start)

\* Wrong on purpose: what the deduplication took away is not looked for again.
RecoverNothing(s, lines, page, start) == s
\* the lines that are in no block after all this become text blocks
RecoverUncovered(s, lines, page, start) ==
    LET groups == GroupLines(Only(lines, {k \in DOMAIN lines : ~CoveredBy(s, lines[k])}))
    IN  IF groups = <<>> THEN s
        ELSE OrderDetected(
                s \o [k \in DOMAIN groups |-> NewText(page, groups[k], start + Len(s) + k - 1)],
                start)

FinallyCovered(s, lines) == Cardinality({i \in DOMAIN lines : CoveredBy(s, lines[i])})

-----------------------------------------------------------------------------
(* Blocks that hold a heading and what follows it are split. *)

RegionLines(b, lines) ==
    LET region == Only(lines, {k \in DOMAIN lines : Inside(lines[k], b.box, LineOverlap)})
    IN  FromTop(region)

\* a first line that is clearly narrower than the lines below it
LooksMerged(region) ==
    /\ Len(region) >= MinBodyLines + 1
    /\ 200 * Width(region[1]) <=
           HeadingMaxWidth * Median2([k \in DOMAIN Tail(region) |-> Hi(1, Width(Tail(region)[k]))])
    /\ region[2][2] + region[2][4] > region[1][2] + region[1][4]

\* what block i of s becomes
SplitMergedBlock(s, i, lines) ==
    LET b == s[i]
        region == RegionLines(b, lines)
        body == Hull(Tail(region))
        known == \E j \in DOMAIN s \ {i} :
                    s[j].type = "section_header" /\ Inside(region[1], s[j].box, LineOverlap)
        heading == [b EXCEPT !.type = "section_header", !.box = region[1]]
    IN  IF b.type \notin {"abstract", "section_header"} \/ ~LooksMerged(region) THEN <<b>>
        ELSE IF b.type = "section_header"
             THEN <<heading, [b EXCEPT !.type = "text", !.box = body, !.order = @ + 1]>>
        ELSE IF known THEN <<[b EXCEPT !.box = body]>>
        ELSE <<heading, [b EXCEPT !.box = body]>>

SplitMerged(s, lines, start) ==
    IF lines = <<>> THEN s
    ELSE OrderDetected(FlattenSeq([i \in DOMAIN s |-> SplitMergedBlock(s, i, lines)]), start)

InlineTypes(page) == IF page = 1 THEN {"abstract", "text"} ELSE {"abstract"}
InlineRegion(b, lines, page) ==
    IF b.type \in InlineTypes(page) THEN RegionLines(b, lines) ELSE <<>>
\* _inline_abstract_candidate_bboxes: lines worth reading for a heading
InlineCandidates(s, lines, page) ==
    {InlineRegion(s[i], lines, page)[1] : i \in
        {j \in DOMAIN s : Len(InlineRegion(s[j], lines, page)) >= MinBodyLines + 1}}

(***************************************************************************)
(* A reading is what was recognized on a candidate line: of its length     *)
(* characters the first end are the word "Abstract" (or a Korean one);     *)
(* end = 0 when it does not start with one or nothing was read with enough *)
(* confidence.                                                             *)
(***************************************************************************)
NoReading == [end |-> 0, length |-> 0]
TooLong(reading) ==
    reading.length > reading.end /\ 100 * (reading.end + 1) > MaxPrefix * reading.length

SplitInlineBlock(b, lines, page, readings) ==
    LET region == InlineRegion(b, lines, page)
        line == region[1]
        reading == IF line \in DOMAIN readings THEN readings[line] ELSE NoReading
        x == line[1] + (Width(line) * (reading.end + 1)) \div reading.length
        rest == [b EXCEPT !.type = "abstract", !.box = Hull(Tail(region))]
        heading == [b EXCEPT !.type = "section_header"]
    IN  IF Len(region) < MinBodyLines + 1 THEN <<b>>
        ELSE IF reading.end = 0 \/ TooLong(reading) THEN <<b>>
        ELSE IF reading.length = reading.end THEN <<[heading EXCEPT !.box = line], rest>>
        ELSE <<[heading EXCEPT !.box = <<line[1], line[2], x, line[4]>>],
               [b EXCEPT !.type = "abstract", !.box = <<x, line[2], line[3], line[4]>>],
               rest>>

SplitInline(s, lines, page, start, readings) ==
    IF InlineCandidates(s, lines, page) = {} THEN s
    ELSE OrderDetected(
            FlattenSeq([i \in DOMAIN s |-> SplitInlineBlock(s[i], lines, page, readings)]), start)

-----------------------------------------------------------------------------
(* Text blocks that are the title or the authors are recognized by where   *)
(* they are.                                                               *)

MayBeTitle(s, lines, i) ==
    LET xs == {lines[k][1] : k \in DOMAIN lines}
        ends == {lines[k][3] : k \in DOMAIN lines}
        width == (CHOOSE x \in ends : \A y \in ends : y <= x) - First(xs)
    IN  /\ s[i].type = "text"
        /\ \A j \in DOMAIN s : s[j].type \in {"abstract", "section_header"}
                                   => s[i].box[4] < s[j].box[2]
        /\ 100 * Width(s[i].box) >= TitleMinWidth * width
        /\ Width(s[i].box) >= Height(s[i].box)
TitleKey(b) == <<b.box[2], -Width(b.box)>>

RecoverTitle(s, lines, page) ==
    LET able == {i \in DOMAIN s : MayBeTitle(s, lines, i)}
        best == {i \in able : \A j \in able :
                    Precedes(TitleKey(s[i]), TitleKey(s[j]))
                    \/ (TitleKey(s[i]) = TitleKey(s[j]) /\ i <= j)}
    IN  IF page # 1 \/ lines = <<>> \/ (\E i \in DOMAIN s : s[i].type = "title") THEN s
        ELSE [i \in DOMAIN s |-> IF i \in best THEN [s[i] EXCEPT !.type = "title"] ELSE s[i]]

\* _probable_author_region_orders: order numbers, of the first page only
AuthorOrders(s) ==
    LET page == First({s[i].page : i \in DOMAIN s})
        At(types) == {s[i].order : i \in {j \in DOMAIN s : s[j].page = page /\ s[j].type \in types}}
        titles == At({"title"})
        bounds == {o \in At({"abstract", "section_header"}) : \A t \in titles : o > t}
    IN  IF s = <<>> THEN {}
        ELSE IF titles = {} \/ bounds = {} THEN {}
        ELSE {s[i].order : i \in {j \in DOMAIN s :
                /\ s[j].page = page /\ s[j].type = "text"
                /\ \A t \in titles : t < s[j].order
                /\ s[j].order < First(bounds)
                /\ Width(s[j].box) >= Height(s[j].box)}}

RecoverAuthors(s) ==
    [i \in DOMAIN s |-> IF s[i].order \in AuthorOrders(s) /\ s[i].type = "text"
                        THEN [s[i] EXCEPT !.type = "author"] ELSE s[i]]
=============================================================================
