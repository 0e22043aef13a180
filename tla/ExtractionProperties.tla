------------------------ MODULE ExtractionProperties ------------------------
(***************************************************************************)
(* What the extraction keeps, whatever the models see.                     *)
(***************************************************************************)
EXTENDS Extraction

Ordered == {"arranged", "matched", "recovered", "split", "inlined", "titled", "corrected"}
Repaired == Ordered \ {"arranged", "matched"}

-----------------------------------------------------------------------------
Cells(b) == (b[1]..(b[3] - 1)) \X (b[2]..(b[4] - 1))
InSome(s, x, y) ==
    \E i \in DOMAIN s : /\ s[i].box[1] <= x /\ x < s[i].box[3]
                        /\ s[i].box[2] <= y /\ y < s[i].box[4]

(***************************************************************************)
(* Once _reconcile_layout_with_text has recovered the forgotten lines,     *)
(* every text line is counted as covered, and no split, of merged headings *)
(* or of headings in a line, takes more than two fifths of a line out of   *)
(* the blocks that OCR will crop.  (It may take that much: see the README.)*)
(***************************************************************************)
LinesStayCovered ==
    stage \in Repaired =>
        /\ covered.finally = covered.detected
        /\ \A i \in DOMAIN lines :
              Reaches(Cardinality({c \in Cells(lines[i]) : InSome(blocks, c[1], c[2])}),
                      Area(lines[i]), LineOverlap)

-----------------------------------------------------------------------------
SpansApart(s) ==
    \A i, j \in DOMAIN s : Spanning(s, i) /\ Spanning(s, j) /\ i # j
                               => OverlapY(s[i].box, s[j].box) = 0

Middle(b) == b[2] + b[4]
\* no block across the page ends between the middles of i and j
SameBand(s, i, j) ==
    ~\E k \in DOMAIN s :
        /\ Spanning(s, k)
        /\ \/ Middle(s[j].box) < 2 * s[k].box[4] /\ 2 * s[k].box[4] <= Middle(s[i].box)
           \/ Middle(s[i].box) < 2 * s[k].box[4] /\ 2 * s[k].box[4] <= Middle(s[j].box)

\* a reader reads block i before block j
ReadBefore(s, i, j) ==
    LET above == s[i].box[4] <= s[j].box[2]
        across == Spanning(s, i) \/ Spanning(s, j)
    IN  IF ~TwoColumns(s) THEN above
        ELSE \/ above /\ (across \/ (OnTheLeft(s, i) <=> OnTheLeft(s, j)))
             \/ ~across /\ OnTheLeft(s, i) /\ ~OnTheLeft(s, j) /\ SameBand(s, i, j)

(***************************************************************************)
(* After every correction that moves, adds or splits blocks, the blocks    *)
(* come in the order in which a two-column page is read: down the left     *)
(* column before the right one, up to the next block across the page.      *)
(* Blocks across the page that overlap each other are left out:            *)
(* _order_detected_blocks then counts a block into the wrong band.         *)
(***************************************************************************)
ReadingOrderKept ==
    stage \in Ordered /\ SpansApart(blocks) =>
        \A i, j \in DOMAIN blocks : i < j => ~ReadBefore(blocks, j, i)

-----------------------------------------------------------------------------
(* the blocks of a page that one pass made of single words *)
Loose == {i \in DOMAIN blocks : \E k \in DOMAIN lines : blocks[i].box = lines[k]}
Downwards(boxes, width) ==
    \A i, j \in DOMAIN boxes : i < j /\ Zone(boxes[i], width) = Zone(boxes[j], width)
                                    => boxes[i][2] <= boxes[j][2]

(***************************************************************************)
(* _merge_in_reading_order, one pass: when the model reads the columns of  *)
(* a page downwards, so does the document after words were put between its *)
(* blocks; a page without columns is sorted.                               *)
(***************************************************************************)
OnePassOrder ==
    stage = "batch" /\ blocks # <<>> =>
        LET boxes == [i \in DOMAIN blocks |-> blocks[i].box]
            width == PageWidth({boxes[i] : i \in DOMAIN boxes})
            found == Only(blocks, DOMAIN blocks \ Loose)
            given == [i \in DOMAIN found |-> found[i].box]
        IN  Loose = {} \/ ~Downwards(given, width) \/ ~Downwards(lines, width)
            \/ IF InColumns(found, width) THEN Downwards(boxes, width)
               ELSE \A i, j \in DOMAIN boxes : i < j => boxes[i][2] <= boxes[j][2]

-----------------------------------------------------------------------------
InTables(word) == {i \in DOMAIN blocks : \E r \in DOMAIN blocks[i].text.grid :
                       \E c \in DOMAIN blocks[i].text.grid[r] : blocks[i].text.grid[r][c] = word}
Large(word) == Width(word) > 6 /\ Height(word) > 6
\* the tables of a page laid out from words; no text of the layout model comes with a grid
MadeOfWords == {i \in DOMAIN blocks : blocks[i].text.grid # <<>>}

(***************************************************************************)
(* _map_result, one pass: no word of more than 6 pixels is read twice, as  *)
(* a cell of a table and as a paragraph of its own, although the first is  *)
(* decided by the word's center and the second by its overlap in pixels; a *)
(* word with its center in a table made of words is a cell of it, however  *)
(* the rows are cut; and a word that is neither a cell nor a paragraph     *)
(* lies, in part at least, in a block.  If that is a table made of words,  *)
(* the word is across its edge, and read nowhere: see the README.          *)
(***************************************************************************)
WordsReadOnce ==
    stage = "batch" =>
        \A k \in DOMAIN lines :
            LET word == lines[k]
                own == {i \in Loose : blocks[i].box = word}
            IN  /\ Large(word) /\ InTables(word) # {} => own = {}
                /\ \A i \in MadeOfWords : CenterInside(word, blocks[i].box) => i \in InTables(word)
                /\ own = {} /\ InTables(word) = {} =>
                       \E i \in DOMAIN blocks : Intersection(word, blocks[i].box) > 0

\* No region has the very box of a word; a table is larger than the overlap that counts.
RegionsAreNotWords ==
    \A p \in 1..Len(Prints) : \A print \in Prints[p] : \A i \in DOMAIN print.found :
        LET f == print.found[i]
        IN  /\ \A k \in DOMAIN print.words : f.box # print.words[k].box
            /\ f.type = "table" => Width(f.box) > 3 /\ Height(f.box) > 3

(***************************************************************************)
(* One pass keeps what it reads in a table or beside the blocks: nothing   *)
(* twice, nothing out of order.                                            *)
(***************************************************************************)
OnePassKept == WordsReadOnce /\ OnePassOrder

-----------------------------------------------------------------------------
OnPage(p) == {i \in DOMAIN document : document[i].page = p}
LonePage == \E p \in 1..Pages : Cardinality(OnPage(p)) = 1

(***************************************************************************)
(* run_reviewed_ocr: the text of a region goes to the block of that        *)
(* region, although results are given back by order number, which must     *)
(* then tell the blocks of all pages apart.  They do after all             *)
(* corrections unless some page is left with a single block, which keeps   *)
(* the number of a detection that the deduplication dropped.               *)
(***************************************************************************)
TextFromOwnCrop ==
    stage \in {"recognized", "filtered", "paragraphs"} /\ ~LonePage =>
        \A i \in DOMAIN document : document[i].crop = i

-----------------------------------------------------------------------------
\* no row without cells, no blank cell, no wide cell beside one from above; texts tell cells apart
PlainTable(html) ==
    /\ \A r \in DOMAIN html : html[r] # <<>>
    /\ \A r \in DOMAIN html : \A k \in DOMAIN html[r] : html[r][k].text # Blank
    /\ \A r \in DOMAIN html : \A k \in DOMAIN html[r] :
          html[r][k].cols > 1 =>
              \A q \in 1..(r - 1) : \A j \in DOMAIN html[q] : html[q][j].rows <= r - q
    /\ \A r, q \in DOMAIN html : \A k \in DOMAIN html[r], j \in DOMAIN html[q] :
          html[r][k].text = html[q][j].text => r = q /\ k = j

Shown(grid, text) == {p \in UNION {{r} \X DOMAIN grid[r] : r \in DOMAIN grid} :
                         grid[p[1]][p[2]] = text}

\* cell k of row r of html shows on the grid as one block of cells
InPlace(html, grid, r, k) ==
    LET cell == html[r][k]
        last == Lo(r + cell.rows - 1, Len(html))
    IN  \E c \in DOMAIN grid[r] :
            /\ Shown(grid, cell.text) = (r..last) \X (c..(c + cell.cols - 1))
            /\ \A j \in 1..(k - 1) : \A x \in Shown(grid, html[r][j].text) : x[2] < c
            /\ \A d \in 1..(c - 1) : grid[r][d] # Blank

(***************************************************************************)
(* _TableHtmlParser: on the grid that a table's text is made from, each    *)
(* cell takes the columns and the rows that its colspan and rowspan name,  *)
(* in the row it was written in, right of the cells before it, so that no  *)
(* value moves under another heading.                                      *)
(***************************************************************************)
CellsInPlace ==
    stage = "recognized" =>
        \A i \in DOMAIN document : \A html \in {document[i].printed.wired, document[i].printed.wireless} :
            PlainTable(html) /\ document[i].text.grid = Grid(html) =>
                /\ Len(document[i].text.grid) = Len(html)
                /\ \A r \in DOMAIN html : \A k \in DOMAIN html[r] :
                      InPlace(html, document[i].text.grid, r, k)

-----------------------------------------------------------------------------
\* the section that block i of the body stands in
SectionOf(body, i) ==
    LET headers == {j \in 1..i : body[j].type = "section_header"
                                     /\ Letters(body[j].text.chars) # <<>>}
    IN  IF headers = {} THEN -1
        ELSE body[CHOOSE j \in headers : \A k \in headers : k <= j].order

Tagged(section, chars) ==
    LET letters == Letters(chars)
    IN  [k \in DOMAIN letters |-> <<section, letters[k]>>]

BodyText(body) ==
    FlattenSeq([i \in DOMAIN body |->
        IF body[i].type = "section_header" THEN <<>>
        ELSE Tagged(SectionOf(body, i), body[i].text.chars)])

(***************************************************************************)
(* build_paragraphs: joining short pieces and cutting long ones loses no   *)
(* letter, doubles none, changes no order and moves none under another     *)
(* section, and no paragraph is empty or longer than max_chars.            *)
(***************************************************************************)
ParagraphsKeepText ==
    stage = "paragraphs" =>
        LET made == content.paragraphs
        IN  /\ FlattenSeq([k \in DOMAIN made |-> Tagged(made[k].section, made[k].chars)])
                  = BodyText(content.split.body)
            /\ \A k \in DOMAIN made : Len(made[k].chars) \in 1..MaxChars
=============================================================================
