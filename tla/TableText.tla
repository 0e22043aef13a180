------------------------------ MODULE TableText ------------------------------
(***************************************************************************)
(* A table region becomes text (paddle_backend.py): the structure model's  *)
(* HTML is laid out on a grid (_TableHtmlParser), judged                   *)
(* (_table_structure_quality), and of the models for tables with and       *)
(* without rules the better result is taken (_recognize_table).            *)
(*                                                                         *)
(* The HTML is a sequence of rows, a row a sequence of cells               *)
(* [text, cols, rows]: what td or th says, its colspan and its rowspan     *)
(* (_parse_span makes a missing or bad one 1).  Every tag is closed, as    *)
(* the models write it.  Blank is the empty text, NoCell the parser's None.*)
(***************************************************************************)
EXTENDS Integers, Sequences, FiniteSets, SequencesExt

CONSTANTS Blank, NoCell

\* row with the texts given at some columns, grown when it is too short
SetCells(row, given) ==
    [c \in 1..Max({Len(row)} \union DOMAIN given) |->
        IF c \in DOMAIN given THEN given[c] ELSE IF c <= Len(row) THEN row[c] ELSE NoCell]

NextFreeColumn(row) ==
    CHOOSE c \in 1..(Len(row) + 1) :
        /\ c = Len(row) + 1 \/ row[c] = NoCell
        /\ \A d \in 1..(c - 1) : row[d] # NoCell

(***************************************************************************)
(* The parser between two tags: rows finished, the row being filled, and   *)
(* pending, which for a column that a cell from above still covers has     *)
(* [left, text], the rows it has left and its text.                        *)
(***************************************************************************)
ParserStart == [rows |-> <<>>, row |-> <<>>, pending |-> << >>]

\* Wrong on purpose: a cell that spans rows covers one row too many.
OpenRowLate(p) ==
    [p EXCEPT !.row = SetCells(<<>>, [c \in DOMAIN p.pending |-> p.pending[c].text]),
              !.pending = [c \in {d \in DOMAIN @ : @[d].left > 0} |->
                              [left |-> @[c].left - 1, text |-> @[c].text]]]
\* <tr>: the columns covered from above are filled first
OpenRow(p) ==
    [p EXCEPT !.row = SetCells(<<>>, [c \in DOMAIN p.pending |-> p.pending[c].text]),
              !.pending = [c \in {d \in DOMAIN @ : @[d].left > 1} |->
                              [left |-> @[c].left - 1, text |-> @[c].text]]]

\* </td>
EndCell(p, cell) ==
    LET col == NextFreeColumn(p.row)
        cols == col..(col + cell.cols - 1)
    IN  [p EXCEPT !.row = SetCells(@, [c \in cols |-> cell.text]),
                  !.pending = IF cell.rows = 1 THEN @
                              ELSE [c \in cols \union DOMAIN @ |->
                                       IF c \in cols
                                       THEN [left |-> cell.rows - 1, text |-> cell.text]
                                       ELSE @[c]]]

\* </tr>: a row without any cell is dropped, holes become empty
CloseRow(p) ==
    IF p.row = <<>> THEN p
    ELSE [p EXCEPT !.rows = Append(@, [c \in DOMAIN p.row |->
                        IF p.row[c] = NoCell THEN Blank ELSE p.row[c]])]

ParseRow(p, cells) == CloseRow(FoldLeft(EndCell, OpenRow(p), cells))
\* _html_table_to_pipe_text: the rows of the text, each a sequence of cells
Grid(html) == FoldLeft(ParseRow, ParserStart, html).rows

-----------------------------------------------------------------------------
(* Judging and choosing. *)

\* A line without "|" has one cell and is not looked at.
PipeRows(grid) == SelectSeq(grid, LAMBDA row : Len(row) >= 2)

RowsOfWidth(rows, n) == Cardinality({i \in DOMAIN rows : Len(rows[i]) = n})
\* the commonest widths; the code takes any of them
ExpectedColumns(rows) ==
    LET widths == {Len(rows[i]) : i \in DOMAIN rows}
    IN  {n \in widths : \A m \in widths : RowsOfWidth(rows, m) <= RowsOfWidth(rows, n)}
FilledCells(rows) ==
    Cardinality({p \in UNION {{i} \X DOMAIN rows[i] : i \in DOMAIN rows} :
                    rows[p[1]][p[2]] # Blank})

(***************************************************************************)
(* _table_structure_quality as a fraction [num, den]:                      *)
(* 0.3 * rows of the common width + 0.6 * filled cells + 0.1 * length.     *)
(***************************************************************************)
QualityWith(rows, columns) ==
    LET n == Len(rows)
    IN  [num |-> 9 * columns * RowsOfWidth(rows, columns) + 18 * FilledCells(rows)
                    + columns * n * (IF n < 3 THEN n ELSE 3),
         den |-> 30 * columns * n]
Qualities(grid) ==
    LET rows == PipeRows(grid)
    IN  IF Len(rows) < 2 THEN {[num |-> 0, den |-> 1]}
        ELSE {QualityWith(rows, n) : n \in ExpectedColumns(rows)}

MinStructureQuality == 70    \* paddle_table_min_structure_quality, in percent
GoodEnough(q) == 100 * q.num >= MinStructureQuality * q.den
BetterThan(q, r) == q.num * r.den > r.num * q.den

(***************************************************************************)
(* _recognize_table: the grids it may return when the kind the classifier  *)
(* names yields first and the other kind second.  A model that is not      *)
(* installed yields the empty grid.                                        *)
(***************************************************************************)
Recognized(first, second) ==
    {g \in {first, second} : \E q \in Qualities(first), r \in Qualities(second) :
        g = IF ~GoodEnough(q) /\ BetterThan(r, q) THEN second ELSE first}
=============================================================================
