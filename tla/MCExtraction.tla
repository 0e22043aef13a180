---------------------------- MODULE MCExtraction ----------------------------
(***************************************************************************)
(* An instance of the extraction for TLC: pages of two columns, 48 units   *)
(* wide, on which some of the regions below are found, in either order,    *)
(* and all text lines but one; then documents with one table or with a     *)
(* short body.                                                             *)
(***************************************************************************)
EXTENDS ExtractionProperties

Region(type, box, conf) == [type |-> type, box |-> box, conf |-> conf]

MCRegions == <<
    Region("text", <<4, 0, 44, 4>>, 1),             \* the title, not recognized as one
    Region("section_header", <<0, 8, 6, 11>>, 1),   \* most of the word "Abstract"
    Region("abstract", <<0, 8, 20, 19>>, 1),
    Region("text", <<28, 8, 48, 20>>, 1),
    Region("text", <<0, 24, 20, 35>>, 1),
    Region("text", <<0, 24, 20, 36>>, 2),           \* the same once more
    Region("section_header", <<28, 24, 48, 36>>, 1),\* a heading and its text
    Region("figure", <<2, 20, 46, 24>>, 1)>>

MCLines == <<
    <<4, 0, 44, 3>>,
    <<0, 9, 8, 11>>, <<0, 12, 20, 14>>, <<0, 15, 24, 17>>,
    <<28, 25, 36, 27>>, <<28, 28, 48, 30>>, <<28, 31, 48, 33>>,
    <<0, 32, 20, 34>>, <<4, 21, 20, 23>>>>

Picks(n) == {P \in SUBSET (1..8) : Cardinality(P) <= n}
Backwards(s) == [i \in DOMAIN s |-> s[Len(s) + 1 - i]]
MCFound(n) == {Only(MCRegions, P) : P \in Picks(n)}

\* a text that grows around the two others and is then dropped as their container
Growing == [found |-> <<Region("text", <<0, 40, 20, 52>>, 1),
                        Region("section_header", <<10, 40, 26, 44>>, 1),
                        Region("text", <<10, 48, 26, 52>>, 1)>>,
            lines |-> <<<<0, 45, 26, 47>>>>]

MCScenes == <<
    {[found |-> f, lines |-> Only(MCLines, DOMAIN MCLines \ D)] :
        f \in MCFound(3), D \in {{}, {1}, {5}, {8}}}
      \union {[found |-> Backwards(f), lines |-> MCLines] : f \in MCFound(3)}
      \union {[found |-> <<MCRegions[5], MCRegions[6]>>, lines |-> <<>>], Growing},
    {[found |-> <<>>, lines |-> <<>>],
     [found |-> <<MCRegions[4]>>, lines |-> <<>>],
     [found |-> <<MCRegions[4], MCRegions[5]>>, lines |-> <<>>]} >>

MCReadings == {NoReading, [end |-> 2, length |-> 2], [end |-> 2, length |-> 12],
               [end |-> 2, length |-> 4]}

Printed(says, chars) == [says |-> says, chars |-> chars, wired |-> <<>>, wireless |-> <<>>]
MCPlain == Printed("prose", <<>>)

-----------------------------------------------------------------------------
(* Pages in one pass: some regions in either order, with words in, at the edge of and beside them. *)

Read(chars) == [says |-> "prose", chars |-> chars, grid |-> <<>>]
Piece(type, box, text) == [type |-> type, box |-> box, conf |-> 1, text |-> text]

MCPieces == <<
    Piece("text", <<0, 0, 45, 20>>, Read(<<"a">>)), Piece("text", <<0, 40, 45, 60>>, Read(<<"A">>)),
    Piece("text", <<55, 0, 100, 20>>, Read(<<"a", ".">>)),
    Piece("table", <<55, 40, 100, 60>>, NoText), Piece("figure", <<5, 66, 95, 80>>, NoText),
    Piece("text", <<0, 84, 45, 90>>, NoText)>>
MCWords == <<
    <<10, 22, 30, 30>>, <<56, 24, 80, 32>>,
    <<57, 42, 67, 50>>, <<80, 44, 90, 52>>, <<96, 56, 104, 64>>, <<95, 47, 107, 55>>,
    <<94, 57, 102, 65>>, <<10, 84, 30, 90>>, <<5, 92, 95, 98>>>>

Words(K) == [k \in DOMAIN Only(MCWords, K) |-> [box |-> Only(MCWords, K)[k], text |-> Read(<<"a">>)]]
MCPrints == <<
    {[found |-> Only(MCPieces, P), words |-> Words(K)] :
        P \in SUBSET (1..6), K \in {L \in SUBSET (1..9) : Cardinality(L) \in {0, 1, 2, 9}}}
      \union {[found |-> Backwards(MCPieces), words |-> Words(1..9)]} >>

\* what the theorem on one pass asks of the prints holds of these
ASSUME InstanceIsApart == RegionsAreNotWords

-----------------------------------------------------------------------------
\* every table of up to three rows of up to two cells, each with its own text
Cell(text, span) == [text |-> text, cols |-> span[1], rows |-> span[2]]
Spans == (1..2) \X (1..2)
MCRow(r) ==
    {<<>>} \union {<<Cell(10 * r + 1, a)>> : a \in Spans}
           \union {<<Cell(10 * r + 1, a), Cell(10 * r + 2, b)>> : a, b \in Spans}
LastRow == {<<>>, <<Cell(31, <<1, 1>>)>>, <<Cell(31, <<1, 1>>), Cell(32, <<1, 1>>)>>}
MCTables == {<<a, b, c>> : a \in MCRow(1), b \in MCRow(2), c \in LastRow}
HalfEmpty == <<<<Cell(11, <<1, 1>>), Cell(0, <<1, 1>>)>>, <<Cell(0, <<1, 1>>), Cell(22, <<1, 1>>)>>>>

Block(order, type, printed) ==
    Filed([page |-> 1, type |-> type, box |-> <<0, 10 * order, 40, 10 * order + 8>>,
           conf |-> 0, order |-> order], printed)

TableDocuments ==
    {<<Block(0, "table", [MCPlain EXCEPT !.wired = t, !.wireless = HalfEmpty])>> : t \in MCTables}

-----------------------------------------------------------------------------
StringsOf(alphabet, lengths) == UNION {[1..n -> alphabet] : n \in lengths}
LongTexts == StringsOf({"a", ".", " ", "D"}, {5}) \union StringsOf({"a", "/", "."}, {7})
ShortTexts == StringsOf({"a", "A", "-", "."}, 0..2)

BodyDocuments ==
    {<<Block(0, "text", Printed("prose", t))>> : t \in LongTexts}
    \union
    {<<Block(0, "text", Printed("prose", t)), Block(1, kind, Printed(says, <<"A">>)),
       Block(2, last, Printed("prose", u))>> :
        t, u \in ShortTexts, kind \in {"section_header", "table_caption"},
        says \in {"prose", "abstract"}, last \in {"text", "abstract"}}

MCReviewed == TableDocuments \union BodyDocuments
=============================================================================
