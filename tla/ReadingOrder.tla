---------------------------- MODULE ReadingOrder ----------------------------
(***************************************************************************)
(* _order_detected_blocks (paddle_backend.py): puts the blocks of a page   *)
(* into reading order and numbers them from start.  A page with two or     *)
(* more blocks on either side of its middle has two columns; blocks across *)
(* the middle then cut it into bands, and a band is read left column       *)
(* first.                                                                  *)
(***************************************************************************)
EXTENDS Boxes

LeftEdge(s) == CHOOSE x \in {s[i].box[1] : i \in DOMAIN s} : \A i \in DOMAIN s : x <= s[i].box[1]
RightEdge(s) == CHOOSE x \in {s[i].box[3] : i \in DOMAIN s} : \A i \in DOMAIN s : x >= s[i].box[3]
\* twice the midpoint; margins of 8% of the content width around it
Middle2(s) == LeftEdge(s) + RightEdge(s)

Spanning(s, i) ==
    LET margin == 8 * (RightEdge(s) - LeftEdge(s))
    IN  /\ 100 * s[i].box[1] < 50 * Middle2(s) - margin
        /\ 100 * s[i].box[3] > 50 * Middle2(s) + margin
OnTheLeft(s, i) == 2 * s[i].box[1] < Middle2(s)

TwoColumns(s) ==
    LET single == {i \in DOMAIN s : ~Spanning(s, i)}
        left == {i \in single : OnTheLeft(s, i)}
    IN  Cardinality(left) >= 2 /\ Cardinality(single \ left) >= 2

\* the spanning blocks that end above the middle of block i
Above(s, i) ==
    {j \in DOMAIN s : Spanning(s, j) /\ 2 * s[j].box[4] <= s[i].box[2] + s[i].box[4]}
SpansBefore(s, i) ==
    {j \in DOMAIN s : Spanning(s, j)
        /\ (Precedes(TopLeft(s[j].box), TopLeft(s[i].box))
            \/ (TopLeft(s[j].box) = TopLeft(s[i].box) /\ j < i))}

\* Wrong on purpose: the columns of a band are read across.
AcrossKey(s, i) ==
    IF Spanning(s, i) THEN <<2 * Cardinality(SpansBefore(s, i)) + 1, 0, 0, 0>>
    ELSE <<2 * Cardinality(Above(s, i)), s[i].box[2], s[i].box[1], 0>>
\* band 0, first spanning block, band 1, second spanning block, ...
ColumnKey(s, i) ==
    IF Spanning(s, i) THEN <<2 * Cardinality(SpansBefore(s, i)) + 1, 0, 0, 0>>
    ELSE <<2 * Cardinality(Above(s, i)), IF OnTheLeft(s, i) THEN 0 ELSE 1,
           s[i].box[2], s[i].box[1]>>

Arranged(s) ==
    LET columns == TwoColumns(s)
    IN  SortBy(s, [i \in DOMAIN s |->
            IF columns THEN ColumnKey(s, i) ELSE TopLeft(s[i].box)])

\* Wrong on purpose: every page is numbered from 0.
OrderFromZero(s, start) ==
    LET t == Evaluated(Arranged(s))
    IN  [i \in DOMAIN t |-> [t[i] EXCEPT !.order = i - 1]]
\* Fewer than two blocks are returned as they are, the number included.
OrderDetected(s, start) ==
    IF Len(s) < 2 THEN s
    ELSE LET t == Evaluated(Arranged(s))
         IN  [i \in DOMAIN t |-> [t[i] EXCEPT !.order = start + i - 1]]
=============================================================================
