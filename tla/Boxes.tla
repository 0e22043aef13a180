-------------------------------- MODULE Boxes --------------------------------
(***************************************************************************)
(* Rectangles on a page, as the layout code compares them                  *)
(* (ingest/layout/dedup.py and paddle_backend.py).  A box is               *)
(* <<x1, y1, x2, y2>>, y growing downwards.  The code divides floats; here *)
(* coordinates are integers and a ratio is compared after multiplying out, *)
(* with thresholds in percent, so that no rounding is involved.            *)
(***************************************************************************)
EXTENDS Integers, Sequences, FiniteSets

Lo(a, b) == IF a <= b THEN a ELSE b
Hi(a, b) == IF a >= b THEN a ELSE b

Width(b) == b[3] - b[1]
Height(b) == b[4] - b[2]
Area(b) == Hi(0, Width(b)) * Hi(0, Height(b))

OverlapX(a, b) == Hi(0, Lo(a[3], b[3]) - Hi(a[1], b[1]))
OverlapY(a, b) == Hi(0, Lo(a[4], b[4]) - Hi(a[2], b[2]))
Intersection(a, b) == OverlapX(a, b) * OverlapY(a, b)

Union(a, b) == <<Lo(a[1], b[1]), Lo(a[2], b[2]), Hi(a[3], b[3]), Hi(a[4], b[4])>>

\* part / whole >= pct percent; the code takes part / 0 to be 0
Reaches(part, whole, pct) == whole > 0 /\ 100 * part >= pct * whole

\* "how much of inner lies in outer"
Inside(inner, outer, pct) == Reaches(Intersection(inner, outer), Area(inner), pct)
\* intersection over union
Alike(a, b, pct) ==
    Reaches(Intersection(a, b), Area(a) + Area(b) - Intersection(a, b), pct)
\* overlap measured on the smaller of the two
SmallerInside(a, b, pct) == Reaches(Intersection(a, b), Lo(Area(a), Area(b)), pct)
\* "are they in one column": overlap measured on the narrower of the two
SameColumn(a, b, pct) == Reaches(OverlapX(a, b), Lo(Width(a), Width(b)), pct)
\* how much of a's height is level with b
Level(a, b, pct) == Reaches(OverlapY(a, b), Hi(0, Height(a)), pct)

-----------------------------------------------------------------------------
(* Sorting, which Python does stably and by tuples of keys. *)

\* the sequence s; TLC computes its elements once
Evaluated(s) == s \o <<>>

Precedes(k, l) ==
    \E n \in DOMAIN k : k[n] < l[n] /\ \A m \in 1..(n - 1) : k[m] = l[m]

\* s sorted by key, a function from its indices to tuples of integers
SortBy(s, key) ==
    LET by == Evaluated(key)
        place == Evaluated([i \in DOMAIN s |-> Cardinality({j \in DOMAIN s :
                     Precedes(by[j], by[i]) \/ (by[j] = by[i] /\ j <= i)})])
    IN  [k \in DOMAIN s |-> s[CHOOSE i \in DOMAIN s : place[i] = k]]

\* the elements of s at the indices in keep, in their order
Only(s, keep) ==
    [k \in 1..Cardinality(keep) |->
        s[CHOOSE i \in keep : Cardinality({j \in keep : j <= i}) = k]]

First(S) == CHOOSE i \in S : \A j \in S : i <= j

\* twice the median of the integers in s
Median2(s) ==
    LET v == SortBy(s, [i \in DOMAIN s |-> <<s[i]>>])
        n == Len(s)
    IN  v[(n + 1) \div 2] + v[(n + 2) \div 2]

TopLeft(b) == <<b[2], b[1]>>
=============================================================================
