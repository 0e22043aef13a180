--------------------------- MODULE MCReviewService --------------------------
(***************************************************************************)
(* Instances of the review workflow for TLC.                               *)
(***************************************************************************)
EXTENDS ReviewProperties, TLC

Symmetry == Permutations(Clients) \union Permutations(PaperIds)

Reviews(rs) == {[review |-> r] : r \in rs}
NewBoxes == {[box |-> x] : x \in Boxes}

SequentialUpdates == Reviews({"approved", "rejected"}) \union {[corrected |-> "text"]}
                         \union {[corrected |-> "blank", review |-> "approved"]}
\* Two different boxes are enough there: a box, and none.
OverlapUpdates == Reviews({"rejected"}) \union {[box |-> NoBox]}
StaleUpdates == Reviews({"approved", "rejected"}) \union NewBoxes
=============================================================================
