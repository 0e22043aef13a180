--------------------------- MODULE MCIngestPipeline --------------------------
(***************************************************************************)
(* Instances of concurrent ingestion for TLC.                              *)
(***************************************************************************)
EXTENDS IngestProperties, TLC
CONSTANTS k1, k2, k3
Symmetry == Permutations(Runs)
AllSimilar == Keywords \X Keywords
Pair == {<<k1, k2>>, <<k2, k1>>}                            \* k3 is similar to neither
=============================================================================
