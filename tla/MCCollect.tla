------------------------------ MODULE MCCollect ------------------------------
(***************************************************************************)
(* Instances of collection for TLC.                                        *)
(***************************************************************************)
EXTENDS Collect, TLC
Symmetry == Permutations(Sources) \union Permutations(Contents)
Mixed == {{}, {"crash", "broker", "disk"}, {"crash", "damage"}}
OneByOne == {{"crash"}, {"broker"}, {"disk"}}
=============================================================================
