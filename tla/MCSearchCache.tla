---------------------------- MODULE MCSearchCache ----------------------------
(***************************************************************************)
(* Instances of the search cache for TLC.  Papers are numbers, and numbers *)
(* in a .cfg are ordinary values, so nothing has to be defined here.       *)
(***************************************************************************)
EXTENDS SearchCache
=============================================================================
